SPECIFICATION Spec
CONSTANTS
  Receiver = {r1, r2}
  Broadcaster = caster
  Payload = {v1}
  Garbage = junk
  TailSize = 2
  MaxIndex = 2
  MaxMessages = 1
  MaxSignatures = 1
  MaxEchoes = 1
INVARIANT DiscardedAreUseless
CHECK_DEADLOCK FALSE
