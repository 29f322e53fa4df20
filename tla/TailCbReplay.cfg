SPECIFICATION Spec
CONSTANTS
  Receiver = {r1, r2}
  Broadcaster = caster
  Payload = {v1}
  Garbage = junk
  TailSize = 1
  MaxIndex = 2
  MaxMessages = 1
  MaxSignatures = 1
  MaxEchoes = 1
INVARIANT EquivocationIsReal
CHECK_DEADLOCK FALSE
