--------------------------------- MODULE CbFlow -------------------------------
(***************************************************************************)
(* Flow control of the replicas' consistent broadcasts, with CB            *)
(* checkpoints (src/ubft/src/consensus/consensus.hpp, CB_CHECKPOINTS).     *)
(* Links and receivers keep only the last TailSize messages, so a          *)
(* broadcaster must not run away from those that deliver its messages.     *)
(* Everyone certifies the state it deduced from a broadcaster's messages   *)
(* every half tail; the certificate lets the broadcaster go on.  The       *)
(* certificate needs a majority: a replica that is left behind finds a gap *)
(* and spins for ever, as its recovery is not implemented.                 *)
(***************************************************************************)
EXTENDS Integers, FiniteSets

CONSTANTS
  Replica,
  Active,     \* replicas that broadcast
  TailSize,   \* cb_tail
  MaxIndex    \* bound: messages each of them broadcasts

VARIABLES
  next_index,    \* broadcaster -> messages broadcast
  can_cb_until,  \* broadcaster -> last index it may broadcast
  next_cb,       \* replica, broadcaster -> next message to handle
  acknowledged,  \* replica, broadcaster -> the CB checkpoint it certifies
  shares,        \* broadcaster -> shares received: <<replica, checkpoint>>
  gaps           \* <<r, b>>: r found a gap in b's messages, and spins

vars == <<next_index, can_cb_until, next_cb, acknowledged, shares, gaps>>

Majority == Cardinality(Replica) \div 2 + 1
NoCheckpoint == 0

Init ==
  /\ next_index = [b \in Active |-> 0]
  /\ can_cb_until = [b \in Active |-> TailSize - 1]
  /\ next_cb = [r \in Replica |-> [b \in Active |-> 0]]
  /\ acknowledged = [r \in Replica |-> [b \in Active |-> NoCheckpoint]]
  /\ shares = [b \in Active |-> {}]
  /\ gaps = {}

spinning == {g[1] : g \in gaps}

AtCheckpoint(n) == n % (TailSize \div 2) = 0

\* The end of handleCbMessage: maybeCertifyCbCheckpoint.  The certifier has a
\* tail of one, and forgets the checkpoint before.
Handled(r, b) ==
  LET n == next_cb[r][b] + 1
  IN  /\ next_cb' = [next_cb EXCEPT ![r][b] = n]
      /\ acknowledged' = IF AtCheckpoint(n)
                         THEN [acknowledged EXCEPT ![r][b] = n] ELSE acknowledged

\* waitForCbSlack returned; the broadcaster handles its own message at once.
Broadcast(b) ==
  /\ b \notin spinning /\ next_index[b] < MaxIndex
  /\ next_index[b] <= can_cb_until[b]
  /\ next_index' = [next_index EXCEPT ![b] = @ + 1]
  /\ Handled(b, b)
  /\ UNCHANGED <<can_cb_until, shares, gaps>>

\* Messages a receiver can still deliver.
Kept(b) == {i \in 0..next_index[b] - 1 : i >= next_index[b] - TailSize}
Oldest(r, b) == CHOOSE i \in Kept(b) : /\ i >= next_cb[r][b]
                                       /\ \A j \in Kept(b) : j >= next_cb[r][b] => i <= j

\* pollCbs, handleCbMessage
PollCb(r, b) ==
  /\ r \notin spinning /\ r # b
  /\ next_cb[r][b] < next_index[b]
  /\ \/ /\ Oldest(r, b) # next_cb[r][b]
        /\ gaps' = gaps \cup {<<r, b>>}
        /\ UNCHANGED <<next_cb, acknowledged>>
     \/ /\ Oldest(r, b) = next_cb[r][b]
        /\ Handled(r, b)
        /\ UNCHANGED gaps
  /\ UNCHANGED <<next_index, can_cb_until, shares>>

Helps_Mutant(r) ==
  r \notin spinning /\ (r \in Active => next_index[r] <= can_cb_until[r])

\* waitForCbSlack itself ticks the certifiers of everyone's checkpoints.
Helps(r) == r \notin spinning

\* The certifier of b's checkpoints at r sends its share for the checkpoint
\* it still serves; the broadcaster counts those for the one it serves.
SendShare(r, b) ==
  /\ Helps(r)
  /\ acknowledged[r][b] # NoCheckpoint
  /\ <<r, acknowledged[r][b]>> \notin shares[b]
  /\ shares' = [shares EXCEPT ![b] =
       {s \in @ : s[2] >= acknowledged[b][b]} \cup {<<r, acknowledged[r][b]>>}]
  /\ UNCHANGED <<next_index, can_cb_until, next_cb, acknowledged, gaps>>

Unlocked_Mutant(c) == c + TailSize
Unlocked(c) == c + TailSize - 1

\* pollCbCheckpointCertificate
PollCertificate(b) ==
  LET c == acknowledged[b][b]
  IN  /\ b \notin spinning /\ c # NoCheckpoint
      /\ Cardinality({s \in shares[b] : s[2] = c}) >= Majority
      /\ can_cb_until[b] < Unlocked(c)
      /\ can_cb_until' = [can_cb_until EXCEPT ![b] = Unlocked(c)]
      /\ UNCHANGED <<next_index, next_cb, acknowledged, shares, gaps>>

Next ==
  \/ \E b \in Active : Broadcast(b) \/ PollCertificate(b)
  \/ \E r \in Replica, b \in Active : PollCb(r, b) \/ SendShare(r, b)

Spec == Init /\ [][Next]_vars

-----------------------------------------------------------------------------
(* A broadcaster may outrun some receivers, which then find a gap and     *)
(* stop, but never a majority: a majority handled all that a certificate   *)
(* releases, and the messages since then fit in the tail.  (Several        *)
(* broadcasters may each outrun another replica, and stop them all.)       *)
OutrunIsMinority ==
  \A b \in Active : Cardinality({r \in Replica : <<r, b>> \in gaps}) < Majority

(* A replica that waits for slack does not wait for ever, unless someone   *)
(* was outrun: the others help it to its certificate while they wait for   *)
(* their own.                                                              *)
SlackComes == \A b \in Active : <>(next_index[b] = MaxIndex \/ gaps # {})
===============================================================================
