-------------------------- MODULE ConsistentBroadcast -------------------------
(***************************************************************************)
(* What consistent tail broadcast promises for one broadcaster, correct or *)
(* not: at most one value is ever delivered under an index, and a receiver *)
(* delivers indices in increasing order (with gaps, as only the tail of    *)
(* the messages is kept).                                                  *)
(***************************************************************************)
EXTENDS Naturals

CONSTANTS Receiver, Index, Payload

VARIABLES
  chosen,   \* index -> the values delivered under it
  last      \* receiver -> one more than the last index it delivered

Init ==
  /\ chosen = [i \in Index |-> {}]
  /\ last = [r \in Receiver |-> 0]

Deliver(r, i, v) ==
  /\ i >= last[r]
  /\ last' = [last EXCEPT ![r] = i + 1]
  /\ chosen[i] \subseteq {v}
  /\ chosen' = [chosen EXCEPT ![i] = {v}]

Next == \E r \in Receiver, i \in Index, v \in Payload : Deliver(r, i, v)

Spec == Init /\ [][Next]_<<chosen, last>>
===============================================================================
