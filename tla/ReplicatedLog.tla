---------------------------- MODULE ReplicatedLog ----------------------------
(***************************************************************************)
(* What consensus promises to the state machine above it: every replica    *)
(* appends batches to its log, one instance after the other, and no two    *)
(* logs ever differ on an instance (Consensus::pollDecision as used by     *)
(* Server::pollToExecute).                                                 *)
(***************************************************************************)
EXTENDS Integers, Sequences

CONSTANTS Replica, Batch
VARIABLE log

Init == log = [r \in Replica |-> << >>]

Append1(r, b) ==
    /\ \A s \in Replica : Len(log[s]) > Len(log[r]) => log[s][Len(log[r]) + 1] = b
    /\ log' = [log EXCEPT ![r] = Append(@, b)]

Next == \E r \in Replica, b \in Batch : Append1(r, b)

Spec == Init /\ [][Next]_log
=============================================================================
