---------------------------- MODULE RegularRegister ---------------------------
(***************************************************************************)
(* What a single-writer register promises: writes carry increasing         *)
(* incarnations, and a read returns an incarnation that was written and    *)
(* that is not older than the last write that had completed when the read  *)
(* started.  Incarnation 0 is the initial content.                         *)
(***************************************************************************)
EXTENDS Naturals

CONSTANT Job   \* handles of the reads

VARIABLES
  written,   \* incarnations whose write started
  finished,  \* incarnation of the last write that completed
  reads      \* job -> its state, and the incarnation of its floor or result

vars == <<written, finished, reads>>

Init ==
  /\ written = {0}
  /\ finished = 0
  /\ reads = [j \in Job |-> [state |-> "idle", inc |-> 0]]

\* One write at a time.
Write ==
  /\ \A w \in written : w <= finished
  /\ \E n \in written' : n > finished /\ written' = written \cup {n}
  /\ UNCHANGED <<finished, reads>>

Finish ==
  /\ finished' \in written /\ \A w \in written : w <= finished'
  /\ UNCHANGED <<written, reads>>

Begin(j) ==
  /\ reads[j].state = "idle"
  /\ reads' = [reads EXCEPT ![j] = [state |-> "pending", inc |-> finished]]
  /\ UNCHANGED <<written, finished>>

Return(j) ==
  /\ reads[j].state = "pending"
  /\ \E n \in written :
       /\ n >= reads[j].inc
       /\ reads' = [reads EXCEPT ![j] = [state |-> "done", inc |-> n]]
  /\ UNCHANGED <<written, finished>>

Next == Write \/ Finish \/ \E j \in Job : Begin(j) \/ Return(j)

Spec == Init /\ [][Next]_vars
===============================================================================
