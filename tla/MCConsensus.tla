---------------------------- MODULE MCConsensus ----------------------------
(***************************************************************************)
(* Consensus for TLC: its refinement, and bounds for the runs with a view  *)
(* change.                                                                 *)
(***************************************************************************)
EXTENDS Consensus

Log == INSTANCE ReplicatedLog

(* Consensus implements a replicated log: each decision of pollDecision     *)
(* appends to one log a batch that no other log contradicts.                *)
ImplementsLog == Log!Spec

(* Bound of the view change run: stop at the first proposal of the last     *)
(* view.  Decisions and fast commits received do not feed back into what is *)
(* proposed before the first checkpoint, so they are left out.              *)
UntilNewProposal ==
    /\ \A r \in Replica : \A p \in Prepares(r) : p.view < MaxView
    /\ \A r \in Replica : log[r] = << >>
    /\ \A r, s \in Replica : polled_fast[r][s] = 0

(* Bound of the window run: once a replica sealed the first view, replica 0 *)
(* took one slot, and replica 1, which leads the second view, one window of *)
(* them, the recovered one included, or, while no commit is being verified, *)
(* one more, which takes it beyond its window.                              *)
FewPerView ==
    LET next(r) == proposer[r].next_proposal
        more == IF \A r \in Replica : verifying[r] = {} THEN 1 ELSE 0
    IN  (\E r \in Replica : At(r) > 0) =>
           next(0) <= 1 /\ next(1) <= Window + more
=============================================================================
