---------------------------- MODULE MCCertifier ----------------------------
(***************************************************************************)
(* Certifier for TLC.  One run goes through several scenarios, chosen in   *)
(* the initial state: which paths run, which replicas are alive, which of  *)
(* them forget messages or leave holes, and how many messages there are.   *)
(***************************************************************************)
EXTENDS Certifier

VARIABLE scenario

(* Promises among all replicas; two of three replicas that sign, one of     *)
(* them with messages of its own; the threads of a single replica that      *)
(* toggles its slow path, forgets nothing and leaves no hole.               *)
Promising ==
    [fast |-> TRUE, slow |-> {}, live |-> Replica, toggle |-> FALSE,
     forget |-> {0, 1}, holes |-> TRUE, indices |-> 2]
Signing ==
    [fast |-> FALSE, slow |-> Replica, live |-> 0 .. Quorum - 1, toggle |-> FALSE,
     forget |-> {0}, holes |-> TRUE, indices |-> 2]
Computing ==
    [fast |-> FALSE, slow |-> {}, live |-> {0}, toggle |-> TRUE,
     forget |-> {}, holes |-> FALSE, indices |-> MaxIndex]

MCInit ==
    /\ Init
    /\ scenario \in {Promising, Signing, Computing}
    /\ run_fast_path = scenario.fast
    /\ \A r \in Replica : run_slow_path[r] = (r \in scenario.slow)

MCNext ==
    /\ \E r \in scenario.live :
          /\ Step(r)
          /\ scenario.toggle \/ UNCHANGED run_slow_path
          /\ r \in scenario.forget \/ msg_tail[r] = {} \/ msg_tail'[r] # {}
          /\ next_index'[r] <= scenario.indices
          /\ scenario.holes \/ next_index'[r] <= next_index[r] + 1
    /\ UNCHANGED scenario

MCSpec == MCInit /\ [][MCNext]_<<vars, scenario>>
=============================================================================
