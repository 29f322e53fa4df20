------------------------------- MODULE MCService ------------------------------
(***************************************************************************)
(* The parts of the system that are checked for safety only, each an       *)
(* instance of its own with variables of its own: part says which of them  *)
(* runs in a behaviour, the others stay as they started.                   *)
(***************************************************************************)
EXTENDS Naturals, TLC

CONSTANTS
  caster, r1, r2, v1, v2, junk,   \* broadcaster, receivers, payloads, garbage
  s1, s2, s3              \* replicas of the service; s1 leads

ASSUME ConstantsAreDistinct ==
  /\ caster \notin {r1, r2} /\ "none" \notin {caster, r1, r2}
  /\ {v1, v2} \cap {junk, "none"} = {} /\ junk # "none"

VARIABLES
  part,
  faulty, next_index, to_sign, messages, signatures, echoes, msg_tail,
  latest_polled, buffered_echoes, verifying, registers, outstanding_writes,
  outstanding_reads, dead, discarded, delivered,
  path, next_request, waiting, next_response, answers, signing, to_server,
  to_client, echo_link, ack_link, outstanding, ingress, checking, verified,
  connected, accepted, log, executed, blames,
  now, subslots, queued_writes, posted_writes, mem, buffer_pool,
  queued_reads, fetching, completed_reads, alarm, floor, slow,
  mpmcs, dest, inserted, last, owner, worker, looped, open, dropped, stop,
  map, ring, pool, held,
  mode, sent, batches, slots, server, requests, replica, acks, thrown,
  cb_index, can_cb_until, next_cb, acknowledged, shares, gaps

broadcast_vars == <<faulty, next_index, to_sign, messages, signatures,
    echoes, msg_tail, latest_polled, buffered_echoes, verifying, registers,
    outstanding_writes, outstanding_reads, dead, discarded, delivered>>
rpc_vars == <<path, next_request, waiting, next_response, answers, signing,
    to_server, to_client, echo_link, ack_link, outstanding, ingress,
    checking, verified, connected, accepted, log, executed, blames>>
register_vars == <<now, subslots, queued_writes, posted_writes, mem,
    buffer_pool, queued_reads, fetching, completed_reads, alarm, floor, slow>>
pool_vars == <<mpmcs, dest, inserted, last, owner, worker, looped, open,
    dropped, stop>>
containers_vars == <<map, ring, pool, held>>
smr_vars == <<mode, sent, batches, slots, server, requests, replica, acks,
    thrown>>
cb_vars == <<cb_index, can_cb_until, next_cb, acknowledged, shares, gaps>>
vars == <<part, broadcast_vars, rpc_vars, register_vars, pool_vars,
          containers_vars, smr_vars, cb_vars>>

Bc == INSTANCE TailCb WITH
         Receiver <- {r1, r2}, Broadcaster <- caster, Payload <- {v1, v2},
         Garbage <- junk, TailSize <- 1, MaxIndex <- 2, MaxMessages <- 2,
         MaxSignatures <- 1, MaxEchoes <- 1
Rpcs == INSTANCE Rpc WITH
         Server <- {1, 2}, Client <- {1}, Faulty <- {1}, Window <- 2,
         ServerWindow <- 1, Mute <- 3, Paths <- {"fast", "slow", "optimistic"},
         Value <- [fast |-> {1, 2}, slow |-> {1}, optimistic |-> {1}],
         MaxRequest <- [fast |-> 2, slow |-> 2, optimistic |-> 3],
         verifying <- checking
Reg == INSTANCE Swmr WITH
         Register <- {1}, Handle <- {1}, WriteCooldown <- 1, WrDepth <- 1,
         MaxIncarnation <- 3, MaxTime <- 7, registers <- subslots,
         outstanding_reads <- fetching
Pool == INSTANCE LockFreePool WITH
         Queues <- 1, Workers <- 2, TailSize <- 2, MaxTask <- 5
Cont == INSTANCE TailContainers WITH
         TailSize <- 3, MaxKey <- 7, NbBuffers <- 1, BufferSize <- 2,
         Holder <- {1}
Smr == INSTANCE SmrServer WITH
         Replica <- {s1, s2, s3}, Leader <- s1, Window <- 2, Slack <- 0,
         ClientWindow <- 2, MaxBatch <- 2, log <- batches,
         MaxRequest <- [fast |-> 3, optimistic |-> 3, slow |-> 2]
Cb == INSTANCE CbFlow WITH
         Replica <- {1, 2, 3}, Active <- {1}, TailSize <- 4, MaxIndex <- 7,
         next_index <- cb_index

Init ==
  /\ part \in {"broadcast", "rpc", "register", "pool", "containers", "smr",
               "cb"}
  /\ Bc!Init /\ Rpcs!Init /\ Reg!Init /\ Pool!Init /\ Cont!Init /\ Smr!Init
  /\ Cb!Init
  /\ part = "broadcast" \/ faulty = caster
  /\ part = "rpc" \/ path = "fast"
  /\ part = "smr" \/ mode = "fast"

Next ==
  \/ /\ part = "broadcast" /\ Bc!Next
     /\ UNCHANGED <<part, rpc_vars, register_vars, pool_vars,
                    containers_vars, smr_vars, cb_vars>>
  \/ /\ part = "rpc" /\ Rpcs!Next
     /\ UNCHANGED <<part, broadcast_vars, register_vars, pool_vars,
                    containers_vars, smr_vars, cb_vars>>
  \/ /\ part = "register" /\ Reg!Next
     /\ UNCHANGED <<part, broadcast_vars, rpc_vars, pool_vars,
                    containers_vars, smr_vars, cb_vars>>
  \/ /\ part = "pool" /\ Pool!Next
     /\ UNCHANGED <<part, broadcast_vars, rpc_vars, register_vars,
                    containers_vars, smr_vars, cb_vars>>
  \/ /\ part = "containers" /\ Cont!Next
     /\ UNCHANGED <<part, broadcast_vars, rpc_vars, register_vars,
                    pool_vars, smr_vars, cb_vars>>
  \/ /\ part = "smr" /\ Smr!Next
     /\ UNCHANGED <<part, broadcast_vars, rpc_vars, register_vars,
                    pool_vars, containers_vars, cb_vars>>
  \/ /\ part = "cb" /\ Cb!Next
     /\ UNCHANGED <<part, broadcast_vars, rpc_vars, register_vars,
                    pool_vars, containers_vars, smr_vars>>

Spec == Init /\ [][Next]_vars

\* Receivers are interchangeable, and so are payloads.
Symmetry ==
  {f @@ h : f \in Permutations({r1, r2}), h \in Permutations({v1, v2})}

-----------------------------------------------------------------------------
(* tail_cb: correct receivers never poll different values under one index, *)
(* one by echoes and one by registers, though the broadcaster equivocates. *)
BroadcastIsConsistent == Bc!ImplementsBroadcast

(* tail_cb: only faulty processes are blamed, however late the links, the  *)
(* threads and the registers are.                                          *)
AlarmsAreReal == part = "broadcast" => Bc!AlarmsAreReal

(* rpc::Server: what a server may still send to another is counted         *)
(* exactly over batches of acknowledgements, so no link overwrites.        *)
CreditsBalance == part = "rpc" => Rpcs!CreditsBalance

(* rpc::Server: a client's requests are accepted and proposed in order and *)
(* once, and on the fast path only if every server accepted the same one.  *)
ProposalsAreSound ==
  part = "rpc" => Rpcs!ProposedIsAcceptedByAll /\ Rpcs!OrderedOnce

(* rpc::Client: it polls, in order, results that a majority computed.      *)
AnswersAreResults == part = "rpc" => Rpcs!AnswersAreResults

(* swmr: a correct writer is never taken for Byzantine, and a read within  *)
(* the cooldown does not miss a completed write.                           *)
RegisterIsSafe ==
  part = "register" => Reg!NoFalseAlarm /\ Reg!QuickReadsAreFresh

(* LockFreeTailThreadPool: only old tasks are dropped, and no worker runs  *)
(* a task of a queue that was destroyed.  VectorTailMap, Pool: find agrees *)
(* with the iterators, pooled buffers are whole again and none is lost.    *)
StructuresAreSafe ==
  /\ part = "pool" => Pool!NoTaskAfterDestroy /\ Pool!NewestAreKept
  /\ part = "containers" => Cont!FindAgrees /\ Cont!PooledBuffersAreWhole

(* VectorTailMap, VectorTailQueue: over any sequence of calls they keep    *)
(* exactly the tail, in order.                                             *)
ContainersAreTails == Cont!ImplementsStore

(* Server: every replica executes the requests in the order in which the   *)
(* leader polled them, none skipped or repeated.                           *)
ExecutesTheLog == part = "smr" => Smr!ExecutesTheLog

(* RequestLog: a request is forgotten only after it was answered.          *)
DropsOnlyAnswered == Smr!DropsOnlyAnswered

(* Consensus: a broadcaster never outruns a majority.                      *)
OutrunIsMinority == part = "cb" => Cb!OutrunIsMinority
===============================================================================
