------------------------------- MODULE MCProgress -----------------------------
(***************************************************************************)
(* The parts of the system whose loops have to get somewhere, each an      *)
(* instance of its own with variables of its own: part says which of them  *)
(* runs in a behaviour, the others stay as they started.                   *)
(***************************************************************************)
EXTENDS Naturals, Sequences, TLC

CONSTANTS w1, w2, h1, h2, h3, r1, r2, noop

VARIABLES
  part,
  snd, wire, mem, rcv, sent, got,                               \* p2p
  tasks, last, running, worker, frozen, stop, clearing,         \* pool
  available_memory, conns, inactive, lists, select, in_use, switched, rpc,
  session, crashed,                                             \* connections
  incarnation, outstanding_write, finished, written, host, job, next_handle,
  result,                                                       \* register
  mode, requested, log, slots, server, requests, replica, acks, thrown,  \* smr
  next_index, can_cb_until, next_cb, acknowledged, shares, gaps,  \* cb
  step, arrived, store, barriers, connected, failed,            \* setup
  cb, states, instance_states, fast_committed, committed, prepare_certifier,
  emitted, verifying, buffered_commits, fast_commits, polled_fast, proposer,
  decided, request_log, checkpoints, vc, err                    \* consensus

p2p_vars == <<snd, wire, mem, rcv, sent, got>>
pool_vars == <<tasks, last, running, worker, frozen, stop, clearing>>
conn_vars == <<available_memory, conns, inactive, lists, select, in_use,
               switched, rpc, session, crashed>>
register_vars == <<incarnation, outstanding_write, finished, written, host,
                   job, next_handle, result>>
smr_vars == <<mode, requested, log, slots, server, requests, replica, acks,
              thrown>>
cb_vars == <<next_index, can_cb_until, next_cb, acknowledged, shares, gaps>>
setup_vars == <<step, arrived, store, barriers, connected, failed>>
engine_vars == <<cb, states, instance_states, fast_committed, committed,
                 prepare_certifier, emitted, verifying, buffered_commits,
                 fast_commits, polled_fast, proposer, decided, request_log,
                 checkpoints, vc, err>>
vars == <<part, p2p_vars, pool_vars, conn_vars, register_vars, smr_vars,
          cb_vars, setup_vars, engine_vars>>

P2p == INSTANCE TailP2p WITH TailSize <- 2, WrDepth <- 2, MaxMsg <- 5,
                             MaxBatch <- 2
Pool == INSTANCE ThreadPool WITH Queue <- {1, 2}, Worker <- {w1, w2},
                                 TailSize <- 1, MaxTask <- 4
Conn == INSTANCE Connections WITH Proc <- {1, 2, 3}, Regions <- 2
Reg == INSTANCE ReplicatedSwmr WITH Host <- {h1, h2, h3}, MaxIncarnation <- 2,
                                    MaxJob <- 1, Buffers <- 1
Smr == INSTANCE SmrServer WITH Replica <- {r1, r2}, Leader <- r1, Window <- 2,
         Slack <- 0, ClientWindow <- 2, MaxBatch <- 1, sent <- requested,
         MaxRequest <- [fast |-> 4, optimistic |-> 4, slow |-> 4]
Cb == INSTANCE CbFlow WITH Replica <- {1, 2}, Active <- {1, 2}, TailSize <- 2,
                           MaxIndex <- 4
Boot == INSTANCE Setup WITH Replica <- {1, 2, 3}, thrown <- failed
Engine == INSTANCE Consensus WITH N <- 3, Value <- {0, 1, 2}, NoOp <- noop,
            Window <- 2, Slack <- 1, InstSpace <- 100, InitRequests <- {0, 1},
            FastPath <- TRUE, SlowPath <- TRUE, LazyVerify <- TRUE,
            Timeouts <- {}, MaxView <- 0, MaxInst <- 3, sent <- emitted,
            log <- decided

\* The replicas of the consensus that keep running, the other crashed.
Live == {0, 1}

Init ==
  /\ part \in {"p2p", "pool", "connections", "register", "smr", "cb", "setup",
              "consensus"}
  /\ P2p!Init /\ Pool!Init /\ Conn!Init /\ Reg!Init /\ Smr!Init /\ Cb!Init
  /\ Boot!Init /\ Engine!Init
  /\ part = "smr" \/ mode = "fast"

Next ==
  \/ /\ part = "p2p" /\ P2p!Next
     /\ UNCHANGED <<part, pool_vars, conn_vars, register_vars, smr_vars,
                    cb_vars, setup_vars, engine_vars>>
  \/ /\ part = "pool" /\ Pool!Next
     /\ UNCHANGED <<part, p2p_vars, conn_vars, register_vars, smr_vars,
                    cb_vars, setup_vars, engine_vars>>
  \/ /\ part = "connections" /\ Conn!Next
     /\ UNCHANGED <<part, p2p_vars, pool_vars, register_vars, smr_vars,
                    cb_vars, setup_vars, engine_vars>>
  \/ /\ part = "register" /\ Reg!Next
     /\ UNCHANGED <<part, p2p_vars, pool_vars, conn_vars, smr_vars,
                    cb_vars, setup_vars, engine_vars>>
  \/ /\ part = "smr" /\ Smr!Next
     /\ UNCHANGED <<part, p2p_vars, pool_vars, conn_vars, register_vars,
                    cb_vars, setup_vars, engine_vars>>
  \/ /\ part = "cb" /\ Cb!Next
     /\ UNCHANGED <<part, p2p_vars, pool_vars, conn_vars, register_vars,
                    smr_vars, setup_vars, engine_vars>>
  \/ /\ part = "setup" /\ Boot!Next
     /\ UNCHANGED <<part, p2p_vars, pool_vars, conn_vars, register_vars,
                    smr_vars, cb_vars, engine_vars>>
  \/ /\ part = "consensus" /\ \E r \in Live : Engine!Step(r)
     /\ UNCHANGED <<part, p2p_vars, pool_vars, conn_vars, register_vars,
                    smr_vars, cb_vars, setup_vars>>

(* The owner of a sender calls send after getSlot, ticks it and polls the  *)
(* receiver in its event loop; the network card goes on.                   *)
P2pFairness ==
  /\ WF_p2p_vars(part = "p2p" /\ P2p!Send)
  /\ WF_p2p_vars(part = "p2p" /\ P2p!Tick)
  /\ WF_p2p_vars(part = "p2p" /\ P2p!Wire)
  /\ WF_p2p_vars(part = "p2p" /\ P2p!Receive)

\* A woken thread runs, a task ends, a thread that spins goes on.
PoolFairness ==
  /\ \A w \in {w1, w2} : /\ WF_pool_vars(part = "pool" /\ Pool!Wake(w))
                          /\ WF_pool_vars(part = "pool" /\ Pool!Finish(w))
  /\ \A q \in {1, 2} : WF_pool_vars(part = "pool" /\ Pool!Cleared(q))

\* The RPC thread and the main thread loop for ever.
ConnFairness ==
  /\ WF_conn_vars(part = "connections" /\ Conn!RpcThread)
  /\ WF_conn_vars(part = "connections" /\ Conn!CheckPending)

\* Every server ticks and executes what it decided, for ever.
SmrFairness ==
  \A r \in {r1, r2} : /\ WF_smr_vars(part = "smr" /\ Smr!Tick(r, 1))
                      /\ WF_smr_vars(part = "smr" /\ Smr!Execute(r))

\* Everyone keeps polling, also while it waits for slack itself.
CbFairness ==
  \A b \in {1, 2} :
    /\ WF_cb_vars(part = "cb" /\ Cb!Broadcast(b))
    /\ WF_cb_vars(part = "cb" /\ Cb!PollCertificate(b))
    /\ \A r \in {1, 2} : /\ WF_cb_vars(part = "cb" /\ Cb!PollCb(r, b))
                         /\ WF_cb_vars(part = "cb" /\ Cb!SendShare(r, b))

(* The main loop of a replica calls tick and pollDecision for ever, so a   *)
(* step that stays possible is not put off for ever.                       *)
EngineFairness ==
  \A r \in Live : WF_engine_vars(part = "consensus" /\ Engine!Step(r))

(* Each liveness property names the fairness of the threads it is about;   *)
(* LinkIsTail is a specification, so that of the links is part of Spec.    *)
Spec == Init /\ [][Next]_vars /\ P2pFairness

-----------------------------------------------------------------------------
(* AsyncSender and Receiver: an application's messages are polled in       *)
(* order, one is skipped only if TailSize newer ones were sent, and the    *)
(* last ones sent always arrive.                                           *)
LinkIsTail == P2p!Link!Spec

(* LockingThreadPool: a task that waits is executed, dropped or cleared,   *)
(* unless the pool is frozen again and again; no wake-up is lost.          *)
NoLostWakeup == PoolFairness => Pool!NoLostWakeup

(* LockingThreadPool: no more tasks of a queue are outstanding than its    *)
(* owner has buffers for, and none runs once clear returned.               *)
TasksAreContained == Pool!OutstandingBounded /\ Pool!NoTaskAfterClear

(* rpc::Server: over connections that come, fail and go, no region of      *)
(* memory is polled for two clients, lent while still polled, or lost.     *)
MemoryIsExclusive == Conn!MemoryIsExclusive

(* rpc::Server: the RPC thread does not wait for the main thread for ever, *)
(* though each waits for what the other writes.                            *)
AlterEnds == ConnFairness => Conn!AlterEnds

(* replicated_swmr: a read that starts after a write completed does not    *)
(* miss it, whichever hosts are slow and whichever writes a host skipped.  *)
RegisterIsRegular == Reg!ImplementsRegular

(* Server: a proposal that waits for a checkpoint is proposed in the end.  *)
Reproposed == SmrFairness => Smr!Reproposed

(* Consensus: waitForCbSlack ends, though everyone may wait in it at once, *)
(* unless someone was outrun and cannot certify any more.                  *)
SlackComes == CbFairness => (part = "cb" => Cb!SlackComes)

(* Builders: the replicas, each at its own pace, never meet a missing or a *)
(* repeated key, and none runs before all queue pairs are wired, each to   *)
(* the one that faces it and with the rights of its side.                  *)
SetupIsSound == Boot!NobodyThrows /\ Boot!WiredBeforeRun

(* Consensus: a commit is counted only after a thread verified it, though  *)
(* threads finish in any order.                                            *)
CountedCommitsVerified == Engine!CountedCommitsVerified

(* Consensus: every request the leader proposes is decided by all running  *)
(* replicas, though the other crashed and can give the fast path neither   *)
(* promises nor fast commits.                                              *)
ProposedIsDecided ==
  EngineFairness =>
    []<>(\A p \in Engine!Prepares(0) : \A r \in Live : Len(decided[r]) > p.inst)
===============================================================================
