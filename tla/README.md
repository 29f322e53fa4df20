# uBFT in TLA+

A verification development for uBFT (`ubft/`), a Byzantine fault tolerant state
machine replication library that reaches microsecond latency with RDMA and
disaggregated memory. Source paths below are relative to the repository.

## 1. The system

| Component | Code | State | Operations | Talks to |
|---|---|---|---|---|
| Server | `ubft/src/server.hpp` | batch to propose, execution cursor, awaited checkpoint | `tick`, `pollToExecute`, `executed`, `checkpointAppState` | RPC server, consensus |
| Request log | `ubft/src/consensus/internal/requests.hpp` | a window of accepted requests per client | `addRequest`, `isValid`, `decided` | consensus |
| RPC | `ubft/src/rpc/` | requests per client with echoes and signatures, credits per server, responses | client `post`, `poll`; server `tick`, `pollReceived`, `pollProposable`, `executed` | tail links, thread pool, server |
| Connections | `ubft/src/rpc/internal/connection.hpp`, `rpc/src/conn/` | memory regions, connections, two lists shared by two threads | handshake steps, `remove`, `markInactive`, `collectInactive`, `connections` | RPC server |
| Consensus | `ubft/src/consensus/` | per-replica states, instance states, proposer, checkpoints, view change | `getSlot`, `propose`, `pollDecision`, `triggerCheckpoint`, `changeView`, `tick` | certifiers, tail-cb, fast commit links, thread pool |
| Certifier | `ubft/src/certifier/` | tail of messages with promises and shares | `acknowledge`, `pollPromise`, `pollCertificate`, `check`, `forgetMessages` | tail links, thread pool |
| Consistent broadcast (tail-cb) | `ubft/src/tail-cb/` | tail of broadcasts, echoes, signatures | `broadcast`, `poll`, `tick` | tail links, SWMR registers, thread pool |
| Replicated SWMR registers | `ubft/src/replicated-swmr/` | outstanding writes/reads per host | `write`, `read`, `poll` | SWMR registers |
| SWMR registers | `ubft/src/swmr/` | two subslots per register, incarnation, hash | `write`, `completed`, `read`, `poll` | RDMA |
| Tail links | `ubft/src/tail-p2p/` | circular buffer, incarnations, outstanding writes | `send`, `poll`, `tick` | RDMA |
| Tail map, tail queue | `ubft/src/tail-map/`, `ubft/src/tail-queue/` | the last `tail` elements | `tryEmplace`, `find`, `popFront`, `emplaceBack` | used by all |
| Thread pool | `ubft/src/thread-pool/` | task queues, a bounded queue per user | `enqueue`, `freeze`, `unfreeze`, `clear` | used by certifier, tail-cb, consensus, RPC |
| Buffers and pools | `ubft/src/buffer.hpp` | free buffers | `take`, `resize`, `trimLeft`, destructor | used by all |
| Builders, crypto, RDMA libraries | `*-builder.hpp`, `crypto/`, `conn/`, `ctrl/`, `memstore/` | set-up | announce, connect, sign | used by all |

**Consensus** is the core. Time is divided into views; replica `view % N` leads.
The leader broadcasts a *prepare* per instance over tail-cb. A replica that
knows the requests of a prepare acknowledges it in its prepare certifier, which
emits a promise (fast path) and a signature share (slow path). When everyone
promised, the replica sends a *fast commit* over point-to-point links, and an
instance everyone fast committed is decided. When a quorum signed, the replica
broadcasts a *commit* holding the certificate, and an instance with a quorum of
verified commits is decided. Instances live in a window that certified
checkpoints move. `changeView` broadcasts a *SealView* once everything fast
committed is committed; everyone certifies what a sealing replica had
committed, and the next leader proves with a quorum of such certificates, in a
*NewView*, which values it has to propose again.

What is hard in this code:

- *Two commit paths.* A fast commit leaves no certificate; only the wait in
  `changeView` makes it survive a view change.
- *Asynchrony inside one replica.* Signatures are computed and verified by a
  pool whose threads finish in any order, while the main thread goes on.
- *Bounded memory everywhere.* Tail maps drop old elements when new ones come,
  windows open by checkpoints only. Pools are sized for this, and nothing would
  say so if they were not: `Pool::take` allocates when it is empty
  (`AllowDelayedBufferAlloc`), so the exceptions behind it are never thrown.
- *Order.* FIFO broadcast per sender, but no order across senders, nor between
  broadcasts, fast commits, shares and requests.
- *Shared memory without locks.* A link or a register is memory that a remote
  network card writes word by word while it is read; lists of connections and
  the lock-free pool are shared by threads through flags and counters.
- *Failures.* Replicas stop at any point, messages are delayed for ever. A
  correct replica that looks Byzantine ends its peers (an exception).

What makes each component correct: *consensus* — agreement, the survival of
chosen values, no false accusation, progress with a minority silent;
*certifier* — a certificate means a quorum of shares for that very message, a
promise polled means everyone promised, no share of a tail message is lost;
*tail-cb* — no two receivers deliver different messages at an index, FIFO;
*registers* — regularity despite torn reads, a completed write is read by every
later read; *tail links* — messages in order, without duplicates, the last
`tail` of them always delivered; *tail map and queue* — the last elements, in
order; *thread pool* — every task runs once; *RPC and server* — every replica
executes a request once, in the decided order, and replies.

`PROJECT.json` lists the hazards line by line, with the property that covers
each or the reason why none does.

## 2. Modules

| Module | Role |
|---|---|
| `Consensus` | class `Consensus` with the records it keeps: one action per handler or poll |
| `ReplicatedLog` | what consensus promises the server: one log |
| `MCConsensus` | TLC instance: refinement, the bounds of the runs with a view change |
| `ConsensusProofs` | type correctness; fast commits survive in sealed states |
| `DecisionProofs` | one proposal per view, sealed states agree, chosen values survive view changes; agreement, checkpoints, usable fast commits, refinement of `ReplicatedLog` |
| `Certifier` | class `Certifier` of every replica, with its links and worker threads |
| `MCCertifier` | TLC instance: three scenarios of the certifier |
| `CertifierProofs` | promises and certificates are sound; bounds, buffers, nothing lost, no false alarm |
| `TailP2p` | sender (two layers), network card and receiver of a tail link |
| `TailLink` | what a link promises: increasing, skips only what a tail of others follows, the last ones arrive |
| `Swmr` | writer and reader of a register in two subslots, with torn accesses and clocks |
| `ReplicatedSwmr` | a register replicated on several hosts |
| `RegularRegister` | what it promises: a regular register |
| `ReplicatedSwmrProofs` | it keeps the promise; a register of `Swmr` is safe |
| `TailCb` | broadcaster and receivers of the consistent broadcast, one of them faulty |
| `ConsistentBroadcast` | what it promises: one value per index, in order |
| `TailCbProofs` | it keeps the promise; nobody is accused without cause |
| `CbFlow` | CB checkpoints and `waitForCbSlack` of consensus |
| `SmrServer` | the replicas of the service: server, request log, proposing window |
| `SmrServerProofs` | requests are executed in order, and dropped only once answered; `CbFlow` leaves no majority behind |
| `Rpc` | client, server and request ingress |
| `RpcProofs` | exact credits, order, echoed proposals, answers |
| `Connections` | clients that connect and leave while a server runs |
| `ThreadPool`, `LockFreePool` | the two thread pools |
| `TailContainers` | tail map, tail queue, buffers and pool |
| `TailStore` | what map and queue promise: an ordered tail |
| `Setup` | builders, key exchange and barriers of a deployment |
| `MCProgress` | TLC instance of the parts with liveness |
| `MCService` | TLC instance of the parts checked for safety |
| `ServiceProofs` | properties of `MCService` that follow from the theorems about its parts |

How they fit: `Consensus` relies on `ConsistentBroadcast` (its `cb` log), on
`Certifier` and on `TailLink`; `Certifier` and `TailCb` rely on `TailLink`, and
`TailCb` on `RegularRegister`. Each of these abstract promises is what the
module one layer below is shown to implement: `TailP2p` implements `TailLink`,
`ReplicatedSwmr` implements `RegularRegister`, `TailCb` implements
`ConsistentBroadcast`, `TailContainers` implements `TailStore`, `Consensus`
implements `ReplicatedLog`.

### Consensus and the code

State is per replica. `states[r][s]` is `replica_states` (what `r` deduced of
`s`); `instance_states`, `fast_committed`, `committed` together are the tail map
`instance_states`; `prepare_certifier`, `sent` are the certifiers as consensus
uses them; `verifying` holds the tasks in the verification pool;
`buffered_commits`, `proposer`, `log`, `checkpoints`, `vc` carry the fields of
the same or a similar name. `cb[s]` is the sequence of messages `s` broadcast:
tail-cb is FIFO and consistent, so a receiver's view of it is a position
(`next_cb`). `fast_commits[s]` and `polled_fast` are the point-to-point links.

| Actions | Code (`consensus.hpp`) |
|---|---|
| `GetSlot`, `Propose`, `AcceptRequest` | `getSlot`, one iteration of `propose`, `acceptRequest` |
| `PollPrepare`, `PollCommit`, `PollCheckpoint`, `PollSealView`, `PollNewView` | `pollCbs` → `handleCbMessage` → the handler of each kind |
| `CertifyPrepare` | `tryCertifyPrepares` |
| `PollPromise`, `PollFastCommit` | `pollPrepareCertificatePromises`, `pollFastCommits` |
| `PollPrepareCertificate`, `PollVerifiedCommit` | `pollPrepareCertificates`, `pollVerifiedCommits` |
| `Decide` | `pollDecision`, with the `triggerCheckpoint` the server calls |
| `PollCheckpointCertificate`, `BroadcastCheckpoint` | `pollCheckpointCertificate`, `broadcastCheckpointCertificate` |
| `ChangeView`, `PollVcStateCertificate`, `StartView` | `changeView`, `pollVcStateCertificates`, `handleNewView` of one's own message |

Conventions:

- *Spinning handlers.* `changeView`, `handleSealView` and `handleNewView` spin
  until a condition holds. The action's guard is that condition; while the
  replica spins it may take only the steps the loop body takes (`Running` and
  `Free` separate the two).
- *Exceptions* end a replica: `err[r]` names the one it threw, and every action
  needs `err[r] = "ok"`.
- *Delay and crash* need no action: no step is ever forced, so a replica that
  takes none has crashed.
- *Atomicity.* An action is one handler, with everything it calls. Between two
  iterations of `propose` the model lets any step happen where the code only
  polls broadcasts: more interleavings than the code, never fewer.
- *Values.* A batch is a number in the order the server offers them, or `NoOp`,
  the empty batch. The hash of the application state is the sequence of decided
  batches. Signatures are facts in `sent` that nobody can forge.
- All modelled replicas run this code: Byzantine replicas are out of scope of
  this module. The guards that detect them are modelled, because they may fire
  on correct replicas.

Constants: `InstSpace` is the number of instances that `pack` leaves below a
view (2^48), `Slack` the literal 10 of `broadcastCheckpointCertificate`. Bounds:
`MaxView`, `MaxInst`, `Value`, `Timeouts` (whose application calls
`changeView`), `LazyVerify` (whether verification threads may lag).

### Certifier and the code

Variables have the names of the members; `share_tasks`, `computing`,
`check_tasks` and `checking` are what the lambdas given to the thread pool hold
while they wait, run, or wait in `verified_shares` and `my_shares`.
`acknowledged`, `promise_polls` and `certificates` record what was called and
returned, for the properties.

| Actions | Code (`certifier.hpp`) |
|---|---|
| `Acknowledge` | `acknowledge`, with the `receivedImplicitPromise` that consensus calls next |
| `ForgetMessages`, `ToggleSlowPath` | `forgetMessages`, `toggleSlowPath` |
| `PollPromises`, `PollShares` | `pollPromises`, `pollShares`, for one source |
| `OffloadShareComputation`, `PollComputedShares`, `PollVerifiedShare` | the other polls of `tick` |
| `StartComputation`, `FinishComputation`, `StartCheck` | the worker loop of `thread-pool/locking.hpp` and the tasks |
| `PollPromise`, `PollCertificate` | `pollPromise`, `pollCertificate` |

- *`tick`* is split into its polls. Between them the model lets other steps
  happen, where the code runs them in a row: more interleavings, never fewer.
- *Queues of increasing indices* are sets whose front is the least index.
  `computed_shares` is filled in the order the threads finish and stays a
  sequence.
- *Links* (`Readable`): a receiver gets increasing indices and skips one only
  when `TailSize` later ones were sent, which is what `tail-p2p/receiver.hpp`
  provides.
- *Callers* (`Acknowledgeable`): consensus acknowledges increasing indices, with
  holes where it skipped some. A follower counts the leader's implicit promise
  when it acknowledges, whether or not the leader has acknowledged: the leader
  broadcasts first and acknowledges once it has the requests. A replica in
  `Dissenters` may acknowledge another message, as with differing checkpoints.
- *Signatures* are unforgeable: a share is the index and message that were
  signed, and `crypto.verify` compares it with the verifier's message.
- The pool of message buffers is a count (`TakenBuffers`, against the `PoolSize`
  it starts with), as `take` never fails; the one of share buffers and `toggleFastPath`, called once before the first message,
  are not.

### Links and registers

`TailP2p`: `AsyncSender::getSlot`/`send` with its tail buffer, which grows as
long as the link is behind (the branch that recycles the oldest buffer needs a
pool that refuses, and none does), `SyncSender` with
its ring of slots and outstanding RDMA writes, and `tick`, which releases any
number of completed writes. `Wire` is the network card: it writes incarnation,
hash and data of a slot one at a time, in order. `Receiver::poll` is split at
every memory access it makes (`ReadIncarnation`, `ReadHash`, `ReadData`,
`Check`), so that a write may come between any two. A hash is the message it was
computed from, so a torn copy never has a matching one.

`Swmr`: `Writer::write`, `tick` with the cooldown per register, and the reader's
queue, outstanding reads and retries. Memory accesses are split into their two
halves (`Damaged` is what a torn access leaves), time is a counter that may
advance between any two steps. Safety is twofold: a correct writer is never
reported as Byzantine, and a read that is quicker than the cooldown does not
miss a completed write.

`ReplicatedSwmr`: the managed writers coalesce writes while a host is slow; the
managed readers queue reads, and release those that come too late. A host may
stop answering at any time. A majority is `(n + 1) / 2` as in the code, which is
one for odd `n`.

### Consistent broadcast

`TailCb` has one broadcaster and its receivers with message, signature and echo
links, signature threads, the registers and the outstanding writes and reads. At
most one process is faulty, any of them: a faulty broadcaster puts any message
and signature on its links, a faulty receiver any echo, and in its registers
anything it can have: what nobody signed, or the broadcaster's signature of
another index (`Replayed`), which a reader verifies over the hash beside it and
takes for an equivocation. `CbFlow` is the flow control above it: a checkpoint every
half tail, certified by a majority, lets a broadcaster go on.

### The service

`SmrServer`: one client with its window, every replica's request log, the
leader's batching (`pollProposable`) and reproposing, the window with its
checkpoints and slack, execution. Consensus is a log in which proposals are
decided in order. `Rpc` has the three path configurations as they are set up
before the servers run: fast (followers echo to the leader), slow (clients sign,
threads verify, the leader forwards), and optimistic. Backpressure between
servers is the credit protocol of `outstanding` and acknowledgements. The server
with id 3 never responds, as in the code. `Connections` has the RPC thread, step
by step, and the main thread's `checkPending`.

### Threads, containers, set-up

`ThreadPool` takes one action per critical section; a notification moves waiting
workers to awake. `LockFreePool` takes one action per atomic operation of
`enqueue`, the workers' scan, `clear` and `waitOneIteration`. `TailContainers`
keeps the vector's slots and links as the code does, and is compared with
sequences. No user emplaces a map's last key again while it is in the map
(`Emplaceable`): its entry would become its own successor. Nothing calls
`VectorTailQueue::back`, which is left out. `Setup` runs the programme of every replica: announce keys, wait,
connect, wait, for RPC and consensus, with the names and access rights of every
endpoint that the builders make.

## 3. Runs

| Run | Instance | Result |
|---|---|---|
| `consensus_view_change` | 3 replicas, both paths, requests known late, 2 may time out, views 0 and 1 | what was committed or fast committed in view 0 is re-proposed in view 1; sealed states agree |
| `consensus_window` | 2 replicas, 4 instances, window 2, slow path with lagging verifications, views 0 and 1 | the window moves over several checkpoints and the view changes, the new leader proposing recovered and new batches: nobody throws in the first view, kept commits fit the window, one proposal per instance and view, refinement of `ReplicatedLog` |
| `consensus_fast` | 3 replicas, 2 instances, window 2, fast path | no needed fast commit is dropped, checkpoints are prefixes of the logs, refinement of `ReplicatedLog` |
| `certifier` | 3 replicas, tail 1, 2 threads, three scenarios | certificates and promises mean what they say, nobody is accused without cause, what arrives early is kept, queues stay within the tail and the buffer pool never grows |
| `progress` | eight parts, one per behaviour: p2p, pool, connections, register, smr, cb, setup, consensus | refinement of `TailLink` (with its liveness) and `RegularRegister`, no lost wake-up, no task after `clear`, no shared or lost memory region, hand-over between threads ends, waiting proposals are proposed, CB slack comes, no replica runs half wired, every proposal is decided and only verified commits count |
| `service` | seven parts: broadcast, rpc, register, pool, containers, smr, cb | refinement of `ConsistentBroadcast` and `TailStore`, no false alarms, exact credits, proposals and answers are sound, registers are safe, structures are safe, requests are executed in order and dropped only after they were answered, no majority is outrun |
| `tail_cb_signature` | 2 receivers, tail 2, 1 payload | **violated** |
| `tail_cb_replay` | 2 receivers of which 1 is faulty, tail 1, 2 indices, 1 payload | **violated** |
| `certifier_lost_share` | 1 replica, tail 2, 2 threads, 3 messages | **violated** |
| `consensus_agreement` | 3 replicas, slow path, views 0 and 1 | **violated**: see below |
| `consensus_outstanding` | 3 replicas, lagging verifications | **violated** |
| `consensus_late_request` | 3 replicas that learn requests in any order | **violated** |

Bounds. One value and one view change suffice for the conflicts a view change
can cause: it takes one instance, an old proposal and the leader's empty batch.
`consensus_view_change` therefore stops at the first proposal of view 1
(`UntilNewProposal`), after which its properties about what view 1 proposes are
settled; decisions and received fast commits do not influence that proposal and
are left out of this run only. A window of 2 is the smallest the code supports
(checkpoints every `Window / 2` decisions), and instances up to twice the window
make every replica prune, forget and reuse. Two replicas are enough for the
window run because its subject, one replica's window against another's
checkpoint, is pairwise. That run goes on after its view change: `FewPerView`
only bounds the slots the two leaders take, one in view 0 if the view changes
and a window and one in view 1, so that new batches are numbered after a
recovered one over several instances and the window moves in view 1 as well.
Its verification threads lag. With two replicas a quorum is everyone, so that
the disagreement below cannot happen. In `consensus_view_change` replicas learn
the request of the first prepare at any time, so that some certify it late.

`certifier` chooses one of three scenarios in its initial state, because all of
them at once are out of reach: *Promising*, all three replicas on the fast path,
two of which forget; *Signing*, two replicas on the slow path of which one
forgets and the other may dissent; *Computing*, one replica whose slow path goes
on and off over 7 messages in a row. Tail 1 makes every
second message push one out of each queue. The pool starts
with `3 * TailSize + Workers + 1 = 6` buffers, so 7 messages are enough to make
it grow if any stage kept one too long. Two messages per replica are enough for buffers
that hold one: the second replaces the first.

`progress` and `service` each hold several components side by side. The variable
`part`, chosen in the initial state, says which one runs in a behaviour; the
others stay at their initial states, so the state space is the sum of theirs and
not the product, and every property is about one part.

| Part | Bounds |
|---|---|
| p2p | tail 2, 2 outstanding writes, 5 messages, batches of 2: the ring of slots wraps twice and the receiver is lapped |
| pool (`progress`) | 2 queues of 1 task, 2 workers, 4 tasks |
| connections | 3 clients, 2 regions: one client is refused until another leaves |
| register (`progress`) | 3 hosts, 2 writes, 1 read; reads do not queue for a buffer here |
| smr (`progress`) | 2 replicas, window 2, 4 requests in batches of 1: several checkpoints |
| cb (`progress`) | 2 replicas that both broadcast 4 messages with tail 2 |
| setup | 3 replicas |
| consensus | 3 replicas of which 1 crashed, both paths, window 2, lagging verifications |
| broadcast | 2 receivers, 2 payloads, 2 indices with tail 1: the second index reuses the register |
| rpc | 2 servers, 1 faulty client, window 2, server window 1, 2 requests (3 when optimistic) |
| register (`service`) | 3 writes over both subslots, 7 ticks of the clock, cooldown 1 |
| pool (`service`) | 1 queue of 2, 2 workers, 5 tasks: the two inner queues are swapped twice |
| containers | tail 3, keys 0..7, 1 pooled buffer of size 2 |
| smr (`service`) | 3 replicas, window 2, batches of 2, 3 requests (2 on the slow path) |
| cb (`service`) | 3 replicas, 1 broadcaster, tail 4, 7 messages: three checkpoints |

`service` uses symmetry in receivers and payloads, which `TailCb` treats alike;
it has no liveness property.

The senders of `TailP2p` buffer what the ring does not take, which `MaxMsg`
bounds.

Deadlock checking is off: the runs end when the bounded requests are decided,
and a replica that threw never moves again.

Fairness. Every liveness property of `progress` names the fairness it needs
(`EngineFairness => ...`), that of the threads it is about; only that of the
links is part of the specification, as `LinkIsTail` is one itself.
`ProposedIsDecided` assumes weak fairness of the steps of each
running replica (`EngineFairness`): `tick` and `pollDecision` are called for ever from the main
loop of the server, so a replica that can take a step takes one. No fairness is
assumed of a crashed replica, nor of a particular action, nor of view changes
(nothing in the server triggers them). Of the other parts it assumes only what
their loops do for ever: a sender's owner sends what it has a slot for, ticks it,
and the receiver's owner polls, while the network card goes on; a woken thread
runs and its task ends; the RPC thread and the main thread loop; servers tick
and execute; replicas poll in and outside of `waitForCbSlack`; a replica that
can take the next step of its set-up takes it. No fairness is assumed of
applications: nobody has to send, write, enqueue, freeze or connect. Slack comes
unless a replica was outrun, since an outrun replica no longer certifies.

### What the violated runs show

- `Agreement`: `handleVerifiedCommit` finds the instance of a commit and does
  not compare views. Replica 0 leads view 0 and holds a prepare that no quorum
  committed. Replicas 1 and 2 time out, seal view 0, and commit and decide
  another batch for the instance in view 1. Replica 0 has not left view 0: it
  counts their commits of view 1 for the prepare of view 0 it holds, and decides
  that. (A late commit of view 0 is also counted for the prepare of view 1, but
  cannot split two replicas alone: what a quorum committed in view 0 is what
  view 1 proposes.)
- `OutstandingIsExact`: a verified commit that waits for its prepare is
  subtracted from `outstanding_commit_verifications` twice, when it is verified
  and when the prepare replays it. The unsigned counter wraps.
- `EventuallyValidAccepted`: the certifier refuses an index below the last one
  it acknowledged, by an exception, so a prepare whose requests come late ends
  the replica, although the code comments say that validity may come late.
- `EquivocationIsReal`: a register holds a hash and the broadcaster's signature
  of it, and a register that differs from the signature received is verified
  over the hash beside it. A faulty receiver that leaves hash and signature of
  an older index in its register passes, and the reader ends itself, accusing
  the correct broadcaster of an equivocation, which a valid signature "implies"
  by the comment.
- `DiscardedAreUseless`: a receiver of tail-cb polls messages and signatures
  from two links, one of each per `tick`. A signature whose message is not in
  the tail is discarded as that of an old message, but it may be that of the
  next one. It is not sent again, so on the slow path this receiver never
  delivers the message.
- `NoShareLost`: `acknowledge` drops the front of `computed_shares` when the
  queue is full, "to release buffers" of "useless" shares. When two workers
  overtake each other the front is the newer share, whose message is still
  served. Its place in `sorted_computed_shares` then stays empty and holds back
  the shares after it until the message leaves the tail.

`NeverThrows` is claimed only while nobody left the first view, where it holds:
a prepare of view 0 that comes after a whole view change ends a replica. For the
same reason `Agreement` is proved for behaviours without a view change only, and
false with one.

## 4. Proofs

All theorems hold for every value of the constants under `ConstantsAssumption`
(`Consensus`) or `CertifierAssumption` (`Certifier`), those of the other
components under the `Assumption` they state, which asks no more than a valid
configuration: finite sets of processes, windows and tails of at least one, an
odd number of hosts. Those of `ServiceProofs` are about the instance that
`MCService` composes.

| Module | Theorems |
|---|---|
| `ConsensusProofs` | `TypeCorrect`, `FastCommitsAreSealed` |
| `DecisionProofs` | `OneProposalPerView`, `SealedStatesAlwaysAgree`, `CommitsAlwaysFit`, `ChosenValuesSurvive`, `FastCommitsAreUsable`, `AgreementWithoutViewChange`, `CheckpointsWithoutViewChange`, `FirstViewImplementsLog` |
| `CertifierProofs` | `CertificatesAreSound`, `PromisesAreSound`, `TypeCorrect`, `AccusationsAreReal`, `BuffersAreEnough`, `PromisesAreKept`, `SharesAreKept` |
| `ReplicatedSwmrProofs` | `ReplicationIsRegular`, `RegisterSafe` |
| `TailCbProofs` | `BroadcastIsConsistent`, `AccusationsAreReal` |
| `SmrServerProofs` | `LogIsExecuted`, `OnlyAnsweredAreDropped`, `MajorityIsNeverOutrun` |
| `RpcProofs` | `CreditsAreExact`, `RequestsAreOrdered`, `FastProposalsAreAccepted`, `ResultsAreAnswered` |
| `ServiceProofs` | `BroadcastIsAlwaysConsistent`, `AlarmsAreAlwaysReal`, `MajorityIsServed`, `LogIsAlwaysExecuted`, `OnlyAnsweredAreEverDropped`, `CreditsAlwaysBalance`, `ProposalsAreAlwaysSound`, `AnswersAreAlwaysResults`, `RegisterIsAlwaysSafe` |

### Consensus: types and sealed fast commits

- `TypeCorrect` (`Spec => []TypeOK`). Type correctness is not immediate here: it
  includes that the instances which a new leader assigns fit the bits of `pack`,
  and that a minimum or maximum chosen with `CHOOSE` exists.
- `FastCommitsAreSealed` (`Spec => []FastCommitsSealed`). The property talks of
  views already left, while `changeView` looks only at `instance_states` at the
  moment it seals, so it is not inductive. `SealInv` adds, replica by replica:
  - a fast commit of the current view is marked in `instance_states` until a
    certified checkpoint covers it (`FastCommitsMarked`); this needs that nobody's
    window starts above our checkpoint (`WindowsCertified`), otherwise a far
    prepare could push a marked instance out of the tail map;
  - an instance marked as committed by ourselves was committed in this view
    (`OwnCommitsSent`); this needs that the commits in our own buffer were
    broadcast (`BufferedWereSent`), that the pool never verifies our own commits
    (`VerifyingOthers`), and that a buffered commit of another view never matches
    a prepare (`IndexInjective`);
  - nothing of an older view is left after `changeView` (`InCurrentView`).

  The proof splits every step of `r` into its effect on the others (none,
  `StepLocal`) and on `r`: all steps but `ChangeView` keep `WithinView`, which
  implies that `SealInvAt(r)` is preserved.

### Certifier: what is counted is sound

`CertificatesAreSound` (`Spec => []CertificateSound`) and `PromisesAreSound`
(`Spec => []PromiseSound`) of the certifier. A certificate is built from what
threads verified earlier, against the message known at that time, and the tail
may have moved since. `Sound` says for every queue, thread and link what its
content stands for: whatever is attributed to a replica was acknowledged by it
(`ComputedSound`, `ReceivedSound`), a check compares with a message that we
acknowledged at the same index (`CheckSound`), and an index is acknowledged
once (`AckedOnce`). The last point is why a verified share counts for the
message now found at its index. Types (`WellTyped`) are proved along the way.

A promise polled stands for every follower that acknowledged. For the leader its
broadcast stands (`Committed`): a follower that acknowledges has received it,
while the leader itself may still be waiting for requests. Nothing is assumed of
the order in which leader and followers acknowledge.

### Certifier: nothing is lost, nobody is accused

`TypeCorrect` (with the bounds of all queues), `AccusationsAreReal`,
`BuffersAreEnough`, `PromisesAreKept` and `SharesAreKept` share one invariant,
`Inv`: the one above and `Flow`. None of the five is inductive, because all
depend on the order in which things move through the queues:

- the tail is a window of indices below the next one (`Served`);
- what waits to be offloaded is younger than what waits in the pool, and that is
  younger than what a worker took (`PipelineOrder`); the places of sorted shares
  span at most a tail. This bounds the buffers taken, whether or not `take`
  would refuse more: one tail waits in the queue, one in the pool, one in places, and each worker holds one;
- what came from a source lies below the position polled, and every promise or
  share is in one place only (`PromisesFrom`, `SharesFrom`). A second copy would
  look like a Byzantine sender; a missing one would break the last two theorems.

### Consensus: one proposal per view

`OneProposalPerView` (`Spec => []OneProposal`). A NewView makes the leader
propose again from its checkpoint on, so it must not start a view twice, and
nothing in the code records that a view was started: a SealView which arrives
late makes it collect certificates for that view again. `LeaderInv` says why it
never completes: a NewView used the certified states of a quorum, which are
acknowledged once per view (`Consumed`, `Closed`), and those left are no quorum.

### Consensus: replayed states

`SealedStatesAlwaysAgree` and `CommitsAlwaysFit`. `ReplayInv` states what
`replica_states` is for: what a replica keeps of a sender is a function of the
prefix of the sender's broadcasts it handled (`Replayed`), whatever the others
sent meanwhile. A SealView ends one prefix only, so all certify the same state.
The commits kept fit the pool because a sender never commits below a checkpoint
it broadcast before (`CommitsAbove`).

### Consensus: chosen values

`ChosenValuesSurvive` (`Spec => []ChosenValueSurvives`): what a quorum committed
or everyone fast committed in a view is what every later leader proposes. It is
the argument of Paxos, spread here over `changeView`, `handleSealView`,
`pollVcStateCertificates` and `handleNewView`. `ChosenInv` says that a certified
state holds the last commit of its owner for every instance above the
checkpoint (`KeepsLast`, `Certifies`), so that a proposal has the value of the
last commit of a quorum that sealed the previous view (`Safe`), and keeps it, for
they commit nothing of that view later. The last step takes the least view that
proposes something else. Fast commits are reduced to commits with
`FastCommitsAreSealed`. The property excludes fast commits of instances that the
checkpoint of the later leader covers: a replica may seal with that checkpoint
instead of a commit, and with five or more replicas the quorum that remains need
not hold one. Such an instance is below every later window.

### Consensus: decisions

`AgreementWithoutViewChange`, `CheckpointsWithoutViewChange` and
`FirstViewImplementsLog`: while nobody has left the first view all replicas
decide the same, adopted checkpoints are prefixes of every log, and `Consensus`
implements `ReplicatedLog`, by fast commits, by commits or by both, for any
number of replicas and any window. This is what `consensus_window` and
`consensus_fast` check on small instances. `NoViewChange` is a condition on
states, so the first two hold in every behaviour up to its first view change;
with one the code violates agreement (`consensus_agreement`), and no premise
about votes is assumed instead: `FirstViewVotes` proves that all votes counted
are of the first view.

`DecisionInv` says that every entry of a log or of a checkpoint is `Justified`:
a quorum committed it, or everyone fast committed it, in some view. Two
justified batches of an instance are equal (`OneChosen`) by the two sections
above; a decision on the fast path needs that
everyone who fast committed also promised (`FastInv`).

`FastCommitsAreUsable` (`Spec => []FastCommitUsable`) has no premise:
`pollFastCommits` drops a fast commit for which it has no prepare, and
`UsableInv` shows that only one of a sealed view or below the checkpoint is
dropped, because the sender had our promise, which we gave while holding the
prepare.

### Consistent broadcast (`TailCbProofs`)

`BroadcastIsConsistent` (`Spec => ImplementsBroadcast`): whichever process is
faulty, two correct receivers never poll different values under one index, and
each polls increasing indices. A receiver polls a message after the echoes of
all others, or after a signature and a read of all registers, and the two ways
have to agree with each other.

- By echoes: a correct receiver echoes what it keeps and never another value
  for that index (`EchoesOrdered`, `KeptEchoed`), and what is counted was
  received (`EchoesSeen`). So whoever polls by echoes has the value that every
  correct receiver echoed, and a register holds only what its owner echoed
  (`WrittenEchoed`): the two ways agree.
- By registers: of two receivers whose writes of different values completed, the
  one that reads later finds the other's. Reading, checking a signature in the
  thread pool and counting it are separate steps, so the invariant counts, for
  every message kept, the other receivers already checked, being checked or
  still to be read: never more than there are (`CountedOnce`). Of two receivers
  with different values one is short of one (`OneIsSpoiled`, `Spoiled`), and
  polls only if it counts them all.

`AccusationsAreReal` (`Spec => []AlarmsAreReal`) adds what a correct broadcaster
guarantees (`HonestInv`): a receiver keeps, echoes and stores only what was
broadcast at that index, so that no echo, signature or register of a correct
process can look forged, however late it is. A faulty receiver's register may
replay the broadcaster's signatures, so an equivocation is found only if someone
is faulty, and that it is the broadcaster is not proved but refuted
(`tail_cb_replay`).

### The replicas (`SmrServerProofs`)

`LogIsExecuted` (`Spec => []ExecutesTheLog`): batches wait in slots for a
checkpoint while others are proposed, and a slower replica may be outrun. The
invariant says that log and slots together are a list of batches each of which
starts where the one before ended (`InOrder`, `ProposedInOrder`), so that the
flattened log is 1, 2, ... and what a replica executed is a prefix of it
(`ExecutedInOrder`), and that the log ends inside the leader's window
(`WithinWindow`).

`OnlyAnsweredAreDropped` (`Spec => DropsOnlyAnswered`), an action property: a
request log drops its oldest requests when a new one moves the limit (all up to
a window before it, `RoomFor`). It keeps the last
requests in increasing order (`RequestsKept`), so the last that goes is a client
window older than the one that comes, which the client sent only once the older
was answered (`EarlierAnswered`).

### CB flow control (`SmrServerProofs`, instance `Cb`)

`MajorityIsNeverOutrun`: a majority of the replicas never finds a gap in the
messages of a broadcaster, for any number of broadcasters and any tail. Gaps
arise late, so the invariant talks of the certificates: whoever sent a share for
a checkpoint handled all before it (`SharesHandled`), so a majority handled what
the last certificate released (`ReleasedByMajority`), and the messages since fit
in the tail; a replica with a gap is more than a tail behind (`GapsBehind`).

### RPC (`RpcProofs`)

Four theorems share one invariant `Inv`, over the three path configurations, any
set of servers, faulty clients included:

- `CreditsAreExact` (`[]CreditsBalance`): what a server counts as outstanding
  towards another is on the link or in an acknowledgement on its way back
  (`CreditsOK`), and never above the window: neither link overwrites anything.
- `RequestsAreOrdered` (`[]OrderedOnce`): the requests of a client are accepted
  by a server, and proposed by the leader, in increasing order, none twice
  (`Ordered`), whatever the order in which requests, echoes and verified
  signatures arrive. The cursors `received` and `proposable` of the ingress
  stand for what was accepted and proposed (`IngressKept`).
- `FastProposalsAreAccepted` (`[]ProposedIsAcceptedByAll`): an echo was accepted
  by its sender wherever it is: on the link (`EchoesAccepted`), buffered because
  it came before the request, or counted (`IngressOK`).
- `ResultsAreAnswered` (`[]AnswersAreResults`): the client counts responses and
  not senders, and drops those for requests it no longer knows. Responses of a
  server to a client are increasing, and each is for the place of the request in
  the log (`ResponsesOK`); the responses gathered for a request are therefore no
  more than the servers that executed it and whose response was polled
  (`WaitingOK`, `Answerers`).

`Assumption` asks for a finite, nonempty set of server numbers (the least is the
leader) and windows of at least one.

### Replicated registers (`ReplicatedSwmrProofs`)

`ReplicationIsRegular` (`Spec => ImplementsRegular`), for an odd number of hosts
(`OddHosts`, the 2f + 1 replicas of a system): with an even number the halves
that the code counts need not meet, and it is false. A read takes time: its hosts
answer one by one while writes go on, and slow hosts skip writes. The invariant
keeps, for every pending read, a majority of hosts whose answer, given or to
come, is not older than the read's floor (`ReadsCovered`), and for every host the
write it will end up with (`Catching`).

### Registers (`ReplicatedSwmrProofs`, instance `Sw`)

`RegisterSafe` (`[](NoFalseAlarm /\ QuickReadsAreFresh)`): a reader sees two half
written subslots only if the writer wrote twice during the read, which takes the
writer longer than its cooldown, so that a correct writer is never taken for
Byzantine; and of the two subslots the one not being written holds the last
completed value. The invariant relates, for every read in progress, what each
half of a subslot shows to the write that last touched it and to the time the
read began (`ReadsSound`).

### The service (`ServiceProofs`)

`MCService` holds an instance of every component and lets one run per behaviour.
`ServiceProofs` instantiates the theorems above with the same constants, shows
that the steps of the composition are steps or stuttering of the component
(`BcNext`, `CbNext`, `SmrNext`, `RpcNext`), and that the property the run checks
follows from the one the theorem states. It thereby proves nine properties of
run `service` for its instance, of which the theorems say that the bounds do not
matter. `MCService` assumes that its model values differ
(`ConstantsAreDistinct`), as TLC does.

### Only model-checked

- `NeverThrows`: false in general (`consensus_late_request`), it holds in the
  first view for the configuration of `consensus_window`.
- `CountedCommitsVerified`: that a counted commit was sent is proved
  (`CountedSent`); that its certificate was checked is left to the run, and
  fails once commits of several views are under verification.
- `StructuresAreSafe` of `service` (`LockFreePool`, `TailContainers`), with the
  refinement of `TailStore`;
  `TasksAreContained`, `MemoryIsExclusive` and `SetupIsSound` of `progress`.
- The refinement of `TailLink` by `TailP2p`: half of it is liveness.
- `RegisterIsRegular` as a property of the composed run `progress`; the theorem
  `ReplicationIsRegular` is about the component.
- Everything temporal (`ProposedIsDecided`, and in `progress` `LinkIsTail`'s
  liveness, `NoLostWakeup`, `AlterEnds`, `Reproposed`, `SlackComes`): liveness
  under fairness is out of the prover's reach.

## 5. Plan

The components are modelled and the theorems above proved. What would come next:

1. `TailP2p`: the safety half of `TailLink` (increasing indices, skips only over
   what a tail of others follows), from the word-by-word writes of `Wire`.
2. `Consensus`: nobody throws while nobody leaves the first view and requests
   come in order.
3. `ThreadPool`, `LockFreePool`, `TailContainers`: their bounds and containment.
4. Hazards that no property covers yet: a commit hidden in the buffer, a prepare
   of an old view, a late SealView (see `PROJECT.json`).

## 6. Not modelled

- The bindings to RDMA verbs (`conn/src/rc.cpp`, `ud.hpp`), crypto libraries and
  memcached: their effect is part of the modules that use them. Errors of the
  network card end the program.
- `TreeTailMap`, the deque variant of the tail queue, latency instrumentation,
  byte layouts, the applications and the ping and test executables.
- Behaviour the code does not have: state transfer, recovery from gaps in CB
  messages, a timeout that changes the view, a restarted replica that rejoins
  (the store refuses keys that exist).
- Byzantine replicas in `Consensus`, `Certifier`, `SmrServer` and `Rpc`; only
  `TailCb` has a faulty process and `Rpc` a faulty client.
- Switching a running client or server between paths. The ingress then blocks on
  requests without signatures (a comment in `pollToForward` says so), or throws
  on a request it already has.
- A client that overruns its window: `rpc::Client::getSlot` returns a slot even
  when the window is full, so the model's client keeps to it by itself, as the
  client programs do.
- The handling of other messages inside `waitForCbSlack` in the middle of a
  handler of `Consensus`.
- Undefined behaviour outside of data races: `ManagedReader::release` of the
  replicated register uses an iterator it erased, `pollToForward` reads past the
  end for a log line, and for a client that disconnects before its first step
  `Manager::markInactive` makes up an entry whose null pointer `remove`
  (`connection.hpp:170`) follows (there the model stops, `crashed`). In `Execute` of `SmrServer`
  a decision for a client never heard of ends the replica (`thrown`).
- Owners of acknowledged messages: the certifier keeps pointers into them, and
  messages are values here. `changeView` waits for certificates without ticking
  checkpoints (the TODO in `consensus.hpp`), and a single recovered value waits
  for the next client request; both need a view change that nothing triggers.
