------------------------------ MODULE Consensus ------------------------------
(***************************************************************************)
(* The consensus engine of uBFT: class Consensus of                        *)
(* ubft/src/consensus/consensus.hpp with the records it keeps              *)
(* (internal/replica-state.hpp, instance-state.hpp, view-change.hpp).      *)
(*                                                                         *)
(* Replicas run the same code and exchange                                 *)
(*   - messages over tail-cb, a FIFO consistent broadcast: replica s       *)
(*     appends to its log cb[s], replica r polls it in order;              *)
(*   - promises and signature shares through four kinds of certifiers;     *)
(*   - fast commits over FIFO point-to-point links.                        *)
(* Every message may be delayed for ever and a replica may stop at any     *)
(* point, so crashes and slowness need no action of their own.             *)
(*                                                                         *)
(* A handler that spins until a condition holds (changeView,               *)
(* handleSealView, handleNewView) is an action whose guard is that         *)
(* condition: while a replica spins, the only steps it takes are the ones  *)
(* the loop body takes, and those are the actions that stay enabled.  A    *)
(* thrown exception ends the replica: err[r] says which one.               *)
(***************************************************************************)
EXTENDS Integers, Sequences, FiniteSets

CONSTANTS
    N,            \* number of replicas
    Value,        \* batches of client requests, numbered in arrival order
    NoOp,         \* the empty batch, always valid
    Window,       \* size of the proposing window
    Slack,        \* the "10" of broadcastCheckpointCertificate
    InstSpace,    \* number of instances packed below a view (2^48 in pack)
    InitRequests, \* batches every replica knows from the start
    FastPath,     \* whether the prepare certifier runs its fast path
    SlowPath,     \* toggleSlowPath
    LazyVerify,   \* bound: whether commit verifications may lag
    Timeouts,     \* bound: replicas whose application calls changeView
    MaxView,      \* bound: views are 0..MaxView
    MaxInst       \* bound: instances below MaxInst are proposed

Replica == 0 .. N - 1
Quorum == N \div 2 + 1
Batch == Value \cup {NoOp}
Instance == 0 .. InstSpace - 1

ASSUME ConstantsAssumption ==
    /\ N \in Nat \ {0}
    /\ Window \in Nat \ {0, 1}
    /\ Slack \in Nat
    /\ InstSpace \in Nat \ {0}
    /\ MaxView \in Nat
    /\ MaxInst \in 0 .. InstSpace
    /\ FastPath \in BOOLEAN
    /\ SlowPath \in BOOLEAN
    /\ LazyVerify \in BOOLEAN
    /\ Timeouts \subseteq Replica
    /\ Value \subseteq Nat
    /\ NoOp \notin Value
    /\ InitRequests \subseteq Value

(* The value of a prepare message, and of the certificate a commit holds. *)
Proposal == [view: Nat, inst: Instance, val: Batch]

(* types.hpp: a checkpoint opens [low, low + Window); digest is the hash   *)
(* of the application, which the decided batches determine.                *)
Checkpoint == [low: Nat, digest: Seq(Batch)]
Genesis == [low |-> 0, digest |-> << >>]

(* What everyone certifies of a replica that seals a view, whose shares are *)
(* SealedStates, and the certificate the next leader collects.              *)
SerializedState == [view: Nat, commits: SUBSET Proposal]
SealedState == [owner: Replica, view: Nat, commits: SUBSET Proposal]
StateCertificate == [owner: Replica, commits: SUBSET Proposal]

PrepareMessage(p) == [kind |-> "Prepare", p |-> p]
CommitMessage(p) == [kind |-> "Commit", p |-> p]
CheckpointMessage(c) == [kind |-> "Checkpoint", c |-> c]
SealViewMessage == [kind |-> "SealView"]
NewViewMessage(v, commits) ==
    [kind |-> "NewView", view |-> v, commits |-> commits]

NewView == [kind: {"NewView"}, view: Nat, commits: SUBSET Proposal]
Message ==
    [kind: {"Prepare", "Commit"}, p: Proposal]
      \cup [kind: {"Checkpoint"}, c: Checkpoint]
      \cup [kind: {"SealView"}]
      \cup NewView

VARIABLES
    cb,                \* cb[s]: what s broadcast over tail-cb
    states,            \* states[r][s]: what r deduced from s's broadcasts
    instance_states,   \* the prepares of r's current view
    fast_committed,    \* <<s, i>>: r saw s fast commit instance i
    committed,         \* <<s, i>>: r saw s commit instance i
    prepare_certifier, \* r's certifier of prepare messages
    sent,              \* promises and shares each replica emitted
    verifying,         \* commits in r's verification threads
    buffered_commits,  \* verified commits that wait for their prepare
    fast_commits,      \* fast_commits[s]: the fast commits s sent
    polled_fast,       \* how many of fast_commits[s] r polled
    proposer,          \* next_proposal, proposed, to_propose
    log,               \* decided batches; next_to_decide is Len(log[r])
    request_log,       \* batches r received from their clients
    checkpoints,       \* local and certified checkpoints
    vc,                \* view change: state certifiers and the new leader
    err                \* "ok", or the exception that ended r

vars == <<cb, states, instance_states, fast_committed, committed,
          prepare_certifier, sent, verifying, buffered_commits, fast_commits,
          polled_fast, proposer, log, request_log, checkpoints, vc, err>>

instVars == <<instance_states, fast_committed, committed>>
fastVars == <<fast_commits, polled_fast>>

-----------------------------------------------------------------------------
(* Helpers *)

pack(v, i) == v * InstSpace + (i % InstSpace)
Index(p) == pack(p.view, p.inst)
leader(v) == v % N

At(r) == states[r][r].at_view
High(low) == low + Window
certifiedCheckpoint(r) == checkpoints[r].certified

(* What r broadcast of one kind. *)
Broadcast(r, kind) == {m \in {cb[r][k] : k \in 1 .. Len(cb[r])} : m.kind = kind}
Prepares(r) == {m.p : m \in Broadcast(r, "Prepare")}
Commits(r) == {m.p : m \in Broadcast(r, "Commit")}
FastCommits(r) == {fast_commits[r][k] : k \in 1 .. Len(fast_commits[r])}

Instances(r) == {p.inst : p \in instance_states[r]}

(* A new leader that has broadcast its NewView is blocked in handleNewView  *)
(* until it reaches the view: it only runs changeView's loop meanwhile.     *)
Running(r) == err[r] = "ok" /\ \A m \in vc[r].pending : At(r) < m.view
Free(r) == err[r] = "ok" /\ vc[r].pending = {}

(* Why a replica ended. *)
Exception ==
    {"Byzantine prepare", "Byzantine commit", "Byzantine checkpoint",
     "Committed twice", "Fast commit received twice",
     "Should have been detected before", "Tried to emplace a past element"}
Throw(r, what) == err' = [err EXCEPT ![r] = what]

(* RequestLog::isValid: every request of the batch came from its client. *)
isValid(r, val) == val = NoOp \/ val \in request_log[r]

(* TailMap::tryEmplace drops the elements that a new key leaves behind. *)
InTail(key, new) == new < key + Window

(* The certifier polls in index order, from its first unforgotten message. *)
Front(r) == LET I == {Index(p) : p \in prepare_certifier[r].tail}
            IN  CHOOSE i \in I : \A j \in I : i <= j
NextOf(r, next) == IF next < Front(r) THEN Front(r) ELSE next

(* The records behind states, prepare_certifier, sent, proposer,            *)
(* checkpoints and vc.                                                      *)
ReplicaState ==
    [next_cb: Nat, at_view: Nat, next_prepare: Nat, low: Nat,
     commits: SUBSET Proposal, has_new_view: BOOLEAN,
     valid_values: SUBSET Proposal, outstanding: Int]
PrepareCertifier ==
    [tail: SUBSET Proposal, min: Nat, next_promise: Nat, next_certificate: Nat]
Emitted ==
    [promises: SUBSET Nat, prepares: SUBSET Proposal,
     checkpoints: SUBSET Checkpoint, states: SUBSET SealedState]
Proposer == [next_proposal: Nat, proposed: Nat, to_propose: Seq(Proposal)]
Checkpoints == [local: SUBSET Checkpoint, certified: Checkpoint]
ViewChange ==
    [acked: [Replica -> SUBSET SerializedState], ongoing: SUBSET Nat,
     certs: SUBSET StateCertificate, pending: SUBSET NewView]

InitState ==
    [next_cb |-> 0, at_view |-> 0, next_prepare |-> 0, low |-> 0,
     commits |-> {}, has_new_view |-> FALSE, valid_values |-> {},
     outstanding |-> 0]

Init ==
    /\ cb = [r \in Replica |-> << >>]
    /\ states = [r \in Replica |-> [s \in Replica |-> InitState]]
    /\ instance_states = [r \in Replica |-> {}]
    /\ fast_committed = [r \in Replica |-> {}]
    /\ committed = [r \in Replica |-> {}]
    /\ prepare_certifier = [r \in Replica |->
          [tail |-> {}, min |-> 0, next_promise |-> 0, next_certificate |-> 0]]
    /\ sent = [r \in Replica |->
          [promises |-> {}, prepares |-> {}, checkpoints |-> {}, states |-> {}]]
    /\ verifying = [r \in Replica |-> {}]
    /\ buffered_commits = [r \in Replica |-> [s \in Replica |-> << >>]]
    /\ fast_commits = [r \in Replica |-> << >>]
    /\ polled_fast = [r \in Replica |-> [s \in Replica |-> 0]]
    /\ proposer = [r \in Replica |->
          [next_proposal |-> 0, proposed |-> 0, to_propose |-> << >>]]
    /\ log = [r \in Replica |-> << >>]
    /\ request_log = [r \in Replica |-> InitRequests]
    /\ checkpoints = [r \in Replica |->
          [local |-> {}, certified |-> Genesis]]
    /\ vc = [r \in Replica |->
          [acked |-> [s \in Replica |-> {}], ongoing |-> {}, certs |-> {},
           pending |-> {}]]
    /\ err = [r \in Replica |-> "ok"]

-----------------------------------------------------------------------------
(* Certifying prepares *)

(* tryCertifyPrepare on a prepare that is not certified yet: nothing while  *)
(* some request of it is unknown; otherwise the prepare is acknowledged,    *)
(* which TailMap refuses below the largest index acknowledged so far.  The  *)
(* leader's prepare stands for its promise.  The promise and the signature  *)
(* share go out here; others may receive them arbitrarily late.             *)
tryCertifyPrepare(r, p) ==
    LET pc == prepare_certifier[r] IN
    \/ /\ ~isValid(r, p.val)
       /\ UNCHANGED <<prepare_certifier, sent, err>>
    \/ /\ isValid(r, p.val)
       /\ Index(p) < pc.min
       /\ Throw(r, "Tried to emplace a past element")
       /\ UNCHANGED <<prepare_certifier, sent>>
    \/ /\ isValid(r, p.val)
       /\ Index(p) >= pc.min
       /\ prepare_certifier' = [prepare_certifier EXCEPT
             ![r].tail = {q \in @ : InTail(Index(q), Index(p))} \cup {p},
             ![r].min = Index(p)]
       /\ sent' = [sent EXCEPT
             ![r].promises = IF leader(p.view) = r THEN @ ELSE @ \cup {Index(p)},
             ![r].prepares = @ \cup {p}]
       /\ UNCHANGED err

Certified(p) == Cardinality({s \in Replica : p \in sent[s].prepares}) >= Quorum

-----------------------------------------------------------------------------
(* Handlers of CB messages.  They leave cb and proposer to their callers.   *)

(* What a message leaves in the state of its sender. *)
Received(st) == [st EXCEPT !.next_cb = @ + 1]
Prepared(st, p) ==
    [st EXCEPT !.next_cb = @ + 1, !.next_prepare = p.inst,
               !.valid_values = {w \in @ : w.inst > p.inst}]
Verified(st) == [st EXCEPT !.outstanding = @ - 1]

(* isByzantine(prepare) *)
ByzantinePrepare(r, s, p) ==
    LET st == states[r][s] IN
    \/ leader(p.view) # s
    \/ st.at_view # p.view
    \/ p.inst \in Instances(r)
    \/ st.next_prepare > p.inst
    \/ p.inst < st.low \/ p.inst >= High(st.low)
    \/ /\ p.view # 0
       /\ \/ ~st.has_new_view
          \/ \E w \in st.valid_values : w.inst = p.inst /\ w.val # p.val

(* The commits buffered for a prepare: older ones are dropped up to the     *)
(* first that is not older.                                                 *)
DropBelow(q, index) ==
    LET n == CHOOSE k \in 0 .. Len(q) :
                /\ \A j \in 1 .. k : Index(q[j]) < index
                /\ k = Len(q) \/ Index(q[k + 1]) >= index
    IN  SubSeq(q, n + 1, Len(q))

handlePrepare(r, s, p) ==
    LET useful == Index(p)
        left == [t \in Replica |-> DropBelow(buffered_commits[r][t], useful)]
        replay == {t \in Replica : left[t] # << >> /\ Index(left[t][1]) = useful}
        ignored == p.view # At(r) \/ p.inst < certifiedCheckpoint(r).low
        seen == [t \in Replica |->
                    IF t \in replay THEN Verified(states[r][t]) ELSE states[r][t]]
    IN
    /\ UNCHANGED <<verifying, fastVars, log, request_log, checkpoints, vc>>
    /\ \/ /\ ByzantinePrepare(r, s, p)
          /\ Throw(r, "Byzantine prepare")
          /\ UNCHANGED <<states, instVars, prepare_certifier, sent,
                         buffered_commits>>
       \/ /\ ~ByzantinePrepare(r, s, p)
          /\ ignored
          /\ states' = [states EXCEPT ![r][s] = Received(@)]
          /\ UNCHANGED <<instVars, prepare_certifier, sent, buffered_commits,
                         err>>
       \/ /\ ~ByzantinePrepare(r, s, p)
          /\ ~ignored
          /\ states' = [states EXCEPT ![r] = [seen EXCEPT ![s] = Prepared(@, p)]]
          /\ instance_states' = [instance_states EXCEPT ![r] =
                {q \in @ : InTail(q.inst, p.inst)} \cup {p}]
          /\ fast_committed' = [fast_committed EXCEPT ![r] =
                {b \in @ : InTail(b[2], p.inst)}]
          /\ committed' = [committed EXCEPT ![r] =
                {b \in @ : InTail(b[2], p.inst)}
                  \cup (replay \X {p.inst})]
          /\ buffered_commits' = [buffered_commits EXCEPT ![r] =
                [t \in Replica |->
                    IF t \in replay THEN Tail(left[t]) ELSE left[t]]]
          /\ tryCertifyPrepare(r, p)

(* handleVerifiedCommit without its decrement of outstanding: the commit is *)
(* counted for its instance whatever its view, or waits for the prepare in  *)
(* a tail queue of Window commits.                                          *)
countCommit(r, s, c) ==
    \/ /\ c.inst \notin Instances(r)
       /\ buffered_commits' = [buffered_commits EXCEPT ![r][s] =
             Append(IF Len(@) = Window THEN Tail(@) ELSE @, c)]
       /\ UNCHANGED <<committed, err>>
    \/ /\ c.inst \in Instances(r)
       /\ IF <<s, c.inst>> \in committed[r]
          THEN Throw(r, "Should have been detected before") /\ UNCHANGED committed
          ELSE /\ committed' = [committed EXCEPT ![r] = @ \cup {<<s, c.inst>>}]
               /\ UNCHANGED err
       /\ UNCHANGED buffered_commits

(* isByzantineCommit, and ReplicaState::committed refusing the commit. *)
ByzantineCommit(r, s, c) ==
    \/ High(states[r][s].low) <= c.inst
    \/ states[r][s].at_view # c.view
CommittedTwice(r, s, c) ==
    \E d \in states[r][s].commits : d.inst = c.inst /\ d.view >= c.view

(* ReplicaState::committed *)
Committed(st, c, pending) ==
    [st EXCEPT !.next_cb = @ + 1,
               !.commits = {d \in @ : d.inst # c.inst} \cup {c},
               !.outstanding = @ + pending]

(* The thread pool verifies the commits of others. *)
verifyCommit_Mutant(r, s, c) ==
    /\ verifying' = [verifying EXCEPT ![r] = @ \cup {<<s, c>>}]
    /\ countCommit(r, s, c)
verifyCommit(r, s, c) ==
    \/ /\ s = r \/ ~LazyVerify
       /\ countCommit(r, s, c)
       /\ UNCHANGED verifying
    \/ /\ s # r /\ LazyVerify
       /\ verifying' = [verifying EXCEPT ![r] = @ \cup {<<s, c>>}]
       /\ UNCHANGED <<committed, buffered_commits, err>>

(* A commit is recorded in the state of its sender at once and verified by  *)
(* the thread pool; r trusts its own commits, which the pollVerifiedCommits *)
(* that follows every pollPrepareCertificates handles.                      *)
handleCommit(r, s, c) ==
    /\ UNCHANGED <<instance_states, fast_committed, fastVars, log, request_log,
                   checkpoints, vc, sent>>
    /\ \/ /\ ByzantineCommit(r, s, c) \/ CommittedTwice(r, s, c)
          /\ Throw(r, IF ByzantineCommit(r, s, c) THEN "Byzantine commit"
                                                  ELSE "Committed twice")
          /\ UNCHANGED <<states, committed, verifying, buffered_commits>>
       \/ /\ ~ByzantineCommit(r, s, c) /\ ~CommittedTwice(r, s, c)
          /\ states' = [states EXCEPT ![r][s] =
                Committed(@, c, IF s = r \/ ~LazyVerify THEN 0 ELSE 1)]
          /\ verifyCommit(r, s, c)

(* handleCheckpointCertificate: only the highest checkpoint is kept. *)
Adopt(r, c) ==
    checkpoints' = [checkpoints EXCEPT ![r].certified =
        IF c.low <= @.low THEN @ ELSE c]

PruneCommits_Mutant(commits, low) == commits
PruneCommits(commits, low) == {d \in commits : d.inst >= low}

Checkpointed(st, c) ==
    [st EXCEPT !.next_cb = @ + 1, !.low = c.low,
               !.commits = PruneCommits(@, c.low)]

handleCheckpoint(r, s, c) ==
    \/ /\ c.low <= states[r][s].low
       /\ Throw(r, "Byzantine checkpoint")
       /\ UNCHANGED <<states, checkpoints>>
    \/ /\ c.low > states[r][s].low
       /\ states' = [states EXCEPT ![r][s] = Checkpointed(@, c)]
       /\ Adopt(r, c)
       /\ UNCHANGED err

(* ReplicaState::serializeState *)
serializeState_Mutant(r, s) ==
    [view |-> states[r][s].at_view, commits |-> states[r][r].commits]
serializeState(r, s) ==
    [view |-> states[r][s].at_view, commits |-> states[r][s].commits]

Sealed(st) == [st EXCEPT !.next_cb = @ + 1, !.at_view = @ + 1]

(* The state of s at the end of a view is certified by everyone; the leader *)
(* of the next view starts to collect such certificates.                    *)
handleSealView(r, s) ==
    LET st == states[r][s]
        sealed == serializeState(r, s)
        starts == /\ leader(st.at_view + 1) = r
                  /\ \A v \in vc[r].ongoing : v < st.at_view
    IN
    /\ st.outstanding = 0
    /\ states' = [states EXCEPT ![r][s] = Sealed(@)]
    /\ sent' = [sent EXCEPT ![r].states =
          @ \cup {[owner |-> s, view |-> sealed.view, commits |-> sealed.commits]}]
    /\ vc' = [vc EXCEPT
          ![r].acked[s] = {sealed},
          ![r].ongoing = IF starts THEN {st.at_view} ELSE @,
          ![r].certs = IF starts THEN {} ELSE @]

(* NewViewMessage::validValues: per instance the commit of the highest      *)
(* view, in a TailMap of Window instances.                                  *)
validValues(commits) ==
    {c \in commits :
        /\ \A d \in commits : d.inst = c.inst => d.view <= c.view
        /\ \A d \in commits : d.inst < c.inst + Window}

(* handleNewView once the local replica reached the new view. *)
ViewStarted_Mutant(st, m) ==
    [st EXCEPT !.next_cb = @ + 1, !.next_prepare = st.low - 1,
               !.has_new_view = TRUE, !.valid_values = validValues(m.commits)]
ViewStarted(st, m) ==
    [st EXCEPT !.next_cb = @ + 1, !.next_prepare = st.low,
               !.has_new_view = TRUE, !.valid_values = validValues(m.commits)]

handleNewView(r, s, m) ==
    states' = [states EXCEPT ![r][s] = ViewStarted(@, m)]

-----------------------------------------------------------------------------
(* pollCbs: r handles the next CB message of another replica. *)

NextCb(r, s) == cb[s][states[r][s].next_cb + 1]

PollCb(r, s, kind) ==
    /\ Free(r) /\ s # r
    /\ states[r][s].next_cb < Len(cb[s])
    /\ NextCb(r, s).kind = kind
    /\ UNCHANGED <<cb, proposer>>

PollPrepare(r, s) ==
    /\ PollCb(r, s, "Prepare")
    /\ handlePrepare(r, s, NextCb(r, s).p)

PollCommit(r, s) ==
    /\ PollCb(r, s, "Commit")
    /\ handleCommit(r, s, NextCb(r, s).p)
    /\ UNCHANGED prepare_certifier

PollCheckpoint(r, s) ==
    /\ PollCb(r, s, "Checkpoint")
    /\ handleCheckpoint(r, s, NextCb(r, s).c)
    /\ UNCHANGED <<instVars, prepare_certifier, sent, verifying,
                   buffered_commits, fastVars, log, request_log, vc>>

PollSealView(r, s) ==
    /\ PollCb(r, s, "SealView")
    /\ handleSealView(r, s)
    /\ UNCHANGED <<instVars, prepare_certifier, verifying, buffered_commits,
                   fastVars, log, request_log, checkpoints, err>>

PollNewView(r, s) ==
    /\ PollCb(r, s, "NewView")
    /\ At(r) >= NextCb(r, s).view
    /\ handleNewView(r, s, NextCb(r, s))
    /\ UNCHANGED <<instVars, prepare_certifier, sent, verifying,
                   buffered_commits, fastVars, log, request_log, checkpoints,
                   vc, err>>

-----------------------------------------------------------------------------
(* Proposing *)

broadcast(r, m) == cb' = [cb EXCEPT ![r] = Append(@, m)]

(* getSlot gives the batch the next instance. *)
NextSlot(pr, p) ==
    [pr EXCEPT !.next_proposal = @ + 1, !.to_propose = Append(@, p)]

(* The application takes a slot for a batch (getSlot).  Server checks       *)
(* canPropose and slotAvailable first, and offers every request once, in    *)
(* order (Server::pollProposable).                                          *)
GetSlot(r, val) ==
    LET pr == proposer[r]
        offered == {pr.to_propose[k].val : k \in 1 .. Len(pr.to_propose)}
                     \cup {p.val : p \in Prepares(r)}
    IN
    /\ Free(r)
    /\ leader(At(r)) = r /\ vc[r].ongoing = {}
    /\ pr.next_proposal < MaxInst
    /\ Len(pr.to_propose) < Window
    /\ isValid(r, val)
    /\ val \notin offered /\ \A w \in Value : w < val => w \in offered
    /\ proposer' = [proposer EXCEPT ![r] = NextSlot(@,
          [view |-> At(r), inst |-> pr.next_proposal, val |-> val])]
    /\ UNCHANGED <<cb, states, instVars, prepare_certifier, sent, verifying,
                   buffered_commits, fastVars, log, request_log, checkpoints,
                   vc, err>>

(* One iteration of the loop of propose().  In the code only the pollCbs of *)
(* waitForCbSlack() runs between two iterations, here any step may.         *)
Propose(r) ==
    LET pr == proposer[r] IN
    /\ Free(r)
    /\ leader(At(r)) = r /\ vc[r].ongoing = {}
    /\ pr.to_propose # << >>
    /\ pr.proposed < High(states[r][r].low)
    /\ proposer' = [proposer EXCEPT
          ![r].proposed = @ + 1, ![r].to_propose = Tail(@)]
    /\ broadcast(r, PrepareMessage(Head(pr.to_propose)))
    /\ handlePrepare(r, r, Head(pr.to_propose))

(* acceptRequest: a replica learns of a client's requests. *)
AcceptRequest(r, val) ==
    /\ Free(r)
    /\ val \notin request_log[r]
    /\ request_log' = [request_log EXCEPT ![r] = @ \cup {val}]
    /\ UNCHANGED <<cb, states, instVars, prepare_certifier, sent, verifying,
                   buffered_commits, fastVars, proposer, log, checkpoints, vc,
                   err>>

(* tryCertifyPrepares: the prepares whose requests were unknown at first,   *)
(* in instance order.                                                       *)
CertifyPrepare(r) ==
    /\ Free(r) /\ SlowPath
    /\ \E p \in instance_states[r] :
          /\ p \notin prepare_certifier[r].tail
          /\ isValid(r, p.val)
          /\ \A q \in instance_states[r] :
                (q \notin prepare_certifier[r].tail /\ isValid(r, q.val))
                   => p.inst <= q.inst
          /\ tryCertifyPrepare(r, p)
    /\ UNCHANGED <<cb, states, instVars, verifying, buffered_commits, fastVars,
                   proposer, log, request_log, checkpoints, vc>>

-----------------------------------------------------------------------------
(* Fast path *)

(* Every other replica promised p; the leader did by proposing it. *)
AllPromised_Mutant(r, p) ==
    \/ Replica = {r, leader(p.view)}
    \/ \E s \in Replica \ {leader(p.view)} : Index(p) \in sent[s].promises
AllPromised(r, p) ==
    \A s \in Replica \ {r, leader(p.view)} : Index(p) \in sent[s].promises

(* pollPrepareCertificatePromises: everyone promised to certify p. *)
PollPromise(r) ==
    /\ Free(r) /\ FastPath
    /\ prepare_certifier[r].tail # {}
    /\ \E p \in prepare_certifier[r].tail :
          /\ Index(p) = NextOf(r, prepare_certifier[r].next_promise)
          /\ AllPromised(r, p)
          /\ prepare_certifier' = [prepare_certifier EXCEPT
                ![r].next_promise = Index(p) + 1]
          /\ IF p.inst \in Instances(r)
             THEN /\ fast_commits' = [fast_commits EXCEPT ![r] =
                        Append(@, [view |-> p.view, inst |-> p.inst])]
                  /\ fast_committed' = [fast_committed EXCEPT ![r] =
                        @ \cup {<<r, p.inst>>}]
             ELSE UNCHANGED <<fast_commits, fast_committed>>
    /\ UNCHANGED <<cb, states, instance_states, committed, sent, verifying,
                   buffered_commits, polled_fast, proposer, log, request_log,
                   checkpoints, vc, err>>

(* pollFastCommits: a fast commit in another view than ours is only logged, *)
(* one for an unknown instance is dropped.                                  *)
PollFastCommit(r, s) ==
    LET fcm == fast_commits[s][polled_fast[r][s] + 1] IN
    /\ Free(r) /\ s # r
    /\ polled_fast[r][s] < Len(fast_commits[s])
    /\ polled_fast' = [polled_fast EXCEPT ![r][s] = @ + 1]
    /\ \/ /\ fcm.inst \notin Instances(r)
          /\ UNCHANGED <<fast_committed, err>>
       \/ /\ fcm.inst \in Instances(r)
          /\ <<s, fcm.inst>> \in fast_committed[r]
          /\ Throw(r, "Fast commit received twice")
          /\ UNCHANGED fast_committed
       \/ /\ fcm.inst \in Instances(r)
          /\ <<s, fcm.inst>> \notin fast_committed[r]
          /\ fast_committed' = [fast_committed EXCEPT ![r] =
                @ \cup {<<s, fcm.inst>>}]
          /\ UNCHANGED err
    /\ UNCHANGED <<cb, states, instance_states, committed, prepare_certifier,
                   sent, verifying, buffered_commits, fast_commits, proposer,
                   log, request_log, checkpoints, vc>>

-----------------------------------------------------------------------------
(* Slow path *)

(* The certificate pollPrepareCertificates polls next. *)
PollableCertificate(r, p) ==
    /\ p \in prepare_certifier[r].tail
    /\ Index(p) = NextOf(r, prepare_certifier[r].next_certificate)
    /\ Certified(p)

(* A checkpoint above the last one r broadcast (send_checkpoint_above). *)
NewCheckpoint(r) == certifiedCheckpoint(r).low > states[r][r].low

(* The certificate r polls is beyond its window and a checkpoint opens it. *)
CheckpointFirst_Mutant(r, p) == FALSE
CheckpointFirst(r, p) ==
    /\ p.view = At(r)
    /\ p.inst >= High(states[r][r].low)
    /\ NewCheckpoint(r)

(* pollPrepareCertificates, for one certificate: no commit once the view is *)
(* sealed or the instance checkpointed; a pending checkpoint that opens the *)
(* instance goes out first (BroadcastCheckpoint, forced).                   *)
PollPrepareCertificate(r) ==
    /\ Running(r) /\ SlowPath
    /\ \E p \in prepare_certifier[r].tail :
          LET own == states[r][r]
              obsolete == p.view # At(r) \/ p.inst < own.low
          IN
          /\ PollableCertificate(r, p)
          /\ ~CheckpointFirst(r, p)
          /\ prepare_certifier' = [prepare_certifier EXCEPT
                ![r].next_certificate = Index(p) + 1]
          /\ \/ /\ obsolete
                /\ UNCHANGED <<cb, states, committed, verifying,
                               buffered_commits, err, instance_states,
                               fast_committed, fastVars, log, request_log,
                               checkpoints, vc, sent>>
             \/ /\ ~obsolete
                /\ broadcast(r, CommitMessage(p))
                /\ handleCommit(r, r, p)
    /\ UNCHANGED proposer

(* A verification thread finishes and pollVerifiedCommits handles its       *)
(* commit; threads finish in any order.                                     *)
PollVerifiedCommit(r) ==
    /\ Running(r) /\ SlowPath
    /\ \E w \in verifying[r] :
          /\ verifying' = [verifying EXCEPT ![r] = @ \ {w}]
          /\ states' = [states EXCEPT ![r][w[1]] = Verified(@)]
          /\ countCommit(r, w[1], w[2])
    /\ UNCHANGED <<cb, instance_states, fast_committed, prepare_certifier, sent,
                   fastVars, proposer, log, request_log, checkpoints, vc>>

-----------------------------------------------------------------------------
(* Deciding and checkpointing *)

decidable(r, i) ==
    \/ \A s \in Replica : <<s, i>> \in fast_committed[r]
    \/ Cardinality({s \in Replica : <<s, i>> \in committed[r]}) >= Quorum

(* Instances are decided in order. *)
Decidable_Mutant(r, p) == decidable(r, p.inst)
Decidable(r, p) == p.inst = Len(log[r]) /\ decidable(r, p.inst)

(* triggerCheckpoint after instance i was applied. *)
AppCheckpoint_Mutant(i, applied) == [low |-> i, digest |-> applied]
AppCheckpoint(i, applied) == [low |-> i + 1, digest |-> applied]

(* pollDecision; every Window / 2 decisions the application state is        *)
(* checkpointed before the next tick (triggerCheckpoint).                   *)
Decide(r) ==
    LET i == Len(log[r])
        half == Window \div 2
    IN
    /\ Free(r)
    /\ \E p \in instance_states[r] :
          /\ Decidable(r, p)
          /\ log' = [log EXCEPT ![r] = Append(@, p.val)]
    /\ IF i % half = half - 1
       THEN LET c == AppCheckpoint(i, log'[r]) IN
            /\ checkpoints' = [checkpoints EXCEPT ![r].local = {c}]
            /\ sent' = [sent EXCEPT ![r].checkpoints = @ \cup {c}]
       ELSE UNCHANGED <<checkpoints, sent>>
    /\ UNCHANGED <<cb, states, instVars, prepare_certifier, verifying,
                   buffered_commits, fastVars, proposer, request_log, vc, err>>

(* pollCheckpointCertificate: a quorum signed r's checkpoint. *)
PollCheckpointCertificate(r) ==
    /\ Free(r)
    /\ \E c \in checkpoints[r].local :
          /\ c.low > certifiedCheckpoint(r).low
          /\ Cardinality({s \in Replica : c \in sent[s].checkpoints}) >= Quorum
          /\ Adopt(r, c)
    /\ UNCHANGED <<cb, states, instVars, prepare_certifier, sent, verifying,
                   buffered_commits, fastVars, proposer, log, request_log, vc,
                   err>>

(* The instances that survive a checkpoint. *)
ForgetBelow_Mutant(insts, low) == {p \in insts : p.inst > low}
ForgetBelow(insts, low) == {p \in insts : p.inst >= low}

(* broadcastCheckpointCertificate: when r is Slack decisions away from the  *)
(* end of its window, or forced by a prepare certificate beyond it.         *)
BroadcastCheckpoint(r) ==
    LET c == certifiedCheckpoint(r)
        forced == \E p \in prepare_certifier[r].tail :
                     PollableCertificate(r, p) /\ CheckpointFirst(r, p)
    IN
    /\ Running(r)
    /\ NewCheckpoint(r)
    /\ (SlowPath /\ forced) \/ (Free(r) /\ High(states[r][r].low) <= Len(log[r]) + Slack)
    /\ broadcast(r, CheckpointMessage(c))
    /\ handleCheckpoint(r, r, c)
    /\ prepare_certifier' = [prepare_certifier EXCEPT ![r].tail =
          {p \in @ : Index(p) > pack(At(r), c.low - 1)}]
    /\ instance_states' = [instance_states EXCEPT ![r] =
          ForgetBelow(@, c.low)]
    /\ fast_committed' = [fast_committed EXCEPT ![r] =
          {b \in @ : b[2] >= c.low}]
    /\ committed' = [committed EXCEPT ![r] = {b \in @ : b[2] >= c.low}]
    /\ UNCHANGED <<sent, verifying, buffered_commits, fastVars, proposer, log,
                   request_log, vc>>

-----------------------------------------------------------------------------
(* Changing view *)

(* handleNewView of another replica's message, or of r's own, calls         *)
(* changeView until r is in the new view.                                   *)
NewViewWaits(r) ==
    \/ vc[r].pending # {}
    \/ \E s \in Replica \ {r} :
          /\ states[r][s].next_cb < Len(cb[s])
          /\ NextCb(r, s).kind = "NewView"
          /\ NextCb(r, s).view > At(r)

(* The condition changeView's loop waits for: every instance r fast         *)
(* committed it also committed.                                             *)
committed_all_MutantSkip(r) == TRUE
committed_all_MutantSwap(r) ==
    \A i \in Instances(r) :
        <<r, i>> \in committed[r] => <<r, i>> \in fast_committed[r]
committed_all(r) ==
    \A i \in Instances(r) :
        <<r, i>> \in fast_committed[r] => <<r, i>> \in committed[r]

(* changeView, called by the application or by handleNewView: seal the view *)
(* and forget its prepares.                                                 *)
ChangeView(r) ==
    /\ Running(r)
    /\ At(r) < MaxView
    /\ r \in Timeouts \/ NewViewWaits(r)
    /\ committed_all(r)
    /\ broadcast(r, SealViewMessage)
    /\ handleSealView(r, r)
    /\ prepare_certifier' = [prepare_certifier EXCEPT ![r].tail =
          {p \in @ : Index(p) > pack(At(r) + 1, 0)}]
    /\ instance_states' = [instance_states EXCEPT ![r] = {}]
    /\ fast_committed' = [fast_committed EXCEPT ![r] = {}]
    /\ committed' = [committed EXCEPT ![r] = {}]
    /\ UNCHANGED <<verifying, buffered_commits, fastVars, proposer, log,
                   request_log, checkpoints, err>>

(* pollVcStateCertificates: the certified state of s, dropped if it is not  *)
(* of the view being left; with a quorum of them the NewView is broadcast.  *)
PollVcStateCertificate(r, s) ==
    /\ Free(r) /\ SlowPath
    /\ vc[r].ongoing # {}
    /\ \E a \in vc[r].acked[s] :
          LET cert == [owner |-> s, commits |-> a.commits]
              certs == IF a.view \in vc[r].ongoing THEN vc[r].certs \cup {cert}
                                                   ELSE vc[r].certs
              m == NewViewMessage(a.view + 1, UNION {c.commits : c \in certs})
          IN
          /\ Cardinality({t \in Replica :
                [owner |-> s, view |-> a.view, commits |-> a.commits]
                   \in sent[t].states}) >= Quorum
          /\ \/ /\ Cardinality(certs) < Quorum
                /\ vc' = [vc EXCEPT ![r].acked[s] = {}, ![r].certs = certs]
                /\ UNCHANGED <<cb, states>>
             \/ /\ Cardinality(certs) = Quorum
                /\ broadcast(r, m)
                /\ vc' = [vc EXCEPT
                      ![r].acked[s] = {}, ![r].certs = {}, ![r].ongoing = {},
                      ![r].pending = {m}]
                /\ UNCHANGED states
    /\ UNCHANGED <<instVars, prepare_certifier, sent, verifying,
                   buffered_commits, fastVars, proposer, log, request_log,
                   checkpoints, err>>

(* Where getSlot goes on after the values recovered for first .. last.      *)
NextProposal_Mutant(first, last) == IF last < first THEN first ELSE last
NextProposal(first, last) == IF last < first THEN first ELSE last + 1

(* The new leader handles its own NewView, having sealed the old view, and  *)
(* takes slots for the values to recover, with empty batches in the gaps.   *)
(* The bound on last is the width pack leaves to an instance.               *)
StartView(r) ==
    /\ err[r] = "ok"
    /\ \E m \in vc[r].pending :
          LET vv == validValues(m.commits)
              first == certifiedCheckpoint(r).low
              last == IF vv = {} THEN first
                      ELSE CHOOSE i \in {w.inst : w \in vv} :
                              \A x \in vv : x.inst <= i
              value(i) == IF \E w \in vv : w.inst = i
                          THEN (CHOOSE w \in vv : w.inst = i).val ELSE NoOp
          IN
          /\ At(r) >= m.view
          /\ last < InstSpace
          /\ handleNewView(r, r, m)
          /\ vc' = [vc EXCEPT ![r].pending = {}]
          /\ proposer' = [proposer EXCEPT ![r] =
                [proposed |-> first,
                 next_proposal |-> NextProposal(first, last),
                 to_propose |-> [k \in 1 .. (last - first + 1) |->
                    [view |-> At(r), inst |-> first + k - 1,
                     val |-> value(first + k - 1)]]]]
    /\ UNCHANGED <<cb, instVars, prepare_certifier, sent, verifying,
                   buffered_commits, fastVars, log, request_log, checkpoints,
                   err>>

-----------------------------------------------------------------------------
(* The steps of a replica. *)
Step(r) ==
    \/ \E val \in Value : GetSlot(r, val) \/ AcceptRequest(r, val)
    \/ Propose(r)
    \/ CertifyPrepare(r)
    \/ PollPromise(r)
    \/ PollPrepareCertificate(r)
    \/ PollVerifiedCommit(r)
    \/ Decide(r)
    \/ PollCheckpointCertificate(r)
    \/ BroadcastCheckpoint(r)
    \/ ChangeView(r)
    \/ StartView(r)
    \/ \E s \in Replica :
          \/ PollPrepare(r, s)
          \/ PollCommit(r, s)
          \/ PollCheckpoint(r, s)
          \/ PollSealView(r, s)
          \/ PollNewView(r, s)
          \/ PollFastCommit(r, s)
          \/ PollVcStateCertificate(r, s)

Next == \E r \in Replica : Step(r)

Spec == Init /\ [][Next]_vars

-----------------------------------------------------------------------------
(* Properties *)

(* Type invariant. *)
TypeOK ==
    /\ cb \in [Replica -> Seq(Message)]
    /\ states \in [Replica -> [Replica -> ReplicaState]]
    /\ instance_states \in [Replica -> SUBSET Proposal]
    /\ fast_committed \in [Replica -> SUBSET (Replica \X Nat)]
    /\ committed \in [Replica -> SUBSET (Replica \X Nat)]
    /\ prepare_certifier \in [Replica -> PrepareCertifier]
    /\ sent \in [Replica -> Emitted]
    /\ verifying \in [Replica -> SUBSET (Replica \X Proposal)]
    /\ buffered_commits \in [Replica -> [Replica -> Seq(Proposal)]]
    /\ fast_commits \in [Replica -> Seq([view: Nat, inst: Nat])]
    /\ polled_fast \in [Replica -> [Replica -> Nat]]
    /\ proposer \in [Replica -> Proposer]
    /\ log \in [Replica -> Seq(Batch)]
    /\ request_log \in [Replica -> SUBSET Value]
    /\ checkpoints \in [Replica -> Checkpoints]
    /\ vc \in [Replica -> ViewChange]
    /\ err \in [Replica -> Exception \cup {"ok"}]

(* Agreement: no two replicas decide differently on an instance             *)
(* (pollDecision hands every replica's application the same batches).       *)
Agreement ==
    \A r, s \in Replica : \A i \in 1 .. Len(log[r]) :
        i <= Len(log[s]) => log[r][i] = log[s][i]

(* A batch that a quorum committed, or that everyone fast committed, in a   *)
(* view is what every later leader proposes for the instance: changeView,   *)
(* handleSealView and validValues carry it over.  A fast commit that a      *)
(* certified checkpoint covers need not be: nobody commits it any more.     *)
ChosenValueSurvives ==
    \A r, s \in Replica : \A p \in Prepares(r), q \in Prepares(s) :
        /\ p.inst = q.inst /\ p.view < q.view
        /\ \/ Cardinality({t \in Replica : p \in Commits(t)}) >= Quorum
           \/ \A t \in Replica :
                 /\ [view |-> p.view, inst |-> p.inst] \in FastCommits(t)
                 /\ ~(p.inst < certifiedCheckpoint(t).low)
        => p.val = q.val

(* changeView commits every instance that the replica fast committed before *)
(* it seals the view, except what a certified checkpoint covers.            *)
FastCommitsSealed ==
    \A r \in Replica : \A f \in FastCommits(r) :
        f.view < At(r) =>
           \/ f.inst < certifiedCheckpoint(r).low
           \/ \E p \in Commits(r) : p.view = f.view /\ p.inst = f.inst

(* A leader never prepares two batches for an instance of its view: getSlot *)
(* numbers the client's batches after the values that the new leader        *)
(* recovered, though it restarts next_proposal and proposed at its          *)
(* checkpoint (handleNewView) and a late SealView lets it collect           *)
(* certificates for the view again.                                         *)
OneProposal ==
    \A r, s \in Replica : \A p \in Prepares(r), q \in Prepares(s) :
        (p.view = q.view /\ p.inst = q.inst) => p = q

(* All replicas certify the same state of a replica for a view, whatever    *)
(* they had received of it when they handled its SealView.                  *)
SealedStatesAgree ==
    \A r, s \in Replica : \A a \in sent[r].states, b \in sent[s].states :
        (a.owner = b.owner /\ a.view = b.view) => a = b

(* In the first view no replica throws: without faulty replicas nobody is   *)
(* taken for Byzantine and no internal check fails.                         *)
NeverThrows ==
    (\A r \in Replica : At(r) = 0) => \A r \in Replica : err[r] = "ok"

(* pollFastCommits drops a fast commit whose prepare it does not hold; that *)
(* never loses one: it is for a sealed view or a checkpointed instance.     *)
FastCommitUsable ==
    \A r, s \in Replica :
        \A k \in polled_fast[r][s] + 1 .. Len(fast_commits[s]) :
            LET f == fast_commits[s][k] IN
            r # s /\ err[r] = "ok" =>
               \/ f.inst \in Instances(r)
               \/ f.view < At(r)
               \/ f.inst < certifiedCheckpoint(r).low

(* A certified checkpoint describes a prefix of what was decided, and a     *)
(* replica behind it holds the same prefix as far as it got.                *)
CheckpointIsPrefix ==
    \A r, s \in Replica :
        LET c == certifiedCheckpoint(r) IN
        /\ Len(c.digest) = c.low
        /\ \A i \in 1 .. c.low : i <= Len(log[s]) => log[s][i] = c.digest[i]

(* The commits kept for a replica fit the pool ReplicaState preallocates.   *)
CommitsFitPool ==
    \A r, s \in Replica : Cardinality(states[r][s].commits) <= Window

(* outstanding_commit_verifications is the number of commits under          *)
(* verification (replica-state.hpp).                                        *)
OutstandingIsExact ==
    \A r, s \in Replica :
        states[r][s].outstanding = Cardinality({w \in verifying[r] : w[1] = s})

(* A commit counts for an instance only once it has been verified, however  *)
(* the threads, the prepares and the commits are ordered.                   *)
CountedCommitsVerified ==
    \A r, s \in Replica : \A b \in committed[r] : b[1] = s =>
        /\ \E c \in Commits(s) : c.inst = b[2]
        /\ \A w \in verifying[r] : w[1] = s => w[2].inst # b[2]

(* A prepare whose requests become valid later can still be certified.      *)
EventuallyValidAccepted ==
    \A r \in Replica : err[r] # "Tried to emplace a past element"
=============================================================================
