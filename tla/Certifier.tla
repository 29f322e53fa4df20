------------------------------- MODULE Certifier -------------------------------
(***************************************************************************)
(* The certifier of uBFT: class Certifier of                               *)
(* ubft/src/certifier/certifier.hpp, one per replica, with the tail links  *)
(* and the thread pool as it uses them.                                    *)
(*                                                                         *)
(* A replica acknowledges messages in increasing index order.  On the fast *)
(* path it promises each of them to everyone; on the slow path worker      *)
(* threads sign them, the signature shares go out in index order, and the  *)
(* shares of others are verified by worker threads.  Only the last TailSize *)
(* messages are served.                                                   *)
(*                                                                         *)
(* Queues that hold increasing indices (promises, shares, tasks) are sets, *)
(* their front being the smallest index.  computed_shares is filled in the *)
(* order the threads finish and stays a sequence.                          *)
(*                                                                         *)
(* tick() is split into the polls it calls, each an action: they share its *)
(* guard, and the slow ones run on one tick of sixteen in any case.        *)
(***************************************************************************)
EXTENDS Integers, Sequences, FiniteSets

CONSTANTS
    N,           \* number of replicas
    TailSize,    \* number of messages served
    Workers,     \* threads of the pool
    Leader,      \* the replica whose messages are promises (fast path)
    Message,     \* what may be acknowledged at an index
    Expected,    \* the message replicas normally acknowledge
    Dissenters,  \* replicas that may acknowledge another message
    MaxIndex     \* bound: indices are 0 .. MaxIndex - 1

Replica == 0 .. N - 1
Quorum == N \div 2 + 1

ASSUME CertifierAssumption ==
    /\ N \in Nat \ {0}
    /\ TailSize \in Nat \ {0}
    /\ Workers \in Nat \ {0}
    /\ MaxIndex \in Nat
    /\ Leader \in Replica
    /\ Expected \in Message
    /\ Dissenters \subseteq Replica

(* A signature share, and a message waiting to be signed. *)
Share == [idx: Nat, msg: Message]

(* MessageData: who promised and whose verified shares we hold. *)
MessageData ==
    [idx: Nat, msg: Message, promised: SUBSET Replica, shares: SUBSET Replica]

(* A share under verification against the message we acknowledged. *)
Check == [from: Replica, share: Share, expected: Message]

Certificate == [idx: Nat, msg: Message, signers: SUBSET Replica]

Exception ==
    {"promised twice", "promises out of order", "shares out of order",
     "invalid share", "share sent twice"}

VARIABLES
    run_fast_path,          \* whether this certifier runs its fast path
    run_slow_path,          \* whether r runs its slow path
    msg_tail,               \* the messages r serves
    next_index,             \* one above the last index r acknowledged
    buffered_promises,      \* promises of s that r cannot use yet
    buffered_shares,        \* shares of s that r cannot use yet
    queued_share_computations,
    share_tasks,            \* computations in the pool's queue
    computing,              \* computations that a worker runs
    computed_shares,        \* signed, in the order the workers finished
    sorted_computed_shares, \* a place per share, to send them in order
    check_tasks,            \* verifications in the pool's queue, per source
    checking,               \* verifications a worker took, and our own shares
    next_promise,
    next_certificate,
    promises,               \* indices s promised over its links
    polled_promises,        \* one above the last promise of s that r polled
    shares,                 \* shares s sent over its links
    polled_shares,          \* one above the last share of s that r polled
    acknowledged,           \* every message r acknowledged
    promise_polls,          \* indices that pollPromise returned
    certificates,           \* certificates that pollCertificate returned
    err                     \* "ok", or the exception that ended r

pathVars == <<run_fast_path, run_slow_path>>
tailVars == <<msg_tail, next_index, acknowledged>>
promiseVars == <<buffered_promises, promises, polled_promises>>
computeVars == <<queued_share_computations, share_tasks, computing,
                 computed_shares, sorted_computed_shares, shares>>
checkVars == <<buffered_shares, check_tasks, checking, polled_shares>>
pollVars == <<next_promise, next_certificate, promise_polls, certificates>>
vars == <<pathVars, tailVars, promiseVars, computeVars, checkVars, pollVars, err>>

-----------------------------------------------------------------------------
(* Helpers *)

Indices(S) == {x.idx : x \in S}

Front(I) == CHOOSE i \in I : \A j \in I : i <= j
First(S) == CHOOSE x \in S : x.idx = Front(Indices(S))

(* A bounded queue drops its front when it grows beyond the tail. *)
Bounded_Mutant(S) == IF Cardinality(S) >= TailSize THEN S \ {First(S)} ELSE S
Bounded(S) == IF Cardinality(S) > TailSize THEN S \ {First(S)} ELSE S

BoundedIndices_Mutant(I) == IF Cardinality(I) >= TailSize THEN I \ {Front(I)} ELSE I
BoundedIndices(I) == IF Cardinality(I) > TailSize THEN I \ {Front(I)} ELSE I

(* VectorTailMap::tryEmplace drops the elements the new key leaves behind. *)
InTail_Mutant(key, new) == new <= key + TailSize
InTail(key, new) == new < key + TailSize

(* msg_tail.find *)
Found(r, i) == i \in Indices(msg_tail[r])
DataOf(r, i) == CHOOSE d \in msg_tail[r] : d.idx = i

Throw(r, what) == err' = [err EXCEPT ![r] = what]
Ok(r) == err[r] = "ok"

(* What a tail link may deliver next: the oldest index not polled yet, or a *)
(* later one once those before it may have been overwritten by TailSize others. *)
Readable(sent, from) ==
    {i \in sent : /\ i >= from
                  /\ \A j \in sent : from <= j /\ j < i =>
                        Cardinality({k \in sent : k > j}) >= TailSize}

(* Messages whose buffer is taken.  The constructor sizes buffer_pool for   *)
(* the queued and stored ones, the thread pool's and one more; Pool::take   *)
(* allocates beyond that.                                                   *)
TakenBuffers(r, queued, computed) ==
    Cardinality(queued) + Cardinality(share_tasks[r]) + Cardinality(computing[r])
      + Len(computed)
      + Cardinality({e \in sorted_computed_shares[r] : e.share # {}})
PoolSize == 2 * TailSize + (TailSize + Workers) + 1

(* A user chooses the fast path when it builds its certifiers.              *)
Init ==
    /\ run_fast_path \in BOOLEAN
    /\ run_slow_path \in [Replica -> BOOLEAN]
    /\ msg_tail = [r \in Replica |-> {}]
    /\ next_index = [r \in Replica |-> 0]
    /\ buffered_promises = [r \in Replica |-> [s \in Replica |-> {}]]
    /\ buffered_shares = [r \in Replica |-> [s \in Replica |-> {}]]
    /\ queued_share_computations = [r \in Replica |-> {}]
    /\ share_tasks = [r \in Replica |-> {}]
    /\ computing = [r \in Replica |-> {}]
    /\ computed_shares = [r \in Replica |-> << >>]
    /\ sorted_computed_shares = [r \in Replica |-> {}]
    /\ check_tasks = [r \in Replica |-> [s \in Replica |-> {}]]
    /\ checking = [r \in Replica |-> {}]
    /\ next_promise = [r \in Replica |-> 0]
    /\ next_certificate = [r \in Replica |-> 0]
    /\ promises = [r \in Replica |-> {}]
    /\ polled_promises = [r \in Replica |-> [s \in Replica |-> 0]]
    /\ shares = [r \in Replica |-> {}]
    /\ polled_shares = [r \in Replica |-> [s \in Replica |-> 0]]
    /\ acknowledged = [r \in Replica |-> {}]
    /\ promise_polls = [r \in Replica |-> {}]
    /\ certificates = [r \in Replica |-> {}]
    /\ err = [r \in Replica |-> "ok"]

(* toggleSlowPath *)
ToggleSlowPath(r) ==
    /\ Ok(r)
    /\ run_slow_path' = [run_slow_path EXCEPT ![r] = ~@]
    /\ UNCHANGED <<run_fast_path, tailVars, promiseVars, computeVars, checkVars,
                   pollVars, err>>

-----------------------------------------------------------------------------
(* acknowledge *)

(* msg_tail takes increasing indices only.  The callers may skip some, and  *)
(* a follower may be ahead of the leader, whose own acknowledgement waits   *)
(* for the requests of its proposal.                                        *)
Acknowledgeable(r, i, m) ==
    /\ i >= next_index[r] /\ i < MaxIndex
    /\ m = Expected \/ r \in Dissenters

(* The leader's promise is implicit in the message it sends. *)
Promises_Mutant(r) == run_fast_path
Promises(r) == run_fast_path /\ r # Leader

(* The shares that acknowledge throws away to release their buffers. *)
Emptied_Mutant(computed) == computed
Emptied(computed) ==
    IF Len(computed) < TailSize THEN computed
    ELSE SubSeq(computed, Len(computed) - TailSize + 2, Len(computed))

(* A check of share sh from s, queued for the pool. *)
Queued(tasks, s, sh, m) ==
    LET checks == {[from |-> s, share |-> sh, expected |-> m]} \cup tasks
        oldest == CHOOSE c \in checks :
                     \A d \in checks : c.share.idx <= d.share.idx
    IN  IF Cardinality(checks) > TailSize THEN checks \ {oldest} ELSE checks

(* acknowledge, followed on the fast path by receivedImplicitPromise of the *)
(* leader.                                                                  *)
Acknowledge(r, i, m) ==
    LET promised == {s \in Replica : i \in buffered_promises[r][s]}
        new == [idx |-> i, msg |-> m, shares |-> {},
                promised |-> IF run_fast_path
                             THEN promised \cup ({Leader} \ {r}) ELSE {}]
        replayed(s) == {sh \in buffered_shares[r][s] : sh.idx = i}
        computed == Emptied(computed_shares[r])
        queued == LET Q == queued_share_computations[r] IN
                  IF Cardinality(Q) + 1 > TailSize THEN Q \ {First(Q)} ELSE Q
    IN
    /\ Ok(r)
    /\ Acknowledgeable(r, i, m)
    /\ msg_tail' = [msg_tail EXCEPT ![r] =
          {d \in @ : InTail(d.idx, i)} \cup {new}]
    /\ next_index' = [next_index EXCEPT ![r] = i + 1]
    /\ acknowledged' = [acknowledged EXCEPT ![r] = @ \cup {[idx |-> i, msg |-> m]}]
    /\ promises' = [promises EXCEPT ![r] =
          IF Promises(r) THEN @ \cup {i} ELSE @]
    /\ buffered_promises' = [buffered_promises EXCEPT ![r] =
          [s \in Replica |-> IF run_fast_path THEN {j \in @[s] : j > i} ELSE @[s]]]
    /\ buffered_shares' = [buffered_shares EXCEPT ![r] =
          [s \in Replica |-> {sh \in @[s] : sh.idx > i}]]
    /\ check_tasks' = [check_tasks EXCEPT ![r] =
          [s \in Replica |->
             IF replayed(s) = {} THEN @[s]
             ELSE Queued(@[s], s, CHOOSE sh \in replayed(s) : TRUE, m)]]
    /\ computed_shares' = [computed_shares EXCEPT ![r] = computed]
    /\ queued_share_computations' = [queued_share_computations EXCEPT
          ![r] = queued \cup {[idx |-> i, msg |-> m]}]
    /\ UNCHANGED <<pathVars, polled_promises, share_tasks, computing,
                   sorted_computed_shares, shares, checking, polled_shares,
                   pollVars, err>>

(* forgetMessages *)
ForgetMessages(r, i) ==
    /\ Ok(r)
    /\ Found(r, i)
    /\ msg_tail' = [msg_tail EXCEPT ![r] = {d \in @ : d.idx > i}]
    /\ UNCHANGED <<pathVars, next_index, acknowledged, promiseVars, computeVars, checkVars,
                   pollVars, err>>

-----------------------------------------------------------------------------
(* Fast path *)

(* tick does nothing while no message is served. *)
Ticks(r) == Ok(r) /\ msg_tail[r] # {}

(* pollPromises, for one source. *)
handlePromise(r, s, i) ==
    \/ /\ ~Found(r, i)
       /\ IF \E j \in buffered_promises[r][s] : j >= i
          THEN /\ Throw(r, "promises out of order")
               /\ UNCHANGED buffered_promises
          ELSE /\ buffered_promises' = [buffered_promises EXCEPT ![r][s] =
                     BoundedIndices(@ \cup {i})]
               /\ UNCHANGED err
       /\ UNCHANGED msg_tail
    \/ /\ Found(r, i)
       /\ IF s \in DataOf(r, i).promised
          THEN Throw(r, "promised twice") /\ UNCHANGED msg_tail
          ELSE /\ msg_tail' = [msg_tail EXCEPT ![r] =
                     {IF d.idx = i THEN [d EXCEPT !.promised = @ \cup {s}] ELSE d
                        : d \in @}]
               /\ UNCHANGED err
       /\ UNCHANGED buffered_promises

PollPromises(r, s) ==
    /\ Ticks(r) /\ run_fast_path /\ s # r
    /\ \E i \in Readable(promises[s], polled_promises[r][s]) :
          /\ polled_promises' = [polled_promises EXCEPT ![r][s] = i + 1]
          /\ handlePromise(r, s, i)
    /\ UNCHANGED <<pathVars, next_index, acknowledged, promises, computeVars, checkVars,
                   pollVars>>

(* Everyone else promised. *)
pollablePromise_Mutant(r, d) == Cardinality(d.promised) + 1 >= Quorum
pollablePromise(r, d) == Replica \ {r} \subseteq d.promised

NextOf(r, next) ==
    LET first == Front(Indices(msg_tail[r])) IN
    IF next < first THEN first ELSE next

PollPromise(r) ==
    LET i == NextOf(r, next_promise[r]) IN
    /\ Ticks(r)
    /\ Found(r, i) /\ pollablePromise(r, DataOf(r, i))
    /\ next_promise' = [next_promise EXCEPT ![r] = i + 1]
    /\ promise_polls' = [promise_polls EXCEPT ![r] = @ \cup {i}]
    /\ UNCHANGED <<pathVars, tailVars, promiseVars, computeVars, checkVars,
                   next_certificate, certificates, err>>

-----------------------------------------------------------------------------
(* Computing shares *)

(* offloadShareComputation: each queued message becomes a task of the pool, *)
(* whose queue drops its oldest ones, and gets a place among the shares.    *)
OffloadShareComputation(r) ==
    LET queued == queued_share_computations[r]
        tasks == share_tasks[r] \cup queued
        last == CHOOSE i \in Indices(queued) : \A j \in Indices(queued) : j <= i
    IN
    /\ Ticks(r) /\ run_slow_path[r]
    /\ queued # {}
    /\ share_tasks' = [share_tasks EXCEPT ![r] =
          {t \in tasks : Cardinality({u \in tasks : u.idx > t.idx}) < TailSize}]
    /\ sorted_computed_shares' = [sorted_computed_shares EXCEPT ![r] =
          {e \in @ \cup {[idx |-> q.idx, share |-> {}] : q \in queued} :
              InTail(e.idx, last)}]
    /\ queued_share_computations' = [queued_share_computations EXCEPT ![r] = {}]
    /\ UNCHANGED <<pathVars, tailVars, promiseVars, computing, computed_shares, shares,
                   checkVars, pollVars, err>>

(* A worker takes the oldest task of the queue. *)
StartComputation(r) ==
    /\ Cardinality(computing[r]) < Workers
    /\ \E t \in share_tasks[r] :
          /\ \A u \in share_tasks[r] : t.idx <= u.idx
          /\ share_tasks' = [share_tasks EXCEPT ![r] = @ \ {t}]
          /\ computing' = [computing EXCEPT ![r] = @ \cup {t}]
    /\ UNCHANGED <<pathVars, tailVars, promiseVars, queued_share_computations,
                   computed_shares, sorted_computed_shares, shares, checkVars,
                   pollVars, err>>

(* A worker finishes, in any order. *)
FinishComputation(r) ==
    /\ \E t \in computing[r] :
          /\ computing' = [computing EXCEPT ![r] = @ \ {t}]
          /\ computed_shares' = [computed_shares EXCEPT ![r] = Append(@, t)]
    /\ UNCHANGED <<pathVars, tailVars, promiseVars, queued_share_computations, share_tasks,
                   sorted_computed_shares, shares, checkVars, pollVars, err>>

(* The shares that can go out: none is missing before them. *)
Sendable(places) ==
    {e \in places : \A d \in places : d.idx <= e.idx => d.share # {}}

(* pollComputedShares: computed shares take their places, places below the  *)
(* first message served are dropped, and the shares before the first gap    *)
(* are sent and counted as our own.                                         *)
PollComputedShares(r) ==
    LET computed == {computed_shares[r][k] : k \in 1 .. Len(computed_shares[r])}
        filled == {[idx |-> e.idx,
                    share |-> e.share \cup {c \in computed : c.idx = e.idx}] :
                      e \in sorted_computed_shares[r]}
        useful == {e \in filled : e.idx >= Front(Indices(msg_tail[r]))}
        out == Sendable(useful)
        sent == UNION {e.share : e \in out}
    IN
    /\ Ticks(r) /\ run_slow_path[r]
    /\ computed_shares[r] # << >> \/ useful # sorted_computed_shares[r]
    /\ computed_shares' = [computed_shares EXCEPT ![r] = << >>]
    /\ sorted_computed_shares' = [sorted_computed_shares EXCEPT ![r] = useful \ out]
    /\ shares' = [shares EXCEPT ![r] = @ \cup sent]
    /\ checking' = [checking EXCEPT ![r] =
          @ \cup {[from |-> r, share |-> sh, expected |-> sh.msg] : sh \in sent}]
    /\ UNCHANGED <<pathVars, tailVars, promiseVars, queued_share_computations, share_tasks,
                   computing, buffered_shares, check_tasks, polled_shares,
                   pollVars, err>>

-----------------------------------------------------------------------------
(* Verifying shares *)

(* A share is verified against our own message if we serve it, and buffered *)
(* otherwise.                                                               *)
handleShare(r, s, sh) ==
    \/ /\ Found(r, sh.idx)
       /\ check_tasks' = [check_tasks EXCEPT ![r][s] =
             Queued(@, s, sh, DataOf(r, sh.idx).msg)]
       /\ UNCHANGED <<buffered_shares, err>>
    \/ /\ ~Found(r, sh.idx)
       /\ IF \E b \in buffered_shares[r][s] : b.idx >= sh.idx
          THEN Throw(r, "shares out of order") /\ UNCHANGED buffered_shares
          ELSE /\ buffered_shares' = [buffered_shares EXCEPT ![r][s] =
                     Bounded(@ \cup {sh})]
               /\ UNCHANGED err
       /\ UNCHANGED check_tasks

(* pollShares, for one source. *)
PollShares(r, s) ==
    /\ Ticks(r) /\ run_slow_path[r] /\ s # r
    /\ \E sh \in shares[s] :
          /\ sh.idx \in Readable(Indices(shares[s]), polled_shares[r][s])
          /\ polled_shares' = [polled_shares EXCEPT ![r][s] = sh.idx + 1]
          /\ handleShare(r, s, sh)
    /\ UNCHANGED <<pathVars, tailVars, promiseVars, computeVars, checking, pollVars>>

(* A worker takes the oldest verification of a source.  When it finishes    *)
(* does not matter before pollVerifiedShares sees the result.               *)
StartCheck(r, s) ==
    /\ \E c \in check_tasks[r][s] :
          /\ \A d \in check_tasks[r][s] : c.share.idx <= d.share.idx
          /\ check_tasks' = [check_tasks EXCEPT ![r][s] = @ \ {c}]
          /\ checking' = [checking EXCEPT ![r] = @ \cup {c}]
    /\ UNCHANGED <<pathVars, tailVars, promiseVars, computeVars, buffered_shares,
                   polled_shares, pollVars, err>>

(* crypto.verify against the hash of our own message. *)
valid_Mutant(c) == TRUE
valid(c) == c.share.msg = c.expected

(* pollVerifiedShares, for one share. *)
PollVerifiedShare(r) ==
    /\ Ticks(r) /\ run_slow_path[r]
    /\ \E c \in checking[r] :
          LET i == c.share.idx IN
          /\ checking' = [checking EXCEPT ![r] = @ \ {c}]
          /\ \/ /\ ~valid(c)
                /\ Throw(r, "invalid share")
                /\ UNCHANGED msg_tail
             \/ /\ valid(c) /\ ~Found(r, i)
                /\ UNCHANGED <<msg_tail, err>>
             \/ /\ valid(c) /\ Found(r, i)
                /\ IF c.from \in DataOf(r, i).shares
                   THEN Throw(r, "share sent twice") /\ UNCHANGED msg_tail
                   ELSE /\ msg_tail' = [msg_tail EXCEPT ![r] =
                              {IF d.idx = i
                               THEN [d EXCEPT !.shares = @ \cup {c.from}] ELSE d
                                 : d \in @}]
                        /\ UNCHANGED err
    /\ UNCHANGED <<pathVars, next_index, acknowledged, promiseVars, computeVars,
                   buffered_shares, check_tasks, polled_shares, pollVars>>

(* pollCertificate: the certificate holds a quorum of the shares. *)
PollCertificate(r) ==
    LET i == NextOf(r, next_certificate[r])
        d == DataOf(r, i)
    IN
    /\ Ticks(r)
    /\ Found(r, i)
    /\ Cardinality(d.shares) >= Quorum
    /\ next_certificate' = [next_certificate EXCEPT ![r] = i + 1]
    /\ \E Q \in SUBSET d.shares :
          /\ Cardinality(Q) = Quorum
          /\ certificates' = [certificates EXCEPT ![r] =
                @ \cup {[idx |-> i, msg |-> d.msg, signers |-> Q]}]
    /\ UNCHANGED <<pathVars, tailVars, promiseVars, computeVars, checkVars, next_promise,
                   promise_polls, err>>

-----------------------------------------------------------------------------
Step(r) ==
    \/ \E i \in 0 .. MaxIndex - 1 :
          ForgetMessages(r, i) \/ \E m \in Message : Acknowledge(r, i, m)
    \/ ToggleSlowPath(r)
    \/ PollPromise(r)
    \/ OffloadShareComputation(r)
    \/ StartComputation(r)
    \/ FinishComputation(r)
    \/ PollComputedShares(r)
    \/ PollVerifiedShare(r)
    \/ PollCertificate(r)
    \/ \E s \in Replica : PollPromises(r, s) \/ PollShares(r, s) \/ StartCheck(r, s)

Next == \E r \in Replica : Step(r)

Spec == Init /\ [][Next]_vars

-----------------------------------------------------------------------------
(* Properties *)

(* No queue of the certifier outgrows the tail. *)
TailBounded ==
    \A r \in Replica :
        /\ \A q \in {msg_tail[r], queued_share_computations[r], share_tasks[r],
                     sorted_computed_shares[r]} : Cardinality(q) <= TailSize
        /\ \A s \in Replica :
              /\ Cardinality(buffered_promises[r][s]) <= TailSize
              /\ Cardinality(buffered_shares[r][s]) <= TailSize
              /\ Cardinality(check_tasks[r][s]) <= TailSize

(* Every variable has its type. *)
WellTyped ==
    /\ run_fast_path \in BOOLEAN
    /\ run_slow_path \in [Replica -> BOOLEAN]
    /\ msg_tail \in [Replica -> SUBSET MessageData]
    /\ next_index \in [Replica -> Nat]
    /\ buffered_promises \in [Replica -> [Replica -> SUBSET Nat]]
    /\ buffered_shares \in [Replica -> [Replica -> SUBSET Share]]
    /\ queued_share_computations \in [Replica -> SUBSET Share]
    /\ share_tasks \in [Replica -> SUBSET Share]
    /\ computing \in [Replica -> SUBSET Share]
    /\ computed_shares \in [Replica -> Seq(Share)]
    /\ sorted_computed_shares \in
          [Replica -> SUBSET [idx: Nat, share: SUBSET Share]]
    /\ check_tasks \in [Replica -> [Replica -> SUBSET Check]]
    /\ checking \in [Replica -> SUBSET Check]
    /\ next_promise \in [Replica -> Nat]
    /\ next_certificate \in [Replica -> Nat]
    /\ promises \in [Replica -> SUBSET Nat]
    /\ polled_promises \in [Replica -> [Replica -> Nat]]
    /\ shares \in [Replica -> SUBSET Share]
    /\ polled_shares \in [Replica -> [Replica -> Nat]]
    /\ acknowledged \in [Replica -> SUBSET Share]
    /\ promise_polls \in [Replica -> SUBSET Nat]
    /\ certificates \in [Replica -> SUBSET Certificate]
    /\ err \in [Replica -> Exception \cup {"ok"}]

(* Type invariant: every variable has its type and every queue its bound.   *)
TypeOK == WellTyped /\ TailBounded

(* A certificate holds the shares of a quorum of replicas, all of which     *)
(* acknowledged its very message: it passes check() at every replica.       *)
CertificateSound ==
    \A r \in Replica : \A c \in certificates[r] :
        /\ Cardinality(c.signers) = Quorum
        /\ \A s \in c.signers : [idx |-> c.idx, msg |-> c.msg] \in acknowledged[s]

(* What r counts as the promise of s for an index: s acknowledged it, or is *)
(* the leader, whose broadcast stands for its promise while it may still be *)
(* waiting for the requests.                                                *)
Committed(r, s, i) == (s = Leader /\ r # Leader) \/ i \in Indices(acknowledged[s])

(* pollPromise returns an index only when every other replica committed to  *)
(* it and the replica itself acknowledged it.                               *)
PromiseSound ==
    \A r, s \in Replica : \A i \in promise_polls[r] : Committed(r, s, i)

(* A replica is accused only if two replicas did acknowledge different      *)
(* messages at an index.                                                    *)
Conflict ==
    \E r, s \in Replica : \E a \in acknowledged[r], b \in acknowledged[s] :
        a.idx = b.idx /\ a.msg # b.msg
AlarmsAreReal ==
    \A r \in Replica : err[r] = "ok" \/ Conflict

(* The constructor's size of buffer_pool is enough for the messages on      *)
(* their way through the queues, the threads and the sorted shares:         *)
(* acknowledge never makes take, which is silent about it, allocate more.   *)
BuffersSuffice ==
    [][\A r \in Replica : next_index'[r] # next_index[r] =>
          TakenBuffers(r, queued_share_computations'[r], computed_shares'[r])
             <= PoolSize]_vars

(* A promise that reached us is counted for its message as long as we serve *)
(* it; the links lose one only when TailSize later ones were sent.              *)
Lagging(sent, i) == Cardinality({k \in sent : k > i}) >= TailSize
PromisesKept ==
    \A r, s \in Replica : \A d \in msg_tail[r] :
        d.idx \in promises[s] /\ r # s /\ Ok(r) =>
           \/ s \in d.promised
           \/ d.idx >= polled_promises[r][s]
           \/ Lagging(promises[s], d.idx)

(* Likewise for shares, which also wait for a verification.                 *)
SharesKept ==
    \A r, s \in Replica : \A d \in msg_tail[r] :
        d.idx \in Indices(shares[s]) /\ r # s /\ Ok(r) =>
           \/ s \in d.shares
           \/ d.idx >= polled_shares[r][s]
           \/ \E c \in check_tasks[r][s] \cup checking[r] :
                 c.from = s /\ c.share.idx = d.idx
           \/ Lagging(Indices(shares[s]), d.idx)

(* acknowledge only throws away useless shares: the share of a message that *)
(* we serve is in some queue, computed, or sent.                            *)
NoShareLost ==
    \A r \in Replica : \A d \in msg_tail[r] :
        LET sh == [idx |-> d.idx, msg |-> d.msg] IN
        Ok(r) =>
           \/ sh \in queued_share_computations[r] \cup share_tasks[r]
                       \cup computing[r] \cup shares[r]
           \/ \E k \in 1 .. Len(computed_shares[r]) : computed_shares[r][k] = sh
           \/ \E e \in sorted_computed_shares[r] : sh \in e.share
=============================================================================
