---------------------------- MODULE CertifierProofs ----------------------------
(***************************************************************************)
(* For every number of replicas, tail, pool and message: a certificate     *)
(* holds shares for its very message, and a promise polled is everyone's.  *)
(*                                                                         *)
(* Neither property is inductive.  Sound says where everything on its way  *)
(* comes from: whatever sits in a queue, a thread, a link or a message's   *)
(* data was acknowledged by the replica it is attributed to, and a replica *)
(* acknowledges an index once.  The last point is what makes a share that  *)
(* was verified against the message known when it was queued count for the *)
(* message found when the verification ends.                               *)
(***************************************************************************)
EXTENDS Certifier, SequenceTheorems, FiniteSetTheorems, TLAPS

Acked(r, i, m) == [idx |-> i, msg |-> m] \in acknowledged[r]

(* An index is acknowledged once. *)
AckedOnce(r) ==
    /\ \A a \in acknowledged[r] : a.idx < next_index[r]
    /\ \A a, b \in acknowledged[r] : a.idx = b.idx => a = b

(* What is served, and counted for it. *)
TailSound(r) ==
    \A d \in msg_tail[r] :
        /\ Acked(r, d.idx, d.msg)
        /\ \A s \in d.shares : Acked(s, d.idx, d.msg)
        /\ \A s \in d.promised : Committed(r, s, d.idx)

(* A replica only computes and sends shares of what it acknowledged. *)
ComputedSound(r) ==
    /\ queued_share_computations[r] \subseteq acknowledged[r]
    /\ share_tasks[r] \subseteq acknowledged[r]
    /\ computing[r] \subseteq acknowledged[r]
    /\ computed_shares[r] \in Seq(acknowledged[r])
    /\ \A e \in sorted_computed_shares[r] : e.share \subseteq acknowledged[r]
    /\ shares[r] \subseteq acknowledged[r]
    /\ promises[r] \subseteq Indices(acknowledged[r])

(* What a replica received from s was acknowledged by s. *)
CheckSound(r, c) ==
    /\ c.share \in acknowledged[c.from]
    /\ Acked(r, c.share.idx, c.expected)

ReceivedSound(r) ==
    /\ \A s \in Replica :
          /\ buffered_promises[r][s] \subseteq Indices(acknowledged[s])
          /\ buffered_shares[r][s] \subseteq acknowledged[s]
          /\ \A c \in check_tasks[r][s] : CheckSound(r, c)
    /\ \A c \in checking[r] : CheckSound(r, c)

PolledSound(r) ==
    /\ \A c \in certificates[r] :
          /\ Cardinality(c.signers) = Quorum
          /\ \A s \in c.signers : Acked(s, c.idx, c.msg)
    /\ \A s \in Replica : \A i \in promise_polls[r] : Committed(r, s, i)

SoundAt(r) ==
    AckedOnce(r) /\ TailSound(r) /\ ComputedSound(r) /\ ReceivedSound(r)
      /\ PolledSound(r)

Sound == \A r \in Replica : SoundAt(r)

-----------------------------------------------------------------------------
(* The specification starts in a state of the invariant. *)
LEMMA InitWellTyped == Init => WellTyped
BY CertifierAssumption
   DEF Init, WellTyped, MessageData, Share, Check, Certificate, Exception, Replica

LEMMA InitSound == Init => Sound
BY DEF Init, Sound, SoundAt, AckedOnce, TailSound, ComputedSound, ReceivedSound,
       PolledSound, Replica, Indices

-----------------------------------------------------------------------------
(* Emptying the queue of computed shares only drops some. *)
LEMMA EmptiedType ==
    ASSUME NEW S, NEW computed \in Seq(S)
    PROVE  Emptied(computed) \in Seq(S)
<1> DEFINE first == Len(computed) - TailSize + 2
<1>1. CASE Len(computed) < TailSize
  BY <1>1 DEF Emptied
<1>2. CASE ~(Len(computed) < TailSize)
  <2>1. first \in Int /\ Len(computed) \in Int /\ first >= 1
    BY <1>2, CertifierAssumption
  <2>2. \A k \in first .. Len(computed) : computed[k] \in S
    BY <2>1
  <2>3. SubSeq(computed, first, Len(computed)) \in Seq(S)
    <3> HIDE DEF first
    <3> QED BY <2>1, <2>2, SubSeqProperties
  <2> QED BY <1>2, <2>3 DEF Emptied
<1> QED BY <1>1, <1>2

(* An update of one link's entry keeps the type of all of them. *)
LEMMA LinkUpdate ==
    ASSUME NEW S, NEW f \in [Replica -> [Replica -> S]],
           NEW r \in Replica, NEW s \in Replica, NEW v \in S
    PROVE  [f EXCEPT ![r][s] = v] \in [Replica -> [Replica -> S]]
<1>1. [f[r] EXCEPT ![s] = v] \in [Replica -> S]
  OBVIOUS
<1> QED BY <1>1

LEMMA LinkEntry ==
    ASSUME NEW S, NEW f \in [Replica -> [Replica -> S]],
           NEW r \in Replica, NEW s \in Replica, NEW q \in Replica, NEW v
    PROVE  [f EXCEPT ![r][s] = v][r][q] = IF q = s THEN v ELSE f[r][q]
OBVIOUS

(* The message found at an index is served. *)
LEMMA DataOfFound ==
    ASSUME NEW r, NEW i, Found(r, i)
    PROVE  DataOf(r, i) \in msg_tail[r] /\ DataOf(r, i).idx = i
BY DEF Found, DataOf, Indices
-----------------------------------------------------------------------------
(* Every step preserves the types *)

LEMMA ToggleWellTyped ==
    ASSUME WellTyped, NEW r \in Replica, ToggleSlowPath(r)
    PROVE  WellTyped'
BY DEF WellTyped, ToggleSlowPath, tailVars, promiseVars, computeVars, checkVars,
       pollVars

LEMMA ForgetWellTyped ==
    ASSUME WellTyped, NEW r \in Replica, NEW i \in Nat, ForgetMessages(r, i)
    PROVE  WellTyped'
BY DEF WellTyped, ForgetMessages, pathVars, promiseVars, computeVars, checkVars,
       pollVars

LEMMA PollPromiseWellTyped ==
    ASSUME WellTyped, NEW r \in Replica, PollPromise(r)
    PROVE  WellTyped'
<1> DEFINE i == NextOf(r, next_promise[r])
<1>1. i \in Nat
  BY DataOfFound DEF PollPromise, WellTyped, MessageData
<1>2. next_promise' \in [Replica -> Nat] /\ promise_polls' \in [Replica -> SUBSET Nat]
  BY <1>1 DEF PollPromise, WellTyped
<1> QED
  BY <1>2 DEF WellTyped, PollPromise, pathVars, tailVars, promiseVars, computeVars,
       checkVars

LEMMA PollCertificateWellTyped ==
    ASSUME WellTyped, NEW r \in Replica, PollCertificate(r)
    PROVE  WellTyped'
<1> DEFINE i == NextOf(r, next_certificate[r])
<1> DEFINE d == DataOf(r, i)
<1>1. d \in MessageData /\ d.idx = i
  BY DataOfFound DEF PollCertificate, WellTyped
<1>2. i \in Nat
  BY <1>1 DEF MessageData
<1>3. next_certificate' \in [Replica -> Nat]
  BY <1>2 DEF PollCertificate, WellTyped
<1>4. PICK Q \in SUBSET d.shares :
         certificates' = [certificates EXCEPT ![r] =
            @ \cup {[idx |-> i, msg |-> d.msg, signers |-> Q]}]
  BY DEF PollCertificate
<1>5. [idx |-> i, msg |-> d.msg, signers |-> Q] \in Certificate
  BY <1>1, <1>2 DEF MessageData, Certificate
<1>6. certificates' \in [Replica -> SUBSET Certificate]
  BY <1>4, <1>5 DEF WellTyped
<1> QED
  BY <1>3, <1>6 DEF WellTyped, PollCertificate, pathVars, tailVars, promiseVars,
       computeVars, checkVars

LEMMA OffloadWellTyped ==
    ASSUME WellTyped, NEW r \in Replica, OffloadShareComputation(r)
    PROVE  WellTyped'
<1>1. share_tasks' \in [Replica -> SUBSET Share]
  BY DEF OffloadShareComputation, WellTyped
<1>2. \A q \in queued_share_computations[r] :
         [idx |-> q.idx, share |-> {}] \in [idx: Nat, share: SUBSET Share]
  BY DEF WellTyped, Share
<1>3. sorted_computed_shares' \in [Replica -> SUBSET [idx: Nat, share: SUBSET Share]]
  BY <1>2 DEF OffloadShareComputation, WellTyped
<1>4. queued_share_computations' \in [Replica -> SUBSET Share]
  BY DEF OffloadShareComputation, WellTyped
<1> QED
  BY <1>1, <1>3, <1>4 DEF WellTyped, OffloadShareComputation, pathVars, tailVars,
       promiseVars, checkVars, pollVars

LEMMA StartWellTyped ==
    ASSUME WellTyped, NEW r \in Replica, StartComputation(r)
    PROVE  WellTyped'
<1>1. PICK t \in share_tasks[r] :
         /\ share_tasks' = [share_tasks EXCEPT ![r] = @ \ {t}]
         /\ computing' = [computing EXCEPT ![r] = @ \cup {t}]
  BY DEF StartComputation
<1>2. share_tasks' \in [Replica -> SUBSET Share] /\ computing' \in [Replica -> SUBSET Share]
  BY <1>1 DEF WellTyped
<1> QED
  BY <1>2 DEF WellTyped, StartComputation, pathVars, tailVars, promiseVars, checkVars,
       pollVars

LEMMA FinishWellTyped ==
    ASSUME WellTyped, NEW r \in Replica, FinishComputation(r)
    PROVE  WellTyped'
<1>1. PICK t \in computing[r] :
         /\ computing' = [computing EXCEPT ![r] = @ \ {t}]
         /\ computed_shares' = [computed_shares EXCEPT ![r] = Append(@, t)]
  BY DEF FinishComputation
<1>2. Append(computed_shares[r], t) \in Seq(Share)
  BY <1>1 DEF WellTyped
<1> QED
  BY <1>1, <1>2 DEF WellTyped, FinishComputation, pathVars, tailVars, promiseVars,
       checkVars, pollVars

LEMMA StartCheckWellTyped ==
    ASSUME WellTyped, NEW r \in Replica, NEW s \in Replica, StartCheck(r, s)
    PROVE  WellTyped'
<1>1. PICK c \in check_tasks[r][s] :
         /\ check_tasks' = [check_tasks EXCEPT ![r][s] = @ \ {c}]
         /\ checking' = [checking EXCEPT ![r] = @ \cup {c}]
  BY DEF StartCheck
<1>2. /\ check_tasks' \in [Replica -> [Replica -> SUBSET Check]]
      /\ checking' \in [Replica -> SUBSET Check]
  BY SMTT(20), <1>1 DEF WellTyped
<1> QED
  BY <1>2 DEF WellTyped, StartCheck, pathVars, tailVars, promiseVars, computeVars,
       pollVars

LEMMA PollComputedWellTyped ==
    ASSUME WellTyped, NEW r \in Replica, PollComputedShares(r)
    PROVE  WellTyped'
<1> DEFINE computed == {computed_shares[r][k] : k \in 1 .. Len(computed_shares[r])}
<1> DEFINE filled == {[idx |-> e.idx,
                       share |-> e.share \cup {c \in computed : c.idx = e.idx}] :
                        e \in sorted_computed_shares[r]}
<1> DEFINE useful == {e \in filled : e.idx >= Front(Indices(msg_tail[r]))}
<1> DEFINE out == Sendable(useful)
<1> DEFINE sent == UNION {e.share : e \in out}
<1> DEFINE own == {[from |-> r, share |-> sh, expected |-> sh.msg] : sh \in sent}
<1>1. computed \subseteq Share
  BY DEF WellTyped
<1>2. filled \subseteq [idx: Nat, share: SUBSET Share]
  <2> HIDE DEF computed
  <2> QED BY <1>1 DEF WellTyped
<1>3. useful \subseteq [idx: Nat, share: SUBSET Share]
  <2> HIDE DEF filled
  <2> QED BY <1>2
<1> HIDE DEF useful
<1>4. out \subseteq useful
  BY DEF Sendable
<1> HIDE DEF out
<1>5. sent \subseteq Share
  BY <1>3, <1>4
<1> HIDE DEF sent
<1>6. own \subseteq Check
  BY <1>5 DEF Check, Share
<1> HIDE DEF own
<1>7. /\ computed_shares' = [computed_shares EXCEPT ![r] = << >>]
      /\ sorted_computed_shares' = [sorted_computed_shares EXCEPT ![r] = useful \ out]
      /\ shares' = [shares EXCEPT ![r] = @ \cup sent]
      /\ checking' = [checking EXCEPT ![r] = @ \cup own]
  BY DEF PollComputedShares, useful, out, sent, own
<1>8. computed_shares' \in [Replica -> Seq(Share)]
  BY <1>7 DEF WellTyped
<1>9. sorted_computed_shares' \in [Replica -> SUBSET [idx: Nat, share: SUBSET Share]]
  BY <1>3, <1>7 DEF WellTyped
<1>10. shares' \in [Replica -> SUBSET Share] /\ checking' \in [Replica -> SUBSET Check]
  BY <1>5, <1>6, <1>7 DEF WellTyped
<1> QED
  BY <1>8, <1>9, <1>10 DEF WellTyped, PollComputedShares, pathVars, tailVars,
       promiseVars, pollVars

LEMMA QueuedType ==
    ASSUME NEW tasks \in SUBSET Check, NEW s \in Replica, NEW sh \in Share,
           NEW m \in Message
    PROVE  Queued(tasks, s, sh, m) \in SUBSET Check
BY DEF Queued, Check

LEMMA PollSharesWellTyped ==
    ASSUME WellTyped, NEW r \in Replica, NEW s \in Replica, PollShares(r, s)
    PROVE  WellTyped'
<1>1. PICK sh \in shares[s] :
         /\ polled_shares' = [polled_shares EXCEPT ![r][s] = sh.idx + 1]
         /\ handleShare(r, s, sh)
  BY DEF PollShares
<1>2. sh \in Share /\ sh.idx \in Nat
  BY DEF WellTyped, Share
<1>3. polled_shares' \in [Replica -> [Replica -> Nat]]
  <2>1. sh.idx + 1 \in Nat
    BY <1>2
  <2> QED BY <1>1, <2>1, LinkUpdate DEF WellTyped
<1>4. /\ check_tasks' \in [Replica -> [Replica -> SUBSET Check]]
      /\ buffered_shares' \in [Replica -> [Replica -> SUBSET Share]]
      /\ err' \in [Replica -> Exception \cup {"ok"}]
  <2>1. CASE Found(r, sh.idx)
    <3>1. DataOf(r, sh.idx).msg \in Message
      BY <2>1, DataOfFound DEF WellTyped, MessageData
    <3>2. Queued(check_tasks[r][s], s, sh, DataOf(r, sh.idx).msg) \in SUBSET Check
      BY SMTT(20), <3>1, <1>2, QueuedType DEF WellTyped
    <3>3. /\ check_tasks' = [check_tasks EXCEPT ![r][s] =
                Queued(check_tasks[r][s], s, sh, DataOf(r, sh.idx).msg)]
          /\ UNCHANGED <<buffered_shares, err>>
      BY <1>1, <2>1 DEF WellTyped, handleShare
    <3> QED
      BY <3>2, <3>3, LinkUpdate DEF WellTyped
  <2>2. CASE ~Found(r, sh.idx)
    <3>1. CASE \E b \in buffered_shares[r][s] : b.idx >= sh.idx
      BY <1>1, <2>2, <3>1 DEF WellTyped, handleShare, Throw, Exception
    <3>2. CASE ~\E b \in buffered_shares[r][s] : b.idx >= sh.idx
      <4>1. Bounded(buffered_shares[r][s] \cup {sh}) \in SUBSET Share
        BY SMTT(20), <1>2 DEF WellTyped, Bounded
      <4>2. /\ buffered_shares' = [buffered_shares EXCEPT ![r][s] =
                  Bounded(buffered_shares[r][s] \cup {sh})]
            /\ UNCHANGED <<check_tasks, err>>
        BY <1>1, <2>2, <3>2 DEF WellTyped, handleShare
      <4> QED
        BY <4>1, <4>2, LinkUpdate DEF WellTyped
    <3> QED BY <3>1, <3>2
  <2> QED BY <2>1, <2>2
<1> QED
  BY <1>3, <1>4 DEF WellTyped, PollShares, pathVars, tailVars, promiseVars,
       computeVars, pollVars

LEMMA PollPromisesWellTyped ==
    ASSUME WellTyped, NEW r \in Replica, NEW s \in Replica, PollPromises(r, s)
    PROVE  WellTyped'
<1>1. PICK i \in promises[s] :
         /\ polled_promises' = [polled_promises EXCEPT ![r][s] = i + 1]
         /\ handlePromise(r, s, i)
  BY DEF PollPromises, Readable
<1>2. i \in Nat
  BY DEF WellTyped
<1>3. polled_promises' \in [Replica -> [Replica -> Nat]]
  <2>1. i + 1 \in Nat
    BY <1>2
  <2> QED BY <1>1, <2>1, LinkUpdate DEF WellTyped
<1>4. /\ msg_tail' \in [Replica -> SUBSET MessageData]
      /\ buffered_promises' \in [Replica -> [Replica -> SUBSET Nat]]
      /\ err' \in [Replica -> Exception \cup {"ok"}]
  <2>1. CASE ~Found(r, i)
    <3>1. CASE \E j \in buffered_promises[r][s] : j >= i
      BY <1>1, <2>1, <3>1 DEF WellTyped, handlePromise, Throw, Exception
    <3>2. CASE ~\E j \in buffered_promises[r][s] : j >= i
      <4>1. BoundedIndices(buffered_promises[r][s] \cup {i}) \in SUBSET Nat
        BY SMTT(20), <1>2 DEF WellTyped, BoundedIndices
      <4>2. /\ buffered_promises' = [buffered_promises EXCEPT ![r][s] =
                  BoundedIndices(buffered_promises[r][s] \cup {i})]
            /\ UNCHANGED <<msg_tail, err>>
        BY <1>1, <2>1, <3>2 DEF WellTyped, handlePromise
      <4> QED
        BY <4>1, <4>2, LinkUpdate DEF WellTyped
    <3> QED BY <3>1, <3>2
  <2>2. CASE Found(r, i)
    <3>1. CASE s \in DataOf(r, i).promised
      BY <1>1, <2>2, <3>1 DEF WellTyped, handlePromise, Throw, Exception
    <3>2. CASE s \notin DataOf(r, i).promised
      <4>1. \A d \in MessageData : [d EXCEPT !.promised = @ \cup {s}] \in MessageData
        BY DEF MessageData
      <4>2. /\ msg_tail' = [msg_tail EXCEPT ![r] =
                  {IF d.idx = i THEN [d EXCEPT !.promised = @ \cup {s}] ELSE d
                     : d \in msg_tail[r]}]
            /\ UNCHANGED <<buffered_promises, err>>
        BY <1>1, <2>2, <3>2 DEF WellTyped, handlePromise
      <4>3. {IF d.idx = i THEN [d EXCEPT !.promised = @ \cup {s}] ELSE d
                     : d \in msg_tail[r]} \in SUBSET MessageData
        BY <4>1 DEF WellTyped
      <4> QED
        BY <4>2, <4>3 DEF WellTyped
    <3> QED BY <3>1, <3>2
  <2> QED BY <2>1, <2>2
<1> QED
  BY <1>3, <1>4 DEF WellTyped, PollPromises, pathVars, computeVars, checkVars, pollVars

LEMMA PollVerifiedWellTyped ==
    ASSUME WellTyped, NEW r \in Replica, PollVerifiedShare(r)
    PROVE  WellTyped'
<1>1. PICK c \in checking[r] :
         /\ checking' = [checking EXCEPT ![r] = @ \ {c}]
         /\ \/ Throw(r, "invalid share") /\ UNCHANGED msg_tail
            \/ Throw(r, "share sent twice") /\ UNCHANGED msg_tail
            \/ UNCHANGED <<msg_tail, err>>
            \/ /\ msg_tail' = [msg_tail EXCEPT ![r] =
                     {IF d.idx = c.share.idx
                      THEN [d EXCEPT !.shares = @ \cup {c.from}] ELSE d : d \in @}]
               /\ UNCHANGED err
  BY DEF PollVerifiedShare
<1>2. \A d \in MessageData : [d EXCEPT !.shares = @ \cup {c.from}] \in MessageData
  <2>1. c.from \in Replica
    BY DEF WellTyped, Check
  <2> QED BY <2>1 DEF MessageData
<1>3. msg_tail' \in [Replica -> SUBSET MessageData]
  <2>1. {IF d.idx = c.share.idx THEN [d EXCEPT !.shares = @ \cup {c.from}] ELSE d
           : d \in msg_tail[r]} \in SUBSET MessageData
    BY <1>2 DEF WellTyped
  <2> QED BY ZenonT(30), <1>1, <2>1 DEF WellTyped
<1>4. err' \in [Replica -> Exception \cup {"ok"}]
  BY <1>1 DEF WellTyped, Throw, Exception
<1>5. checking' \in [Replica -> SUBSET Check]
  BY <1>1 DEF WellTyped
<1> QED
  BY <1>3, <1>4, <1>5 DEF WellTyped, PollVerifiedShare, pathVars, promiseVars,
       computeVars, pollVars

LEMMA AcknowledgeWellTyped ==
    ASSUME WellTyped, NEW r \in Replica, NEW i \in Nat, NEW m \in Message,
           Acknowledge(r, i, m)
    PROVE  WellTyped'
<1> DEFINE promised == {s \in Replica : i \in buffered_promises[r][s]}
<1> DEFINE new == [idx |-> i, msg |-> m, shares |-> {},
                   promised |-> IF run_fast_path
                                THEN promised \cup ({Leader} \ {r}) ELSE {}]
<1> DEFINE replayed(s) == {sh \in buffered_shares[r][s] : sh.idx = i}
<1> DEFINE queued == LET Q == queued_share_computations[r] IN
                     IF Cardinality(Q) + 1 > TailSize THEN Q \ {First(Q)} ELSE Q
<1>0. [idx |-> i, msg |-> m] \in Share
  BY DEF Share
<1>1. new \in MessageData
  BY CertifierAssumption DEF MessageData
<1>2. msg_tail' \in [Replica -> SUBSET MessageData]
  <2> HIDE DEF new
  <2>1. msg_tail' = [msg_tail EXCEPT ![r] =
           {d \in msg_tail[r] : InTail(d.idx, i)} \cup {new}]
    BY DEF Acknowledge, new, WellTyped
  <2> QED BY <1>1, <2>1 DEF WellTyped
<1>3. /\ next_index' \in [Replica -> Nat]
      /\ acknowledged' \in [Replica -> SUBSET Share]
      /\ promises' \in [Replica -> SUBSET Nat]
  <2>1. /\ next_index' = [next_index EXCEPT ![r] = i + 1]
        /\ acknowledged' = [acknowledged EXCEPT ![r] =
              acknowledged[r] \cup {[idx |-> i, msg |-> m]}]
        /\ promises' = [promises EXCEPT ![r] =
              IF Promises(r) THEN promises[r] \cup {i} ELSE promises[r]]
    BY DEF Acknowledge, WellTyped
  <2> QED BY <1>0, <2>1 DEF WellTyped
<1>4. buffered_promises' \in [Replica -> [Replica -> SUBSET Nat]]
  <2> DEFINE later == [s \in Replica |-> IF run_fast_path
                        THEN {j \in buffered_promises[r][s] : j > i}
                        ELSE buffered_promises[r][s]]
  <2>1. later \in [Replica -> SUBSET Nat]
    BY SMTT(20) DEF WellTyped
  <2>2. buffered_promises' = [buffered_promises EXCEPT ![r] = later]
    BY DEF Acknowledge, WellTyped
  <2> HIDE DEF later
  <2> QED BY <2>1, <2>2 DEF WellTyped
<1>5. buffered_shares' \in [Replica -> [Replica -> SUBSET Share]]
  <2> DEFINE later == [s \in Replica |-> {sh \in buffered_shares[r][s] : sh.idx > i}]
  <2>1. later \in [Replica -> SUBSET Share]
    BY DEF WellTyped
  <2>2. buffered_shares' = [buffered_shares EXCEPT ![r] = later]
    BY DEF Acknowledge, WellTyped
  <2> HIDE DEF later
  <2> QED BY <2>1, <2>2 DEF WellTyped
<1>6. check_tasks' \in [Replica -> [Replica -> SUBSET Check]]
  <2> DEFINE tasks(s) == IF replayed(s) = {} THEN check_tasks[r][s]
                         ELSE Queued(check_tasks[r][s], s,
                                     CHOOSE sh \in replayed(s) : TRUE, m)
  <2>1. ASSUME NEW s \in Replica
        PROVE  tasks(s) \in SUBSET Check
    <3>1. replayed(s) # {} => (CHOOSE sh \in replayed(s) : TRUE) \in replayed(s)
      OBVIOUS
    <3>2. replayed(s) \subseteq Share /\ check_tasks[r][s] \in SUBSET Check
      BY SMTT(20) DEF WellTyped
    <3> QED BY <3>1, <3>2, QueuedType
  <2>2. check_tasks' = [check_tasks EXCEPT ![r] = [s \in Replica |-> tasks(s)]]
    BY DEF Acknowledge, WellTyped
  <2> HIDE DEF tasks
  <2> QED BY <2>1, <2>2 DEF WellTyped
<1>7. computed_shares' \in [Replica -> Seq(Share)]
  <2>1. Emptied(computed_shares[r]) \in Seq(Share)
    BY EmptiedType DEF WellTyped
  <2> QED BY <2>1 DEF Acknowledge, WellTyped
<1>8. /\ queued_share_computations' \in [Replica -> SUBSET Share]
      /\ err' \in [Replica -> Exception \cup {"ok"}]
  <2>1. queued \in SUBSET Share
    BY DEF WellTyped
  <2> HIDE DEF queued
  <2>2. queued_share_computations' = [queued_share_computations EXCEPT
           ![r] = queued \cup {[idx |-> i, msg |-> m]}]
    BY DEF Acknowledge, queued
  <2>3. queued \cup {[idx |-> i, msg |-> m]} \in SUBSET Share
    BY <1>0, <2>1
  <2>5. queued_share_computations' \in [Replica -> SUBSET Share]
    <3>1. queued_share_computations \in [Replica -> SUBSET Share]
      BY DEF WellTyped
    <3>2. \E Q \in SUBSET Share :
             queued_share_computations' = [queued_share_computations EXCEPT ![r] = Q]
      BY <2>1, <2>2, <2>3
    <3> QED BY <3>1, <3>2
  <2>4. err' \in [Replica -> Exception \cup {"ok"}]
    BY DEF Acknowledge, WellTyped
  <2> QED BY <2>4, <2>5
<1> QED
  BY <1>2, <1>3, <1>4, <1>5, <1>6, <1>7, <1>8
     DEF WellTyped, Acknowledge, pathVars, pollVars

LEMMA NextWellTyped == WellTyped /\ [Next]_vars => WellTyped'
<1> SUFFICES ASSUME WellTyped, [Next]_vars
             PROVE  WellTyped'
  OBVIOUS
<1>1. CASE UNCHANGED vars
  BY <1>1 DEF WellTyped, vars, pathVars, tailVars, promiseVars, computeVars,
              checkVars, pollVars
<1>2. CASE Next
  <2>1. PICK r \in Replica : Step(r)
    BY <1>2 DEF Next
  <2>2. 0 .. MaxIndex - 1 \subseteq Nat
    BY CertifierAssumption
  <2> QED
    BY <2>1, <2>2, ForgetWellTyped, AcknowledgeWellTyped, ToggleWellTyped,
       PollPromiseWellTyped, OffloadWellTyped, StartWellTyped, FinishWellTyped,
       PollComputedWellTyped, PollVerifiedWellTyped, PollCertificateWellTyped,
       PollPromisesWellTyped, PollSharesWellTyped, StartCheckWellTyped
       DEF Step
<1> QED BY <1>1, <1>2

-----------------------------------------------------------------------------
(* What a step leaves alone stays sound while acknowledgements accumulate *)

Grows == \A s \in Replica : acknowledged[s] \subseteq acknowledged'[s]

LEMMA AckKept ==
    ASSUME NEW q \in Replica, AckedOnce(q), next_index'[q] = next_index[q],
           acknowledged'[q] = acknowledged[q]
    PROVE  AckedOnce(q)'
BY DEF AckedOnce

LEMMA TailKept ==
    ASSUME WellTyped, NEW q \in Replica, TailSound(q), Grows,
           msg_tail'[q] \subseteq msg_tail[q]
    PROVE  TailSound(q)'
<1> SUFFICES ASSUME NEW d \in msg_tail[q]
             PROVE  /\ Acked(q, d.idx, d.msg)'
                    /\ \A s \in d.shares : Acked(s, d.idx, d.msg)'
                    /\ \A s \in d.promised : Committed(q, s, d.idx)'
  BY DEF TailSound
<1>1. d.shares \subseteq Replica /\ d.promised \subseteq Replica
  BY DEF WellTyped, MessageData
<1> QED BY <1>1 DEF TailSound, Acked, Grows, Indices, Committed

LEMMA ComputedKept ==
    ASSUME WellTyped, NEW q \in Replica, ComputedSound(q), Grows,
           queued_share_computations'[q] = queued_share_computations[q],
           share_tasks'[q] = share_tasks[q], computing'[q] = computing[q],
           computed_shares'[q] = computed_shares[q],
           sorted_computed_shares'[q] = sorted_computed_shares[q],
           shares'[q] = shares[q], promises'[q] = promises[q]
    PROVE  ComputedSound(q)'
<1>1. acknowledged[q] \subseteq acknowledged'[q]
  BY DEF Grows
<1>2. computed_shares[q] \in Seq(acknowledged'[q])
  BY <1>1 DEF ComputedSound
<1>3. \A e \in sorted_computed_shares[q] : e.share \subseteq acknowledged'[q]
  BY <1>1 DEF ComputedSound
<1>4. promises[q] \subseteq Indices(acknowledged'[q])
  BY <1>1 DEF ComputedSound, Indices
<1> QED BY <1>1, <1>2, <1>3, <1>4 DEF ComputedSound

LEMMA CheckKept ==
    ASSUME NEW q \in Replica, NEW c \in Check, CheckSound(q, c), Grows
    PROVE  CheckSound(q, c)'
BY DEF CheckSound, Acked, Grows, Check

LEMMA ReceivedKept ==
    ASSUME WellTyped, NEW q \in Replica, ReceivedSound(q), Grows,
           buffered_promises'[q] = buffered_promises[q],
           buffered_shares'[q] = buffered_shares[q],
           check_tasks'[q] = check_tasks[q], checking'[q] = checking[q]
    PROVE  ReceivedSound(q)'
<1>1. ASSUME NEW s \in Replica
      PROVE  /\ buffered_promises[q][s] \subseteq Indices(acknowledged'[s])
             /\ buffered_shares[q][s] \subseteq acknowledged'[s]
  BY DEF ReceivedSound, Grows, Indices
<1>2. \A s \in Replica : \A c \in check_tasks[q][s] : CheckSound(q, c)'
  BY CheckKept DEF WellTyped, ReceivedSound
<1>3. \A c \in checking[q] : CheckSound(q, c)'
  BY CheckKept DEF WellTyped, ReceivedSound
<1> QED BY <1>1, <1>2, <1>3 DEF ReceivedSound

LEMMA PolledKept ==
    ASSUME WellTyped, NEW q \in Replica, PolledSound(q), Grows,
           certificates'[q] = certificates[q], promise_polls'[q] = promise_polls[q]
    PROVE  PolledSound(q)'
<1>1. ASSUME NEW c \in certificates[q]
      PROVE  /\ Cardinality(c.signers) = Quorum
             /\ \A s \in c.signers : Acked(s, c.idx, c.msg)'
  <2>1. c.signers \subseteq Replica
    BY DEF WellTyped, Certificate
  <2> QED BY <2>1 DEF PolledSound, Acked, Grows
<1>2. \A s \in Replica : \A i \in promise_polls[q] : Committed(q, s, i)'
  BY DEF PolledSound, Grows, Indices, Committed
<1> QED BY <1>1, <1>2 DEF PolledSound

(* A step of r leaves every other replica q sound. *)
LEMMA OthersSound ==
    ASSUME WellTyped, Sound, NEW r \in Replica, Step(r), NEW q \in Replica, q # r
    PROVE  SoundAt(q)'
<1>1. /\ msg_tail'[q] = msg_tail[q] /\ next_index'[q] = next_index[q]
      /\ acknowledged'[q] = acknowledged[q] /\ Grows
      /\ queued_share_computations'[q] = queued_share_computations[q]
      /\ share_tasks'[q] = share_tasks[q] /\ computing'[q] = computing[q]
      /\ computed_shares'[q] = computed_shares[q]
      /\ sorted_computed_shares'[q] = sorted_computed_shares[q]
      /\ shares'[q] = shares[q] /\ promises'[q] = promises[q]
      /\ buffered_promises'[q] = buffered_promises[q]
      /\ buffered_shares'[q] = buffered_shares[q]
      /\ check_tasks'[q] = check_tasks[q] /\ checking'[q] = checking[q]
      /\ certificates'[q] = certificates[q] /\ promise_polls'[q] = promise_polls[q]
  <2> USE DEF WellTyped, Grows, pathVars, tailVars, promiseVars, computeVars,
              checkVars, pollVars
  <2>1. CASE \E i \in 0 .. MaxIndex - 1 : ForgetMessages(r, i)
    BY <2>1 DEF ForgetMessages
  <2>2. CASE \E i \in 0 .. MaxIndex - 1 : \E m \in Message : Acknowledge(r, i, m)
    <3>1. PICK i \in 0 .. MaxIndex - 1, m \in Message : Acknowledge(r, i, m)
      BY <2>2
    <3> QED BY <3>1 DEF Acknowledge
  <2>3. CASE ToggleSlowPath(r)
    BY <2>3 DEF ToggleSlowPath
  <2>4. CASE PollPromise(r)
    BY <2>4 DEF PollPromise
  <2>5. CASE OffloadShareComputation(r)
    BY <2>5 DEF OffloadShareComputation
  <2>6. CASE StartComputation(r)
    BY <2>6 DEF StartComputation
  <2>7. CASE FinishComputation(r)
    BY <2>7 DEF FinishComputation
  <2>8. CASE PollComputedShares(r)
    BY <2>8 DEF PollComputedShares
  <2>9. CASE PollVerifiedShare(r)
    BY ZenonT(30), <2>9 DEF PollVerifiedShare
  <2>10. CASE PollCertificate(r)
    BY <2>10 DEF PollCertificate
  <2>11. CASE \E s \in Replica : PollPromises(r, s)
    <3>1. PICK s \in Replica : PollPromises(r, s)
      BY <2>11
    <3>2. PICK i : handlePromise(r, s, i)
      BY <3>1 DEF PollPromises
    <3>3. msg_tail'[q] = msg_tail[q] /\ buffered_promises'[q] = buffered_promises[q]
      BY <3>2 DEF handlePromise
    <3> QED BY <3>1, <3>3 DEF PollPromises
  <2>12. CASE \E s \in Replica : PollShares(r, s)
    <3>1. PICK s \in Replica : PollShares(r, s)
      BY <2>12
    <3>2. PICK sh : handleShare(r, s, sh)
      BY <3>1 DEF PollShares
    <3>3. check_tasks'[q] = check_tasks[q] /\ buffered_shares'[q] = buffered_shares[q]
      BY <3>2 DEF handleShare
    <3> QED BY <3>1, <3>3 DEF PollShares
  <2>13. CASE \E s \in Replica : StartCheck(r, s)
    BY <2>13 DEF StartCheck
  <2> QED
    BY <2>1, <2>2, <2>3, <2>4, <2>5, <2>6, <2>7, <2>8, <2>9, <2>10, <2>11, <2>12,
       <2>13 DEF Step
<1>2. SoundAt(q)
  BY DEF Sound
<1> QED
  BY <1>1, <1>2, AckKept, TailKept, ComputedKept, ReceivedKept, PolledKept
     DEF SoundAt

-----------------------------------------------------------------------------
(* A step keeps the replica that takes it sound *)

LEMMA ForgetSound ==
    ASSUME WellTyped, Sound, NEW r \in Replica, NEW i \in Nat, ForgetMessages(r, i)
    PROVE  SoundAt(r)'
<1>1. SoundAt(r) /\ Grows /\ msg_tail'[r] \subseteq msg_tail[r]
  BY DEF Sound, ForgetMessages, Grows, WellTyped
<1> QED
  BY <1>1, AckKept, TailKept, ComputedKept, ReceivedKept, PolledKept
     DEF SoundAt, ForgetMessages, promiseVars, computeVars, checkVars, pollVars

LEMMA ToggleSound ==
    ASSUME WellTyped, Sound, NEW r \in Replica, ToggleSlowPath(r)
    PROVE  SoundAt(r)'
<1>1. SoundAt(r) /\ Grows
  BY DEF Sound, ToggleSlowPath, Grows, tailVars
<1> QED
  BY <1>1, AckKept, TailKept, ComputedKept, ReceivedKept, PolledKept
     DEF SoundAt, ToggleSlowPath, tailVars, promiseVars, computeVars, checkVars,
         pollVars

(* Everyone else promised and the message is our own. *)
LEMMA PollPromiseSound ==
    ASSUME WellTyped, Sound, NEW r \in Replica, PollPromise(r)
    PROVE  SoundAt(r)'
<1> DEFINE i == NextOf(r, next_promise[r])
<1>1. SoundAt(r) /\ Grows
  BY DEF Sound, PollPromise, Grows, tailVars
<1>2. DataOf(r, i) \in msg_tail[r] /\ DataOf(r, i).idx = i
  BY DataOfFound DEF PollPromise
<1>3. Replica \ {r} \subseteq DataOf(r, i).promised
  BY DEF PollPromise, pollablePromise
<1> HIDE DEF i
<1>4. \A s \in Replica : Committed(r, s, i)
  <2>1. Acked(r, DataOf(r, i).idx, DataOf(r, i).msg)
    BY <1>1, <1>2 DEF SoundAt, TailSound
  <2>2. i \in Indices(acknowledged[r])
    BY <1>2, <2>1 DEF Acked, Indices
  <2>3. \A s \in DataOf(r, i).promised : Committed(r, s, i)
    BY <1>1, <1>2 DEF SoundAt, TailSound
  <2> QED BY <1>3, <2>2, <2>3 DEF Committed
<1>5. PolledSound(r)'
  <2>1. promise_polls' = [promise_polls EXCEPT ![r] = @ \cup {i}]
    BY DEF PollPromise, i
  <2>2. acknowledged' = acknowledged /\ certificates' = certificates
    BY DEF PollPromise, tailVars
  <2>3. \A s \in Replica : \A j \in promise_polls'[r] : Committed(r, s, j)
    BY <1>1, <1>4, <2>1 DEF SoundAt, PolledSound, WellTyped
  <2> QED BY <1>1, <2>2, <2>3 DEF SoundAt, PolledSound, Acked, Committed
<1> QED
  BY <1>1, <1>5, AckKept, TailKept, ComputedKept, ReceivedKept
     DEF SoundAt, PollPromise, tailVars, promiseVars, computeVars, checkVars

(* The shares counted for a message are shares of that very message. *)
LEMMA PollCertificateSound ==
    ASSUME WellTyped, Sound, NEW r \in Replica, PollCertificate(r)
    PROVE  SoundAt(r)'
<1> DEFINE i == NextOf(r, next_certificate[r])
<1> DEFINE d == DataOf(r, i)
<1>1. SoundAt(r) /\ Grows
  BY DEF Sound, PollCertificate, Grows, tailVars
<1>2. d \in msg_tail[r] /\ d.idx = i
  BY DataOfFound DEF PollCertificate
<1>3. PICK Q \in SUBSET d.shares :
         /\ Cardinality(Q) = Quorum
         /\ certificates' = [certificates EXCEPT ![r] =
               @ \cup {[idx |-> i, msg |-> d.msg, signers |-> Q]}]
  BY DEF PollCertificate
<1> HIDE DEF d, i
<1>4. \A s \in Q : Acked(s, i, d.msg)
  BY <1>1, <1>2 DEF SoundAt, TailSound
<1>5. PolledSound(r)'
  <2>1. acknowledged' = acknowledged /\ promise_polls' = promise_polls
    BY DEF PollCertificate, tailVars
  <2>2. certificates'[r] =
           certificates[r] \cup {[idx |-> i, msg |-> d.msg, signers |-> Q]}
    BY <1>3 DEF WellTyped
  <2>3. ASSUME NEW c \in certificates'[r]
        PROVE  /\ Cardinality(c.signers) = Quorum
               /\ \A s \in c.signers : Acked(s, c.idx, c.msg)
    BY <1>1, <1>3, <1>4, <2>2 DEF SoundAt, PolledSound
  <2> QED BY <1>1, <2>1, <2>3 DEF SoundAt, PolledSound, Acked, Committed
<1> QED
  BY <1>1, <1>5, AckKept, TailKept, ComputedKept, ReceivedKept
     DEF SoundAt, PollCertificate, tailVars, promiseVars, computeVars, checkVars

LEMMA OffloadSound ==
    ASSUME WellTyped, Sound, NEW r \in Replica, OffloadShareComputation(r)
    PROVE  SoundAt(r)'
<1>1. SoundAt(r) /\ Grows
  BY DEF Sound, OffloadShareComputation, Grows, tailVars
<1>2. ComputedSound(r)'
  <2>1. share_tasks'[r] \subseteq share_tasks[r] \cup queued_share_computations[r]
    BY DEF OffloadShareComputation, WellTyped
  <2>2. queued_share_computations'[r] = {}
    BY DEF OffloadShareComputation, WellTyped
  <2>3. sorted_computed_shares'[r] \subseteq sorted_computed_shares[r] \cup
           {[idx |-> q.idx, share |-> {}] : q \in queued_share_computations[r]}
    BY DEF OffloadShareComputation, WellTyped
  <2>4. UNCHANGED <<computing, computed_shares, shares, promises, acknowledged>>
    BY DEF OffloadShareComputation, tailVars, promiseVars
  <2>5. \A e \in sorted_computed_shares'[r] : e.share \subseteq acknowledged[r]
    BY <1>1, <2>3 DEF SoundAt, ComputedSound
  <2> QED BY <1>1, <2>1, <2>2, <2>4, <2>5 DEF SoundAt, ComputedSound
<1> QED
  BY <1>1, <1>2, AckKept, TailKept, ReceivedKept, PolledKept
     DEF SoundAt, OffloadShareComputation, tailVars, promiseVars, checkVars, pollVars

LEMMA StartSound ==
    ASSUME WellTyped, Sound, NEW r \in Replica, StartComputation(r)
    PROVE  SoundAt(r)'
<1>1. SoundAt(r) /\ Grows
  BY DEF Sound, StartComputation, Grows, tailVars
<1>2. ComputedSound(r)'
  <2>1. /\ share_tasks'[r] \subseteq share_tasks[r]
        /\ computing'[r] \subseteq computing[r] \cup share_tasks[r]
    BY DEF StartComputation, WellTyped
  <2> QED
    BY <1>1, <2>1 DEF SoundAt, ComputedSound, StartComputation, tailVars, promiseVars
<1> QED
  BY <1>1, <1>2, AckKept, TailKept, ReceivedKept, PolledKept
     DEF SoundAt, StartComputation, tailVars, promiseVars, checkVars, pollVars

LEMMA FinishSound ==
    ASSUME WellTyped, Sound, NEW r \in Replica, FinishComputation(r)
    PROVE  SoundAt(r)'
<1>1. SoundAt(r) /\ Grows
  BY DEF Sound, FinishComputation, Grows, tailVars
<1>2. ComputedSound(r)'
  <2>1. PICK t \in computing[r] :
           /\ computing' = [computing EXCEPT ![r] = @ \ {t}]
           /\ computed_shares' = [computed_shares EXCEPT ![r] = Append(@, t)]
    BY DEF FinishComputation
  <2>2. t \in acknowledged[r] /\ computed_shares[r] \in Seq(acknowledged[r])
    BY <1>1 DEF SoundAt, ComputedSound
  <2>3. computed_shares'[r] \in Seq(acknowledged[r])
    BY <2>1, <2>2 DEF WellTyped
  <2>4. computing'[r] \subseteq computing[r]
    BY <2>1 DEF WellTyped
  <2> QED
    BY <1>1, <2>3, <2>4 DEF SoundAt, ComputedSound, FinishComputation, tailVars,
       promiseVars
<1> QED
  BY <1>1, <1>2, AckKept, TailKept, ReceivedKept, PolledKept
     DEF SoundAt, FinishComputation, tailVars, promiseVars, checkVars, pollVars

LEMMA StartCheckSound ==
    ASSUME WellTyped, Sound, NEW r \in Replica, NEW s \in Replica, StartCheck(r, s)
    PROVE  SoundAt(r)'
<1>1. SoundAt(r) /\ Grows
  BY DEF Sound, StartCheck, Grows, tailVars
<1>2. ReceivedSound(r)'
  <2>1. PICK c \in check_tasks[r][s] :
           /\ check_tasks' = [check_tasks EXCEPT ![r][s] = @ \ {c}]
           /\ checking' = [checking EXCEPT ![r] = @ \cup {c}]
    BY DEF StartCheck
  <2>2. UNCHANGED <<acknowledged, buffered_shares, buffered_promises>>
    BY DEF StartCheck, tailVars, promiseVars
  <2>3. \A q \in Replica : check_tasks'[r][q] \subseteq check_tasks[r][q]
    BY <2>1 DEF WellTyped
  <2>4. checking'[r] \subseteq checking[r] \cup {c}
    BY <2>1 DEF WellTyped
  <2>5. CheckSound(r, c)
    BY <1>1 DEF SoundAt, ReceivedSound
  <2> QED
    BY <1>1, <2>2, <2>3, <2>4, <2>5 DEF SoundAt, ReceivedSound, CheckSound, Acked
<1> QED
  BY <1>1, <1>2, AckKept, TailKept, ComputedKept, PolledKept
     DEF SoundAt, StartCheck, tailVars, promiseVars, computeVars, pollVars

LEMMA PollComputedSound ==
    ASSUME WellTyped, Sound, NEW r \in Replica, PollComputedShares(r)
    PROVE  SoundAt(r)'
<1> DEFINE computed == {computed_shares[r][k] : k \in 1 .. Len(computed_shares[r])}
<1> DEFINE filled == {[idx |-> e.idx,
                       share |-> e.share \cup {c \in computed : c.idx = e.idx}] :
                        e \in sorted_computed_shares[r]}
<1> DEFINE useful == {e \in filled : e.idx >= Front(Indices(msg_tail[r]))}
<1> DEFINE out == Sendable(useful)
<1> DEFINE sent == UNION {e.share : e \in out}
<1> DEFINE own == {[from |-> r, share |-> sh, expected |-> sh.msg] : sh \in sent}
<1>1. SoundAt(r) /\ Grows
  BY DEF Sound, PollComputedShares, Grows, tailVars
<1>2. computed \subseteq acknowledged[r]
  BY <1>1 DEF SoundAt, ComputedSound
<1>3. \A e \in filled : e.share \subseteq acknowledged[r]
  <2> HIDE DEF computed
  <2> QED BY <1>1, <1>2 DEF SoundAt, ComputedSound
<1>4. \A e \in useful : e.share \subseteq acknowledged[r]
  <2> HIDE DEF filled
  <2> QED BY <1>3
<1> HIDE DEF useful
<1>5. out \subseteq useful
  BY DEF Sendable
<1> HIDE DEF out
<1>6. sent \subseteq acknowledged[r]
  BY <1>4, <1>5
<1> HIDE DEF sent
<1>7. \A c \in own : CheckSound(r, c)
  <2> SUFFICES ASSUME NEW sh \in sent
               PROVE  CheckSound(r, [from |-> r, share |-> sh, expected |-> sh.msg])
    OBVIOUS
  <2>1. sh \in Share /\ sh \in acknowledged[r]
    BY <1>6 DEF WellTyped
  <2>2. sh = [idx |-> sh.idx, msg |-> sh.msg]
    BY <2>1 DEF Share
  <2> QED BY <2>1, <2>2 DEF CheckSound, Acked
<1> HIDE DEF own
<1>8. /\ computed_shares'[r] = << >>
      /\ sorted_computed_shares'[r] = useful \ out
      /\ shares'[r] = shares[r] \cup sent
      /\ checking'[r] = checking[r] \cup own
  BY DEF PollComputedShares, useful, out, sent, own, WellTyped
<1>9. UNCHANGED <<acknowledged, queued_share_computations, share_tasks, computing,
                  promises, buffered_promises, buffered_shares, check_tasks>>
  BY DEF PollComputedShares, tailVars, promiseVars
<1>10. ComputedSound(r)'
  BY <1>1, <1>4, <1>6, <1>8, <1>9 DEF SoundAt, ComputedSound
<1>11. ReceivedSound(r)'
  BY <1>1, <1>7, <1>8, <1>9 DEF SoundAt, ReceivedSound, CheckSound, Acked
<1> QED
  BY <1>1, <1>10, <1>11, AckKept, TailKept, PolledKept
     DEF SoundAt, PollComputedShares, tailVars, pollVars

(* A check that is queued joins sound ones, or pushes one out. *)
LEMMA QueuedSubset ==
    ASSUME NEW tasks, NEW s, NEW sh, NEW m
    PROVE  Queued(tasks, s, sh, m) \subseteq
              tasks \cup {[from |-> s, share |-> sh, expected |-> m]}
BY DEF Queued

LEMMA PollSharesSound ==
    ASSUME WellTyped, Sound, NEW r \in Replica, NEW s \in Replica, PollShares(r, s)
    PROVE  SoundAt(r)'
<1>1. SoundAt(r) /\ SoundAt(s) /\ Grows
  BY DEF Sound, PollShares, Grows, tailVars
<1>2. PICK sh \in shares[s] : handleShare(r, s, sh)
  BY DEF PollShares
<1>3. sh \in acknowledged[s] /\ sh \in Share
  BY <1>1 DEF SoundAt, ComputedSound, WellTyped
<1>4. UNCHANGED <<acknowledged, buffered_promises, checking>>
  BY DEF PollShares, tailVars, promiseVars
<1>5. \A q \in Replica : buffered_shares'[r][q] \subseteq acknowledged[q]
  <2>1. \A q \in Replica : buffered_shares[r][q] \subseteq acknowledged[q]
    BY <1>1 DEF SoundAt, ReceivedSound
  <2>2. Bounded(buffered_shares[r][s] \cup {sh}) \subseteq acknowledged[s]
    BY <1>3, <2>1 DEF Bounded
  <2>3. \/ UNCHANGED buffered_shares
        \/ buffered_shares' = [buffered_shares EXCEPT ![r][s] =
              Bounded(buffered_shares[r][s] \cup {sh})]
    BY <1>2 DEF handleShare
  <2>4. buffered_shares \in [Replica -> [Replica -> SUBSET Share]]
    BY DEF WellTyped
  <2>5. CASE UNCHANGED buffered_shares
    BY <2>1, <2>5
  <2>6. CASE buffered_shares' = [buffered_shares EXCEPT ![r][s] =
                Bounded(buffered_shares[r][s] \cup {sh})]
    BY <2>1, <2>2, <2>4, <2>6, LinkEntry
  <2> QED BY <2>3, <2>5, <2>6
<1>6. \A q \in Replica : \A c \in check_tasks'[r][q] : CheckSound(r, c)
  <2>1. \A q \in Replica : \A c \in check_tasks[r][q] : CheckSound(r, c)
    BY <1>1 DEF SoundAt, ReceivedSound
  <2>2. CASE Found(r, sh.idx)
    <3> DEFINE m == DataOf(r, sh.idx).msg
    <3>0. DataOf(r, sh.idx) \in msg_tail[r] /\ DataOf(r, sh.idx).idx = sh.idx
      BY <2>2, DataOfFound
    <3>1. Acked(r, sh.idx, m)
      BY <1>1, <3>0 DEF SoundAt, TailSound
    <3> HIDE DEF m
    <3>2. CheckSound(r, [from |-> s, share |-> sh, expected |-> m])
      BY <1>3, <3>1 DEF CheckSound
    <3>3. \A c \in Queued(check_tasks[r][s], s, sh, m) : CheckSound(r, c)
      BY <2>1, <3>2, QueuedSubset
    <3>4. check_tasks' = [check_tasks EXCEPT ![r][s] =
             Queued(check_tasks[r][s], s, sh, m)]
      BY <1>2, <2>2 DEF handleShare, m
    <3>5. check_tasks \in [Replica -> [Replica -> SUBSET Check]]
      BY DEF WellTyped
    <3>6. \A q \in Replica : check_tasks'[r][q] =
             IF q = s THEN Queued(check_tasks[r][s], s, sh, m) ELSE check_tasks[r][q]
      BY <3>4, <3>5, LinkEntry
    <3> QED BY <2>1, <3>3, <3>6
  <2>3. CASE ~Found(r, sh.idx)
    BY <1>2, <2>1, <2>3 DEF handleShare
  <2> QED BY <2>2, <2>3
<1>7. ReceivedSound(r)'
  BY <1>1, <1>4, <1>5, <1>6 DEF SoundAt, ReceivedSound, CheckSound, Acked
<1> QED
  BY <1>1, <1>7, AckKept, TailKept, ComputedKept, PolledKept
     DEF SoundAt, PollShares, tailVars, promiseVars, computeVars, pollVars

LEMMA PollPromisesSound ==
    ASSUME WellTyped, Sound, NEW r \in Replica, NEW s \in Replica, PollPromises(r, s)
    PROVE  SoundAt(r)'
<1>1. SoundAt(r) /\ SoundAt(s) /\ Grows
  BY DEF Sound, PollPromises, Grows
<1>2. PICK i \in promises[s] : handlePromise(r, s, i)
  BY DEF PollPromises, Readable
<1>3. i \in Indices(acknowledged[s])
  BY <1>1 DEF SoundAt, ComputedSound
<1>4. UNCHANGED <<acknowledged, buffered_shares, check_tasks, checking>>
  BY DEF PollPromises, checkVars
<1>5. TailSound(r)'
  <2>1. \/ msg_tail' = msg_tail
        \/ msg_tail' = [msg_tail EXCEPT ![r] =
              {IF d.idx = i THEN [d EXCEPT !.promised = @ \cup {s}] ELSE d
                 : d \in msg_tail[r]}]
    BY <1>2 DEF handlePromise
  <2>2. ASSUME NEW d \in msg_tail[r], d.idx = i,
               NEW e, e = [d EXCEPT !.promised = @ \cup {s}]
        PROVE  /\ Acked(r, e.idx, e.msg)
               /\ \A q \in e.shares : Acked(q, e.idx, e.msg)
               /\ \A q \in e.promised : Committed(r, q, e.idx)
    <3>1. /\ e.idx = d.idx /\ e.msg = d.msg /\ e.shares = d.shares
          /\ e.promised = d.promised \cup {s}
      BY <2>2 DEF WellTyped, MessageData
    <3> QED BY <1>1, <1>3, <2>2, <3>1 DEF SoundAt, TailSound, Committed
  <2>3. ASSUME NEW e \in msg_tail'[r]
        PROVE  \/ e \in msg_tail[r]
               \/ \E d \in msg_tail[r] :
                     d.idx = i /\ e = [d EXCEPT !.promised = @ \cup {s}]
    <3>1. CASE msg_tail' = msg_tail
      BY <2>3, <3>1
    <3>2. CASE msg_tail' = [msg_tail EXCEPT ![r] =
                  {IF d.idx = i THEN [d EXCEPT !.promised = @ \cup {s}] ELSE d
                     : d \in msg_tail[r]}]
      <4>1. msg_tail'[r] =
               {IF d.idx = i THEN [d EXCEPT !.promised = @ \cup {s}] ELSE d
                  : d \in msg_tail[r]}
        BY <3>2 DEF WellTyped
      <4> QED BY <2>3, <4>1
    <3> QED BY <2>1, <3>1, <3>2
  <2>4. \A e \in msg_tail'[r] :
           /\ Acked(r, e.idx, e.msg)
           /\ \A q \in e.shares : Acked(q, e.idx, e.msg)
           /\ \A q \in e.promised : Committed(r, q, e.idx)
    BY <1>1, <2>2, <2>3 DEF SoundAt, TailSound
  <2> QED BY <1>4, <2>4 DEF TailSound, Acked, Committed
<1>6. ReceivedSound(r)'
  <2>1. \A q \in Replica : buffered_promises[r][q] \subseteq Indices(acknowledged[q])
    BY <1>1 DEF SoundAt, ReceivedSound
  <2>2. BoundedIndices(buffered_promises[r][s] \cup {i}) \subseteq
           Indices(acknowledged[s])
    BY <1>3, <2>1 DEF BoundedIndices
  <2>3. \/ UNCHANGED buffered_promises
        \/ buffered_promises' = [buffered_promises EXCEPT ![r][s] =
              BoundedIndices(buffered_promises[r][s] \cup {i})]
    BY <1>2 DEF handlePromise
  <2>4. \A q \in Replica : buffered_promises'[r][q] \subseteq Indices(acknowledged[q])
    <3>1. buffered_promises \in [Replica -> [Replica -> SUBSET Nat]]
      BY DEF WellTyped
    <3>2. CASE UNCHANGED buffered_promises
      BY <2>1, <3>2
    <3>3. CASE buffered_promises' = [buffered_promises EXCEPT ![r][s] =
                  BoundedIndices(buffered_promises[r][s] \cup {i})]
      BY <2>1, <2>2, <3>1, <3>3, LinkEntry
    <3> QED BY <2>3, <3>2, <3>3
  <2> QED
    BY <1>1, <1>4, <2>4 DEF SoundAt, ReceivedSound, CheckSound, Acked
<1> QED
  BY <1>1, <1>5, <1>6, AckKept, ComputedKept, PolledKept
     DEF SoundAt, PollPromises, computeVars, pollVars

(* The share was verified against the message acknowledged at its index, and *)
(* the message found there now is the same one.                             *)
LEMMA PollVerifiedSound ==
    ASSUME WellTyped, Sound, NEW r \in Replica, PollVerifiedShare(r)
    PROVE  SoundAt(r)'
<1>1. SoundAt(r) /\ Grows
  BY DEF Sound, PollVerifiedShare, Grows
<1>2. PICK c \in checking[r] :
         /\ checking' = [checking EXCEPT ![r] = @ \ {c}]
         /\ \/ msg_tail' = msg_tail
            \/ /\ valid(c)
               /\ msg_tail' = [msg_tail EXCEPT ![r] =
                     {IF d.idx = c.share.idx
                      THEN [d EXCEPT !.shares = @ \cup {c.from}] ELSE d
                        : d \in msg_tail[r]}]
  BY DEF PollVerifiedShare
<1>3. CheckSound(r, c) /\ c.share \in Share
  BY <1>1 DEF SoundAt, ReceivedSound, WellTyped, Check
<1>4. UNCHANGED <<acknowledged, buffered_promises, buffered_shares, check_tasks>>
  BY DEF PollVerifiedShare, promiseVars
<1>5. ASSUME valid(c), NEW d \in msg_tail[r], d.idx = c.share.idx
      PROVE  Acked(c.from, d.idx, d.msg)
  <2>1. Acked(r, d.idx, d.msg) /\ Acked(r, d.idx, c.expected)
    BY <1>1, <1>3, <1>5 DEF SoundAt, TailSound, CheckSound
  <2>2. [idx |-> d.idx, msg |-> d.msg] = [idx |-> d.idx, msg |-> c.expected]
    <3>1. \A a, b \in acknowledged[r] : a.idx = b.idx => a = b
      BY <1>1 DEF SoundAt, AckedOnce
    <3> DEFINE a == [idx |-> d.idx, msg |-> d.msg]
    <3> DEFINE b == [idx |-> d.idx, msg |-> c.expected]
    <3>2. a \in acknowledged[r] /\ b \in acknowledged[r] /\ a.idx = b.idx
      BY <2>1 DEF Acked
    <3> QED BY <3>1, <3>2
  <2>3. d.msg = c.share.msg
    BY <1>5, <2>2 DEF valid
  <2>4. c.share = [idx |-> d.idx, msg |-> d.msg]
    BY <1>3, <1>5, <2>3 DEF Share
  <2> QED BY <1>3, <2>4 DEF CheckSound, Acked
<1>6. TailSound(r)'
  <2>1. CASE msg_tail' = msg_tail
    BY <1>1, <2>1, TailKept DEF SoundAt
  <2>2. CASE /\ valid(c)
             /\ msg_tail' = [msg_tail EXCEPT ![r] =
                   {IF d.idx = c.share.idx
                    THEN [d EXCEPT !.shares = @ \cup {c.from}] ELSE d
                      : d \in msg_tail[r]}]
    <3>1. msg_tail'[r] =
             {IF d.idx = c.share.idx THEN [d EXCEPT !.shares = @ \cup {c.from}] ELSE d
                : d \in msg_tail[r]}
      BY <2>2 DEF WellTyped
    <3>2. ASSUME NEW e \in msg_tail'[r]
          PROVE  \/ e \in msg_tail[r]
                 \/ \E d \in msg_tail[r] :
                       /\ d.idx = c.share.idx
                       /\ e = [d EXCEPT !.shares = @ \cup {c.from}]
      BY <3>1, <3>2
    <3>3. ASSUME NEW d \in msg_tail[r], d.idx = c.share.idx,
                 NEW e, e = [d EXCEPT !.shares = @ \cup {c.from}]
          PROVE  /\ Acked(r, e.idx, e.msg)
                 /\ \A q \in e.shares : Acked(q, e.idx, e.msg)
                 /\ \A q \in e.promised : Committed(r, q, e.idx)
      <4>1. /\ e.idx = d.idx /\ e.msg = d.msg /\ e.promised = d.promised
            /\ e.shares = d.shares \cup {c.from}
        BY <3>3 DEF WellTyped, MessageData
      <4>2. Acked(c.from, d.idx, d.msg)
        BY <1>5, <2>2, <3>3
      <4> QED BY <1>1, <4>1, <4>2 DEF SoundAt, TailSound
    <3>4. \A e \in msg_tail'[r] :
             /\ Acked(r, e.idx, e.msg)
             /\ \A q \in e.shares : Acked(q, e.idx, e.msg)
             /\ \A q \in e.promised : Committed(r, q, e.idx)
      BY <1>1, <3>2, <3>3 DEF SoundAt, TailSound
    <3> QED BY <1>4, <3>4 DEF TailSound, Acked, Committed
  <2> QED BY <1>2, <2>1, <2>2
<1>7. ReceivedSound(r)'
  <2>1. checking'[r] \subseteq checking[r]
    BY <1>2 DEF WellTyped
  <2> QED BY <1>1, <1>4, <2>1 DEF SoundAt, ReceivedSound, CheckSound, Acked
<1> QED
  BY <1>1, <1>6, <1>7, AckKept, ComputedKept, PolledKept
     DEF SoundAt, PollVerifiedShare, promiseVars, computeVars, pollVars

(* A new message joins; what was buffered for it was acknowledged elsewhere. *)
LEMMA AcknowledgeSound ==
    ASSUME WellTyped, Sound, NEW r \in Replica, NEW i \in Nat, NEW m \in Message,
           Acknowledge(r, i, m)
    PROVE  SoundAt(r)'
<1> DEFINE a == [idx |-> i, msg |-> m]
<1> DEFINE promised == {s \in Replica : i \in buffered_promises[r][s]}
<1> DEFINE new == [idx |-> i, msg |-> m, shares |-> {},
                   promised |-> IF run_fast_path
                                THEN promised \cup ({Leader} \ {r}) ELSE {}]
<1> DEFINE replayed(s) == {sh \in buffered_shares[r][s] : sh.idx = i}
<1>1. SoundAt(r)
  BY DEF Sound
<1>2. acknowledged' = [acknowledged EXCEPT ![r] = @ \cup {a}]
  BY DEF Acknowledge
<1>3. acknowledged'[r] = acknowledged[r] \cup {a} /\ Grows
  BY <1>2 DEF WellTyped, Grows
<1>4. AckedOnce(r)'
  <2>1. i >= next_index[r] /\ next_index'[r] = i + 1 /\ next_index[r] \in Nat
    BY DEF Acknowledge, Acknowledgeable, WellTyped
  <2>2. \A b \in acknowledged[r] : b.idx \in Nat /\ b.idx < next_index[r]
    BY <1>1 DEF SoundAt, AckedOnce, WellTyped, Share
  <2>3. \A b \in acknowledged'[r] : b.idx < next_index'[r]
    BY <1>3, <2>1, <2>2
  <2>4. \A b, c \in acknowledged[r] : b.idx = c.idx => b = c
    BY <1>1 DEF SoundAt, AckedOnce
  <2>5. \A b \in acknowledged[r] : b.idx # a.idx
    BY <2>1, <2>2
  <2>6. \A b, c \in acknowledged'[r] : b.idx = c.idx => b = c
    <3> HIDE DEF a
    <3> QED BY <1>3, <2>4, <2>5
  <2> QED BY <2>3, <2>6 DEF AckedOnce
<1>5. TailSound(r)'
  <2>1. msg_tail'[r] = {d \in msg_tail[r] : InTail(d.idx, i)} \cup {new}
    BY DEF Acknowledge, WellTyped
  <2>2. \A s \in new.promised : s \in Replica /\ Committed(r, s, i)
    <3>1. \A s \in promised : i \in Indices(acknowledged[s])
      BY <1>1 DEF SoundAt, ReceivedSound
    <3> QED BY <3>1, CertifierAssumption DEF Committed
  <2>3. \A s \in new.promised : Committed(r, s, i)'
    BY <1>3, <2>2 DEF Grows, Indices, Committed
  <2>4. new.idx = i /\ new.msg = m /\ new.shares = {}
    OBVIOUS
  <2> HIDE DEF new
  <2>5. ASSUME NEW d \in msg_tail[r]
        PROVE  /\ Acked(r, d.idx, d.msg)'
               /\ \A s \in d.shares : Acked(s, d.idx, d.msg)'
               /\ \A s \in d.promised : Committed(r, s, d.idx)'
    <3>1. d.shares \subseteq Replica /\ d.promised \subseteq Replica
      BY DEF WellTyped, MessageData
    <3> QED BY <1>1, <1>3, <3>1 DEF SoundAt, TailSound, Acked, Grows, Indices, Committed
  <2>6. PICK n : n = new
    OBVIOUS
  <2>7. /\ Acked(r, n.idx, n.msg)'
        /\ \A s \in n.shares : Acked(s, n.idx, n.msg)'
        /\ \A s \in n.promised : Committed(r, s, n.idx)'
    BY <1>3, <2>3, <2>4, <2>6 DEF Acked
  <2> QED BY <2>1, <2>5, <2>6, <2>7 DEF TailSound
<1>6. ComputedSound(r)'
  <2>1. queued_share_computations'[r] \subseteq queued_share_computations[r] \cup {a}
    <3> DEFINE Q == queued_share_computations[r]
    <3> DEFINE queued == IF Cardinality(Q) + 1 > TailSize THEN Q \ {First(Q)} ELSE Q
    <3>1. queued_share_computations' =
             [queued_share_computations EXCEPT ![r] = queued \cup {a}]
      BY DEF Acknowledge
    <3>2. queued \subseteq Q
      OBVIOUS
    <3> HIDE DEF queued, a
    <3> QED BY <3>1, <3>2 DEF WellTyped
  <2>2. computed_shares'[r] \in Seq(acknowledged'[r])
    <3>1. computed_shares'[r] = Emptied(computed_shares[r])
      BY DEF Acknowledge, WellTyped
    <3>2. computed_shares[r] \in Seq(acknowledged[r] \cup {a})
      BY <1>1 DEF SoundAt, ComputedSound
    <3> QED BY <1>3, <3>1, <3>2, EmptiedType
  <2>3. promises'[r] \subseteq Indices(acknowledged'[r])
    <3>1. promises'[r] \subseteq promises[r] \cup {i}
      BY DEF Acknowledge, WellTyped
    <3>2. i \in Indices(acknowledged'[r])
      BY <1>3 DEF Indices
    <3>3. promises[r] \subseteq Indices(acknowledged'[r])
      BY <1>1, <1>3 DEF SoundAt, ComputedSound, Indices
    <3> QED BY <3>1, <3>2, <3>3
  <2>4. UNCHANGED <<share_tasks, computing, sorted_computed_shares, shares>>
    BY DEF Acknowledge
  <2> HIDE DEF a
  <2>5. \A e \in sorted_computed_shares[r] : e.share \subseteq acknowledged'[r]
    BY <1>1, <1>3 DEF SoundAt, ComputedSound
  <2> QED BY <1>1, <1>3, <2>1, <2>2, <2>3, <2>4, <2>5 DEF SoundAt, ComputedSound
<1>7. ReceivedSound(r)'
  <2>1. ASSUME NEW s \in Replica
        PROVE  /\ buffered_promises'[r][s] \subseteq buffered_promises[r][s]
               /\ buffered_shares'[r][s] \subseteq buffered_shares[r][s]
    BY DEF Acknowledge, WellTyped
  <2>2. ASSUME NEW s \in Replica
        PROVE  /\ buffered_promises'[r][s] \subseteq Indices(acknowledged'[s])
               /\ buffered_shares'[r][s] \subseteq acknowledged'[s]
    BY <1>1, <1>3, <2>1 DEF SoundAt, ReceivedSound, Grows, Indices
  <2>3. ASSUME NEW s \in Replica, NEW c \in check_tasks'[r][s]
        PROVE  CheckSound(r, c)'
    <3>1. \/ check_tasks'[r][s] = check_tasks[r][s]
          \/ \E x \in replayed(s) :
                check_tasks'[r][s] = Queued(check_tasks[r][s], s, x, m)
      <4> DEFINE sh == CHOOSE x \in replayed(s) : TRUE
      <4>1. check_tasks'[r][s] = IF replayed(s) = {} THEN check_tasks[r][s]
                                 ELSE Queued(check_tasks[r][s], s, sh, m)
        BY DEF Acknowledge, WellTyped
      <4>2. replayed(s) # {} => sh \in replayed(s)
        OBVIOUS
      <4> HIDE DEF sh, replayed
      <4> QED BY <4>1, <4>2
    <3>2. \A t \in check_tasks[r][s] : CheckSound(r, t)'
      BY <1>1, <1>3, CheckKept DEF SoundAt, ReceivedSound, WellTyped
    <3>3. ASSUME NEW x \in replayed(s)
          PROVE  CheckSound(r, [from |-> s, share |-> x, expected |-> m])'
      <4>1. x \in buffered_shares[r][s] /\ x.idx = i
        BY <3>3
      <4>2. x \in acknowledged'[s]
        BY <1>1, <1>3, <4>1 DEF SoundAt, ReceivedSound, Grows
      <4>3. Acked(r, x.idx, m)'
        BY <1>3, <4>1 DEF Acked
      <4> QED BY <4>2, <4>3 DEF CheckSound
    <3> HIDE DEF replayed
    <3> QED BY <2>3, <3>1, <3>2, <3>3, QueuedSubset
  <2>4. \A c \in checking'[r] : CheckSound(r, c)'
    BY <1>1, <1>3, CheckKept DEF SoundAt, ReceivedSound, WellTyped, Acknowledge
  <2> QED BY <2>2, <2>3, <2>4 DEF ReceivedSound
<1> QED
  BY <1>1, <1>3, <1>4, <1>5, <1>6, <1>7, PolledKept DEF SoundAt, Acknowledge, pollVars

LEMMA NextSound == WellTyped /\ Sound /\ [Next]_vars => Sound'
<1> SUFFICES ASSUME WellTyped, Sound, [Next]_vars
             PROVE  Sound'
  OBVIOUS
<1>1. CASE UNCHANGED vars
  <2>1. ASSUME NEW q \in Replica PROVE SoundAt(q)'
    <3>1. SoundAt(q) /\ Grows
      BY <1>1 DEF Sound, Grows, vars, tailVars
    <3> QED
      BY <1>1, <3>1, AckKept, TailKept, ComputedKept, ReceivedKept, PolledKept
         DEF SoundAt, vars, tailVars, promiseVars, computeVars, checkVars, pollVars
  <2> QED BY <2>1 DEF Sound
<1>2. CASE Next
  <2>1. PICK r \in Replica : Step(r)
    BY <1>2 DEF Next
  <2>2. 0 .. MaxIndex - 1 \subseteq Nat
    BY CertifierAssumption
  <2>3. SoundAt(r)'
    BY <2>1, <2>2, ForgetSound, AcknowledgeSound, ToggleSound, PollPromiseSound,
       OffloadSound, StartSound, FinishSound, PollComputedSound, PollVerifiedSound,
       PollCertificateSound, PollPromisesSound, PollSharesSound, StartCheckSound
       DEF Step
  <2>4. \A q \in Replica : q # r => SoundAt(q)'
    BY <2>1, OthersSound
  <2> QED BY <2>3, <2>4 DEF Sound
<1> QED BY <1>1, <1>2

-----------------------------------------------------------------------------
(* A certificate that pollCertificate returns holds a quorum of shares, each *)
(* of a replica that acknowledged the very message of the certificate,       *)
(* however the verification threads, the tail and forgetting interleave.     *)
THEOREM CertificatesAreSound == Spec => []CertificateSound
<1>1. Init => WellTyped /\ Sound
  BY InitWellTyped, InitSound
<1>2. WellTyped /\ Sound /\ [Next]_vars => WellTyped' /\ Sound'
  BY NextWellTyped, NextSound
<1>3. Sound => CertificateSound
  BY DEF Sound, SoundAt, PolledSound, CertificateSound, Acked
<1> QED BY <1>1, <1>2, <1>3, PTL DEF Spec

(* pollPromise returns an index only once every replica acknowledged it, but *)
(* for the leader whose broadcast stands for its promise: no order of polled *)
(* and buffered promises makes one count for another index or replica.       *)
THEOREM PromisesAreSound == Spec => []PromiseSound
<1>1. Init => WellTyped /\ Sound
  BY InitWellTyped, InitSound
<1>2. WellTyped /\ Sound /\ [Next]_vars => WellTyped' /\ Sound'
  BY NextWellTyped, NextSound
<1>3. Sound => PromiseSound
  BY DEF Sound, SoundAt, PolledSound, PromiseSound
<1> QED BY <1>1, <1>2, <1>3, PTL DEF Spec

-----------------------------------------------------------------------------
(***************************************************************************)
(* For every number of replicas, tail, pool and message: the queues of the *)
(* certifier keep their bounds, its buffers suffice, no replica is accused *)
(* without a conflict, and a promise or a share that reached a replica is  *)
(* counted for the message it serves.                                      *)
(*                                                                         *)
(* On top of Sound, which says where everything comes from, the proof      *)
(* needs the order in which things move:                                   *)
(*   - Served: the tail is a window of indices below the next one;         *)
(*   - Pipeline: what waits to be offloaded is younger than what was, what *)
(*     waits in the pool is younger than what a worker took, and places    *)
(*     span at most a tail and are younger than the shares sent;           *)
(*   - PromisesFrom and SharesFrom: what came from a source lies below     *)
(*     what was polled, and each piece of it is in one place only.         *)
(***************************************************************************)

(* The messages served are in a window of TailSize indices. *)
Served(r) ==
    /\ \A d \in msg_tail[r] :
          d.idx < next_index[r] /\ next_index[r] <= d.idx + TailSize
    /\ \A d, e \in msg_tail[r] : d.idx = e.idx => d = e

-----------------------------------------------------------------------------
(* Shares that a worker took, computed or not, and not sent yet. *)
Started(r) ==
    computing[r] \cup {computed_shares[r][k] : k \in 1 .. Len(computed_shares[r])}
      \cup UNION {e.share : e \in sorted_computed_shares[r]}

PipelineOrder(r) ==
    /\ \A q \in queued_share_computations[r] :
          /\ \A t \in share_tasks[r] \cup Started(r) \cup shares[r] : t.idx < q.idx
          /\ \A e \in sorted_computed_shares[r] : e.idx < q.idx
    /\ \A t \in share_tasks[r] :
          /\ \A u \in Started(r) : u.idx < t.idx
          /\ \A e \in sorted_computed_shares[r] : t.idx < e.idx + TailSize

(* The places of the shares to send. *)
Places(r) ==
    \A e \in sorted_computed_shares[r] :
        /\ e.idx \in Indices(acknowledged[r])
        /\ \A x \in e.share : x.idx = e.idx
        /\ \A x \in shares[r] : x.idx < e.idx
        /\ \A f \in sorted_computed_shares[r] :
              f.idx < e.idx + TailSize /\ (f.idx = e.idx => f = e)

PipelineBounds(r) ==
    /\ Cardinality(queued_share_computations[r]) <= TailSize
    /\ Cardinality(share_tasks[r]) <= TailSize
    /\ Cardinality(computing[r]) <= Workers

Pipeline(r) == PipelineOrder(r) /\ Places(r) /\ PipelineBounds(r)

-----------------------------------------------------------------------------
(* Promises of s at r: those polled are below polled_promises, and the ones *)
(* r may still need are buffered unless the tail left them behind.          *)
PromisesFrom(r, s) ==
    /\ s = Leader \/ ~run_fast_path => promises[s] = {}
    /\ polled_promises[r][s] <= next_index[s]
    /\ \A j \in buffered_promises[r][s] :
          j \in promises[s] /\ j < polled_promises[r][s]
    /\ Cardinality(buffered_promises[r][s]) <= TailSize
    /\ \A d \in msg_tail[r] :
          s \in d.promised /\ s # Leader => d.idx < polled_promises[r][s]

PromisesHeld(r, s) ==
    Ok(r) /\ r # s =>
      \A i \in promises[s] :
         i < polled_promises[r][s] =>
            \/ Lagging(promises[s], i)
            \/ i >= next_index[r] /\ i \in buffered_promises[r][s]
            \/ i < next_index[r] /\ \A d \in msg_tail[r] : d.idx = i => s \in d.promised

-----------------------------------------------------------------------------
(* Shares of s at r: a share is buffered, under verification or counted,    *)
(* and only once.                                                           *)
Uncounted(r, c) == \A d \in msg_tail[r] : d.idx = c.share.idx => c.from \notin d.shares

SharesFrom(r, s) ==
    /\ polled_shares[r][s] = 0 \/ \E x \in shares[s] : polled_shares[r][s] = x.idx + 1
    /\ \A b \in buffered_shares[r][s] :
          b \in shares[s] /\ b.idx < polled_shares[r][s] /\ s # r
    /\ Cardinality(buffered_shares[r][s]) <= TailSize
    /\ \A c \in check_tasks[r][s] :
          /\ c.from = s /\ s # r
          /\ c.share \in shares[s] /\ c.share.idx < polled_shares[r][s]
          /\ c \notin checking[r] /\ Uncounted(r, c)
    /\ Cardinality(check_tasks[r][s]) <= TailSize
    /\ \A c \in checking[r] : c.from = s =>
          /\ c.share \in shares[s]
          /\ s # r => c.share.idx < polled_shares[r][s]
          /\ Uncounted(r, c)
    /\ \A d \in msg_tail[r] : s \in d.shares =>
          /\ d.idx \in Indices(shares[s])
          /\ s # r => d.idx < polled_shares[r][s]

(* A verification of the share of s at index i. *)
UnderCheck(r, s, i) ==
    \E c \in check_tasks[r][s] \cup checking[r] : c.from = s /\ c.share.idx = i

SharesHeld(r, s) ==
    Ok(r) /\ r # s =>
      \A x \in shares[s] :
         x.idx < polled_shares[r][s] =>
            \/ Lagging(Indices(shares[s]), x.idx)
            \/ x.idx >= next_index[r] /\ x \in buffered_shares[r][s]
            \/ /\ x.idx < next_index[r]
               /\ \A d \in msg_tail[r] :
                     d.idx = x.idx => s \in d.shares \/ UnderCheck(r, s, x.idx)

-----------------------------------------------------------------------------
(* Indices, fronts and cardinalities *)

(* A queue of indices has a front. *)
LEMMA FrontOf ==
    ASSUME NEW I \in SUBSET Nat, I # {}
    PROVE  Front(I) \in I /\ \A j \in I : Front(I) <= j
<1> DEFINE R == OpToRel(<, Nat)
<1>1. \A x, y \in Nat : x < y => <<x, y>> \in R
  BY DEF OpToRel
<1>2. IsWellFoundedOn(R, Nat)
  BY NatLessThanWellFounded
<1> HIDE DEF R
<1>3. PICK i \in I : \A j \in I : ~(<<j, i>> \in R)
  BY <1>2, WFMin
<1>4. ASSUME NEW j \in I PROVE i <= j
  <2>1. i \in Nat /\ j \in Nat
    OBVIOUS
  <2>2. ~(j < i)
    BY <1>1, <1>3, <2>1
  <2> QED BY <2>1, <2>2
<1> QED BY <1>4 DEF Front

LEMMA FirstOf ==
    ASSUME NEW S, S # {}, \A x \in S : x.idx \in Nat
    PROVE  First(S) \in S /\ \A x \in S : First(S).idx <= x.idx
<1>1. Indices(S) \in SUBSET Nat /\ Indices(S) # {}
  BY DEF Indices
<1>2. Front(Indices(S)) \in Indices(S) /\ \A j \in Indices(S) : Front(Indices(S)) <= j
  BY <1>1, FrontOf
<1>3. \E x \in S : x.idx = Front(Indices(S))
  BY <1>2 DEF Indices
<1>4. First(S) \in S /\ First(S).idx = Front(Indices(S))
  BY <1>3 DEF First
<1> QED BY <1>2, <1>4 DEF Indices

Distinct(S) == \A x, y \in S : x.idx = y.idx => x = y

(* Elements with distinct indices are as many as their indices. *)
LEMMA IndexCount ==
    ASSUME NEW S, Distinct(S), IsFiniteSet(Indices(S))
    PROVE  IsFiniteSet(S) /\ Cardinality(S) = Cardinality(Indices(S))
<1> DEFINE f == [x \in S |-> x.idx]
<1>1. f \in Injection(S, Indices(S)) /\ f \in Surjection(S, Indices(S))
  BY DEF Distinct, Indices, Injection, Surjection, IsInjective
<1> QED BY <1>1, FS_Injection

(* TailSize consecutive indices hold at most TailSize elements. *)
LEMMA WindowCount ==
    ASSUME NEW S, Distinct(S), NEW a \in Nat,
           \A x \in S : x.idx \in Nat /\ a <= x.idx /\ x.idx < a + TailSize
    PROVE  IsFiniteSet(S) /\ Cardinality(S) <= TailSize
<1> DEFINE I == a .. a + TailSize - 1
<1>1. IsFiniteSet(I) /\ Cardinality(I) = TailSize
  BY FS_Interval, CertifierAssumption
<1>2. Indices(S) \in SUBSET I
  BY CertifierAssumption DEF Indices
<1> HIDE DEF I
<1>3. IsFiniteSet(Indices(S)) /\ Cardinality(Indices(S)) <= TailSize
  BY <1>1, <1>2, FS_Subset
<1> QED BY <1>3, IndexCount

(* One element more or less. *)
LEMMA AddOne ==
    ASSUME NEW S, IsFiniteSet(S), NEW x
    PROVE  /\ IsFiniteSet(S \cup {x})
           /\ Cardinality(S) \in Nat /\ Cardinality(S \cup {x}) \in Nat
           /\ Cardinality(S \cup {x}) <= Cardinality(S) + 1
<1>1. Cardinality(S) \in Nat
  BY FS_CardinalityType
<1>2. /\ IsFiniteSet(S \cup {x})
      /\ Cardinality(S \cup {x}) = IF x \in S THEN Cardinality(S) ELSE Cardinality(S) + 1
  BY FS_AddElement
<1> QED BY <1>1, <1>2

LEMMA RemoveOne ==
    ASSUME NEW S, IsFiniteSet(S), NEW x
    PROVE  /\ IsFiniteSet(S \ {x})
           /\ Cardinality(S) \in Nat /\ Cardinality(S \ {x}) \in Nat
           /\ Cardinality(S \ {x}) <= Cardinality(S)
           /\ x \in S => Cardinality(S \ {x}) = Cardinality(S) - 1
<1>1. Cardinality(S) \in Nat
  BY FS_CardinalityType
<1>2. /\ IsFiniteSet(S \ {x})
      /\ Cardinality(S \ {x}) = IF x \in S THEN Cardinality(S) - 1 ELSE Cardinality(S)
  BY FS_RemoveElement
<1>3. Cardinality(S \ {x}) \in Nat
  BY <1>2, FS_CardinalityType
<1> QED BY <1>1, <1>2, <1>3

(* A bounded queue that drops its front keeps its bound. *)
LEMMA DropFirst ==
    ASSUME NEW S, IsFiniteSet(S), NEW x \in S, NEW n \in Nat, Cardinality(S) <= n + 1
    PROVE  IsFiniteSet(S \ {x}) /\ Cardinality(S \ {x}) <= n
<1>1. /\ IsFiniteSet(S \ {x}) /\ Cardinality(S) \in Nat
      /\ Cardinality(S \ {x}) = Cardinality(S) - 1
  BY RemoveOne
<1> QED BY <1>1

LEMMA BoundedIndicesCount ==
    ASSUME NEW I \in SUBSET Nat, IsFiniteSet(I), Cardinality(I) <= TailSize + 1
    PROVE  Cardinality(BoundedIndices(I)) <= TailSize
<1>1. Cardinality(I) \in Nat
  BY FS_CardinalityType
<1>2. CASE Cardinality(I) > TailSize
  <2>1. I # {}
    BY <1>2, FS_EmptySet, CertifierAssumption
  <2> QED BY <1>2, <2>1, FrontOf, DropFirst, CertifierAssumption DEF BoundedIndices
<1>3. CASE ~(Cardinality(I) > TailSize)
  BY <1>1, <1>3, CertifierAssumption DEF BoundedIndices
<1> QED BY <1>2, <1>3

LEMMA BoundedCount ==
    ASSUME NEW S, \A x \in S : x.idx \in Nat, IsFiniteSet(S),
           Cardinality(S) <= TailSize + 1
    PROVE  Cardinality(Bounded(S)) <= TailSize
<1>1. Cardinality(S) \in Nat
  BY FS_CardinalityType
<1>2. CASE Cardinality(S) > TailSize
  <2>1. S # {}
    BY <1>2, FS_EmptySet, CertifierAssumption
  <2> QED BY <1>2, <2>1, FirstOf, DropFirst, CertifierAssumption DEF Bounded
<1>3. CASE ~(Cardinality(S) > TailSize)
  BY <1>1, <1>3, CertifierAssumption DEF Bounded
<1> QED BY <1>2, <1>3

(* What the tail left behind stays behind. *)
LEMMA LaggingKept ==
    ASSUME NEW A, NEW B, A \subseteq B, IsFiniteSet(B), NEW i, Lagging(A, i)
    PROVE  Lagging(B, i)
<1> DEFINE a == {k \in A : k > i}
<1> DEFINE b == {k \in B : k > i}
<1>1. a \in SUBSET b /\ b \in SUBSET B
  OBVIOUS
<1>2. IsFiniteSet(b)
  BY <1>1, FS_Subset
<1>3. IsFiniteSet(a) /\ Cardinality(a) <= Cardinality(b)
  BY <1>1, <1>2, FS_Subset
<1>4. Cardinality(a) >= TailSize /\ Cardinality(a) \in Nat /\ Cardinality(b) \in Nat
  BY <1>2, <1>3, FS_CardinalityType DEF Lagging
<1> HIDE DEF a, b
<1>5. Cardinality(b) >= TailSize
  BY <1>3, <1>4, CertifierAssumption
<1> QED BY <1>5 DEF b, Lagging

(* TailSize later ones leave an index behind. *)
LEMMA LeftBehind ==
    ASSUME NEW S, NEW sent, S \subseteq sent, IsFiniteSet(sent), NEW i,
           \A k \in S : k > i, Cardinality(S) >= TailSize
    PROVE  Lagging(sent, i)
<1>1. {k \in S : k > i} = S
  OBVIOUS
<1>2. Lagging(S, i)
  BY <1>1 DEF Lagging
<1> QED BY <1>2, LaggingKept

(* A link skips only what the tail left behind. *)
LEMMA SkippedLags ==
    ASSUME NEW sent, NEW from, NEW i \in Readable(sent, from), NEW j \in sent,
           from <= j, j < i
    PROVE  Lagging(sent, j)
BY DEF Readable, Lagging
(* Elements of a set of acknowledgements are finitely many, one per index. *)
LEMMA AckedCount ==
    ASSUME NEW A \in SUBSET Share, NEW n \in Nat, \A a \in A : a.idx < n,
           Distinct(A), NEW S \in SUBSET A
    PROVE  /\ IsFiniteSet(S) /\ Distinct(S) /\ \A x \in S : x.idx \in Nat
           /\ IsFiniteSet(Indices(S)) /\ Cardinality(Indices(S)) = Cardinality(S)
<1>1. Distinct(S) /\ \A x \in S : x.idx \in Nat
  BY DEF Distinct, Share
<1>2. Indices(S) \in SUBSET Nat /\ \A i \in Indices(S) : i <= n
  BY DEF Indices, Share
<1>3. IsFiniteSet(Indices(S))
  BY <1>2, FS_BoundedSetOfNaturals
<1> QED BY <1>1, <1>3, IndexCount

LEMMA AckedFinite ==
    ASSUME WellTyped, Sound, NEW r \in Replica, NEW S \in SUBSET acknowledged[r]
    PROVE  /\ IsFiniteSet(S) /\ Distinct(S) /\ \A x \in S : x.idx \in Nat
           /\ IsFiniteSet(Indices(S)) /\ Cardinality(Indices(S)) = Cardinality(S)
<1>1. /\ acknowledged[r] \in SUBSET Share /\ next_index[r] \in Nat
      /\ \A a \in acknowledged[r] : a.idx < next_index[r]
      /\ Distinct(acknowledged[r])
  BY DEF WellTyped, Sound, SoundAt, AckedOnce, Distinct
<1> HIDE DEF Distinct
<1> QED BY <1>1, AckedCount

(* A set of indices that a replica acknowledged is finite. *)
LEMMA AckedIndicesFinite ==
    ASSUME WellTyped, Sound, NEW r \in Replica, NEW I \in SUBSET Indices(acknowledged[r])
    PROVE  IsFiniteSet(I) /\ I \in SUBSET Nat /\ \A i \in I : i < next_index[r]
<1>1. IsFiniteSet(Indices(acknowledged[r]))
  BY AckedFinite
<1>2. \A i \in Indices(acknowledged[r]) : i \in Nat /\ i < next_index[r]
  BY DEF WellTyped, Sound, SoundAt, AckedOnce, Indices, Share
<1> QED BY <1>1, <1>2, FS_Subset

-----------------------------------------------------------------------------
(* The pipeline of shares *)

LEMMA PipelineKept ==
    ASSUME NEW q \in Replica, Pipeline(q),
           acknowledged[q] \subseteq acknowledged'[q],
           queued_share_computations'[q] = queued_share_computations[q],
           share_tasks'[q] = share_tasks[q], computing'[q] = computing[q],
           computed_shares'[q] = computed_shares[q],
           sorted_computed_shares'[q] = sorted_computed_shares[q],
           shares'[q] = shares[q]
    PROVE  Pipeline(q)'
<1>1. Started(q)' = Started(q)
  BY DEF Started
<1>2. Places(q)'
  BY DEF Pipeline, Places, Indices
<1> QED BY <1>1, <1>2 DEF Pipeline, PipelineOrder, PipelineBounds

(* What a worker took, and what was sent, was acknowledged. *)
LEMMA StartedAcked ==
    ASSUME WellTyped, Sound, NEW r \in Replica
    PROVE  /\ Started(r) \subseteq acknowledged[r]
           /\ \A x \in acknowledged[r] : x \in Share /\ x.idx \in Nat
           /\ \A x, y \in acknowledged[r] : x.idx = y.idx => x = y
<1>1. SoundAt(r)
  BY DEF Sound
<1>2. \A k \in 1 .. Len(computed_shares[r]) : computed_shares[r][k] \in acknowledged[r]
  BY <1>1 DEF SoundAt, ComputedSound
<1>3. Started(r) \subseteq acknowledged[r]
  BY <1>1, <1>2 DEF SoundAt, ComputedSound, Started
<1> QED BY <1>1, <1>3 DEF SoundAt, AckedOnce, WellTyped, Share

LEMMA StartPipeline ==
    ASSUME WellTyped, Sound, NEW r \in Replica, Pipeline(r), StartComputation(r)
    PROVE  Pipeline(r)'
<1>1. PICK t \in share_tasks[r] :
         /\ \A u \in share_tasks[r] : t.idx <= u.idx
         /\ share_tasks' = [share_tasks EXCEPT ![r] = @ \ {t}]
         /\ computing' = [computing EXCEPT ![r] = @ \cup {t}]
  BY DEF StartComputation
<1>2. /\ share_tasks'[r] = share_tasks[r] \ {t}
      /\ computing'[r] = computing[r] \cup {t}
      /\ UNCHANGED <<queued_share_computations, computed_shares,
                     sorted_computed_shares, shares, acknowledged>>
  BY <1>1 DEF WellTyped, StartComputation, tailVars
<1>3. Started(r)' = Started(r) \cup {t}
  BY <1>2 DEF Started
<1>4. /\ share_tasks[r] \subseteq acknowledged[r] /\ computing[r] \subseteq acknowledged[r]
      /\ Started(r) \subseteq acknowledged[r]
      /\ \A x \in acknowledged[r] : x.idx \in Nat
      /\ \A x, y \in acknowledged[r] : x.idx = y.idx => x = y
  BY StartedAcked DEF Sound, SoundAt, ComputedSound
<1>5. \A u \in share_tasks'[r] : u \in share_tasks[r] /\ t.idx < u.idx
  BY <1>1, <1>2, <1>4
<1>6. PipelineOrder(r)'
  BY <1>2, <1>3, <1>5 DEF Pipeline, PipelineOrder
<1>7. Places(r)'
  BY <1>2 DEF Pipeline, Places
<1>8. PipelineBounds(r)'
  <2>1. IsFiniteSet(share_tasks[r]) /\ IsFiniteSet(computing[r])
    BY <1>4, AckedFinite
  <2>2. Cardinality(share_tasks'[r]) <= TailSize
    <3>1. /\ Cardinality(share_tasks[r] \ {t}) <= Cardinality(share_tasks[r])
          /\ Cardinality(share_tasks[r]) \in Nat
          /\ Cardinality(share_tasks[r] \ {t}) \in Nat
      BY <2>1, RemoveOne
    <3> QED BY <1>2, <3>1, CertifierAssumption DEF Pipeline, PipelineBounds
  <2>3. Cardinality(computing'[r]) <= Workers
    <3>1. Cardinality(computing[r]) < Workers
      BY DEF StartComputation
    <3>2. /\ Cardinality(computing[r]) \in Nat
          /\ Cardinality(computing[r] \cup {t}) \in Nat
          /\ Cardinality(computing[r] \cup {t}) <= Cardinality(computing[r]) + 1
      BY <2>1, AddOne
    <3> QED BY <1>2, <3>1, <3>2, CertifierAssumption
  <2> QED BY <1>2, <2>2, <2>3 DEF Pipeline, PipelineBounds
<1> QED BY <1>6, <1>7, <1>8 DEF Pipeline

LEMMA FinishPipeline ==
    ASSUME WellTyped, Sound, NEW r \in Replica, Pipeline(r), FinishComputation(r)
    PROVE  Pipeline(r)'
<1>1. PICK t \in computing[r] :
         /\ computing' = [computing EXCEPT ![r] = @ \ {t}]
         /\ computed_shares' = [computed_shares EXCEPT ![r] = Append(@, t)]
  BY DEF FinishComputation
<1>2. /\ computing'[r] = computing[r] \ {t}
      /\ computed_shares'[r] = Append(computed_shares[r], t)
      /\ UNCHANGED <<queued_share_computations, share_tasks,
                     sorted_computed_shares, shares, acknowledged>>
  BY <1>1 DEF WellTyped, FinishComputation, tailVars
<1>3. Started(r)' \subseteq Started(r)
  <2>1. \A k \in 1 .. Len(computed_shares'[r]) :
           \/ computed_shares'[r][k] = t
           \/ k \in 1 .. Len(computed_shares[r]) /\ computed_shares'[r][k] = computed_shares[r][k]
    BY <1>2 DEF WellTyped
  <2> QED BY <1>1, <1>2, <2>1 DEF Started
<1>4. PipelineOrder(r)'
  BY <1>2, <1>3 DEF Pipeline, PipelineOrder
<1>5. Places(r)'
  BY <1>2 DEF Pipeline, Places
<1>6. PipelineBounds(r)'
  <2>1. computing[r] \subseteq acknowledged[r]
    BY DEF Sound, SoundAt, ComputedSound
  <2>2. IsFiniteSet(computing[r])
    BY <2>1, AckedFinite
  <2>3. /\ Cardinality(computing[r] \ {t}) = Cardinality(computing[r]) - 1
        /\ Cardinality(computing[r]) \in Nat
    BY <2>2, RemoveOne
  <2> QED BY <1>2, <2>3, CertifierAssumption DEF Pipeline, PipelineBounds
<1> QED BY <1>4, <1>5, <1>6 DEF Pipeline
(* The last of some indices. *)
LEMMA LastOf ==
    ASSUME NEW I \in SUBSET Nat, I # {}, NEW n \in Nat, \A i \in I : i < n
    PROVE  \E last \in I : \A j \in I : j <= last
<1> DEFINE J == {n - i : i \in I}
<1>1. J \in SUBSET Nat /\ J # {}
  <2>1. \A i \in I : n - i \in Nat
    OBVIOUS
  <2> QED BY <2>1
<1>2. Front(J) \in J /\ \A j \in J : Front(J) <= j
  BY <1>1, FrontOf
<1>3. PICK i \in I : Front(J) = n - i
  BY <1>2
<1>4. ASSUME NEW j \in I PROVE j <= i
  <2>1. n - i <= n - j
    BY <1>2, <1>3
  <2> QED BY <2>1
<1> QED BY <1>4

(* The elements with fewer than TailSize later ones are at most TailSize. *)
LEMMA TopCount ==
    ASSUME NEW S, IsFiniteSet(S), Distinct(S), \A x \in S : x.idx \in Nat
    PROVE  Cardinality({t \in S : Cardinality({u \in S : u.idx > t.idx}) < TailSize})
              <= TailSize
<1> DEFINE Later(t) == {u \in S : u.idx > t.idx}
<1> DEFINE top == {t \in S : Cardinality(Later(t)) < TailSize}
<1>1. CASE top = {}
  <2>1. Cardinality({}) <= TailSize
    BY FS_EmptySet, CertifierAssumption
  <2> QED BY <1>1, <2>1
<1>2. CASE top # {}
  <2>1. top \in SUBSET S
    OBVIOUS
  <2>2. IsFiniteSet(top)
    BY <2>1, FS_Subset
  <2>3. PICK t \in top : \A u \in top : t.idx <= u.idx
    <3>1. \A x \in top : x.idx \in Nat
      BY <2>1
    <3> HIDE DEF top
    <3> QED BY <1>2, <3>1, FirstOf
  <2>4. top \ {t} \in SUBSET Later(t)
    BY <2>1, <2>3 DEF Distinct
  <2>5. Cardinality(Later(t)) < TailSize
    BY <2>3
  <2>6. IsFiniteSet(Later(t))
    BY FS_Subset
  <2> HIDE DEF top, Later
  <2>7. Cardinality(top \ {t}) <= Cardinality(Later(t)) /\ Cardinality(Later(t)) \in Nat
    BY <2>4, <2>6, FS_Subset, FS_CardinalityType
  <2>8. /\ Cardinality(top) \in Nat /\ Cardinality(top \ {t}) \in Nat
        /\ Cardinality(top \ {t}) = Cardinality(top) - 1
    BY <2>2, <2>3, RemoveOne
  <2>9. Cardinality(top) <= TailSize
    BY <2>5, <2>7, <2>8, CertifierAssumption
  <2> QED BY <2>9 DEF top, Later
<1> QED BY <1>1, <1>2

LEMMA OffloadPipeline ==
    ASSUME WellTyped, Sound, NEW r \in Replica, Pipeline(r), OffloadShareComputation(r)
    PROVE  Pipeline(r)'
<1> DEFINE queued == queued_share_computations[r]
<1> DEFINE tasks == share_tasks[r] \cup queued
<1> DEFINE top == {t \in tasks : Cardinality({u \in tasks : u.idx > t.idx}) < TailSize}
<1> DEFINE last == CHOOSE i \in Indices(queued) : \A j \in Indices(queued) : j <= i
<1> DEFINE new == {[idx |-> q.idx, share |-> {}] : q \in queued}
<1> DEFINE places == {e \in sorted_computed_shares[r] \cup new : InTail(e.idx, last)}
<1>1. /\ share_tasks'[r] = top /\ sorted_computed_shares'[r] = places
      /\ queued_share_computations'[r] = {}
      /\ UNCHANGED <<computing, computed_shares, shares, acknowledged>>
  BY DEF OffloadShareComputation, WellTyped, tailVars
<1>2. /\ queued \subseteq acknowledged[r] /\ share_tasks[r] \subseteq acknowledged[r]
      /\ shares[r] \subseteq acknowledged[r] /\ Started(r) \subseteq acknowledged[r]
      /\ \A x \in acknowledged[r] : x.idx \in Nat
  BY StartedAcked DEF Sound, SoundAt, ComputedSound
<1>3. \A e \in sorted_computed_shares[r] : e.idx \in Nat
  BY DEF WellTyped
<1>4. last \in Indices(queued) /\ \A j \in Indices(queued) : j <= last
  <2>1. Indices(queued) \in SUBSET Indices(acknowledged[r]) /\ next_index[r] \in Nat
    BY <1>2 DEF Indices, WellTyped
  <2>2. /\ Indices(queued) \in SUBSET Nat
        /\ \A i \in Indices(queued) : i < next_index[r]
    BY <2>1, AckedIndicesFinite
  <2>3. Indices(queued) # {}
    BY DEF OffloadShareComputation, Indices
  <2> HIDE DEF queued
  <2>4. \E l \in Indices(queued) : \A j \in Indices(queued) : j <= l
    BY <2>1, <2>2, <2>3, LastOf
  <2> QED BY <2>4 DEF last
<1>5. PICK young \in queued : young.idx = last /\ \A q \in queued : q.idx <= last
  BY <1>4 DEF Indices
<1> HIDE DEF last
<1>6. \A t \in tasks : t.idx \in Nat /\ t.idx <= last
  BY <1>2, <1>5 DEF Pipeline, PipelineOrder
<1>7. \A e \in places : e.idx \in Nat /\ e.idx <= last /\ last < e.idx + TailSize
  <2>1. \A e \in sorted_computed_shares[r] : e.idx <= last
    BY <1>2, <1>3, <1>5 DEF Pipeline, PipelineOrder
  <2>2. \A e \in new : e.idx \in Nat /\ e.idx <= last
    BY <1>2, <1>5
  <2> QED BY <1>3, <2>1, <2>2 DEF InTail
<1>8. \A e \in places :
         \/ e \in sorted_computed_shares[r]
         \/ \E q \in queued : e.idx = q.idx /\ e.share = {} /\ e = [idx |-> q.idx, share |-> {}]
  OBVIOUS
<1> HIDE DEF places, new
<1>9. Started(r)' \subseteq Started(r)
  BY <1>1, <1>8 DEF Started
<1>10. top \subseteq tasks
  OBVIOUS
<1>11. PipelineOrder(r)'
  <2> HIDE DEF top
  <2>1. \A t \in top : \A u \in Started(r) : u.idx < t.idx
    BY <1>10 DEF Pipeline, PipelineOrder
  <2>2. last \in Nat
    BY <1>2, <1>5
  <2>3. \A t \in top : \A e \in places : t.idx < e.idx + TailSize
    BY <1>6, <1>7, <1>10, <2>2, CertifierAssumption
  <2> QED BY <1>1, <1>9, <2>1, <2>3 DEF PipelineOrder
<1>12. Places(r)'
  <2>1. ASSUME NEW e \in places
        PROVE  /\ e.idx \in Indices(acknowledged[r])
               /\ \A x \in e.share : x.idx = e.idx
               /\ \A x \in shares[r] : x.idx < e.idx
    BY <1>2, <1>8 DEF Pipeline, PipelineOrder, Places, Indices
  <2>2. ASSUME NEW e \in places, NEW f \in places
        PROVE  f.idx < e.idx + TailSize
    <3>1. last \in Nat
      BY <1>2, <1>5
    <3> QED BY <1>7, <3>1, CertifierAssumption
  <2>3. \A e \in sorted_computed_shares[r], q \in queued : e.idx # q.idx
    BY <1>2, <1>3 DEF Pipeline, PipelineOrder
  <2>4. ASSUME NEW e \in places, NEW f \in places, f.idx = e.idx
        PROVE  f = e
    <3>1. CASE e \in sorted_computed_shares[r] /\ f \in sorted_computed_shares[r]
      BY <2>4, <3>1 DEF Pipeline, Places
    <3>2. CASE e \in sorted_computed_shares[r] /\ f \notin sorted_computed_shares[r]
      BY <1>8, <2>3, <2>4, <3>2
    <3>3. CASE e \notin sorted_computed_shares[r] /\ f \in sorted_computed_shares[r]
      BY <1>8, <2>3, <2>4, <3>3
    <3>4. CASE e \notin sorted_computed_shares[r] /\ f \notin sorted_computed_shares[r]
      <4>1. PICK q \in queued : e = [idx |-> q.idx, share |-> {}]
        BY <1>8, <3>4
      <4>2. PICK p \in queued : f = [idx |-> p.idx, share |-> {}]
        BY <1>8, <3>4
      <4> QED BY <2>4, <4>1, <4>2
    <3> QED BY <3>1, <3>2, <3>3, <3>4
  <2> QED BY <1>1, <2>1, <2>2, <2>4 DEF Places
<1>13. PipelineBounds(r)'
  <2>1. tasks \subseteq acknowledged[r]
    BY <1>2
  <2> HIDE DEF tasks
  <2>2. IsFiniteSet(tasks) /\ Distinct(tasks) /\ \A x \in tasks : x.idx \in Nat
    BY <2>1, AckedFinite
  <2>3. Cardinality(top) <= TailSize
    BY <2>2, TopCount
  <2> HIDE DEF top
  <2> QED BY <1>1, <2>3, FS_EmptySet, CertifierAssumption DEF Pipeline, PipelineBounds
<1> QED BY <1>11, <1>12, <1>13 DEF Pipeline

LEMMA PollComputedPipeline ==
    ASSUME WellTyped, Sound, NEW r \in Replica, Pipeline(r), PollComputedShares(r)
    PROVE  Pipeline(r)' /\ \A x \in shares'[r] : x \in shares[r] \/
              \E e \in sorted_computed_shares[r] : x.idx = e.idx
<1> DEFINE computed == {computed_shares[r][k] : k \in 1 .. Len(computed_shares[r])}
<1> DEFINE Fill(e) == [idx |-> e.idx,
                       share |-> e.share \cup {c \in computed : c.idx = e.idx}]
<1> DEFINE filled == {Fill(e) : e \in sorted_computed_shares[r]}
<1> DEFINE useful == {e \in filled : e.idx >= Front(Indices(msg_tail[r]))}
<1> DEFINE out == Sendable(useful)
<1> DEFINE sent == UNION {e.share : e \in out}
<1>1. /\ computed_shares'[r] = << >> /\ sorted_computed_shares'[r] = useful \ out
      /\ shares'[r] = shares[r] \cup sent
      /\ UNCHANGED <<queued_share_computations, share_tasks, computing, acknowledged>>
  BY DEF PollComputedShares, WellTyped, tailVars
<1>2. /\ Started(r) \subseteq acknowledged[r] /\ shares[r] \subseteq acknowledged[r]
      /\ \A x \in acknowledged[r] : x.idx \in Nat
  BY StartedAcked DEF Sound, SoundAt, ComputedSound
<1>3. \A e \in sorted_computed_shares[r] : e.idx \in Nat
  BY DEF WellTyped
<1>4. computed \subseteq Started(r)
  BY DEF Started
<1> HIDE DEF computed
<1>5. ASSUME NEW e \in sorted_computed_shares[r]
      PROVE  /\ Fill(e).idx = e.idx /\ Fill(e).share \subseteq Started(r)
             /\ \A x \in Fill(e).share : x.idx = e.idx
  BY <1>4 DEF Started, Pipeline, Places
<1>6. \A f \in useful : \E e \in sorted_computed_shares[r] : f = Fill(e)
  OBVIOUS
<1> HIDE DEF Fill, useful
<1>7. out \subseteq useful /\ \A e \in out, f \in useful \ out : e.idx < f.idx
  <2>1. ASSUME NEW e \in out, NEW f \in useful \ out PROVE e.idx < f.idx
    <3>1. e \in useful /\ \A d \in useful : d.idx <= e.idx => d.share # {}
      BY DEF Sendable
    <3>2. PICK d \in useful : d.idx <= f.idx /\ d.share = {}
      BY DEF Sendable
    <3>3. d.idx \in Nat /\ e.idx \in Nat /\ f.idx \in Nat
      BY <1>3, <1>5, <1>6, <3>1
    <3> QED BY <3>1, <3>2, <3>3
  <2> QED BY <2>1 DEF Sendable
<1> HIDE DEF out
<1>8. \A x \in sent : x \in Started(r) /\ \E e \in out : x.idx = e.idx
  BY <1>5, <1>6, <1>7
<1> HIDE DEF sent
<1>9. Started(r)' \subseteq Started(r)
  <2>1. UNION {e.share : e \in useful \ out} \subseteq Started(r)
    BY <1>5, <1>6
  <2>2. computed_shares'[r] = << >> /\ computing'[r] = computing[r]
    BY <1>1
  <2>3. {computed_shares'[r][k] : k \in 1 .. Len(computed_shares'[r])} = {}
    BY <2>2
  <2> QED BY <1>1, <2>1, <2>2, <2>3 DEF Started
<1>10. \A f \in useful : \E e \in sorted_computed_shares[r] : f.idx = e.idx
  BY <1>5, <1>6
<1>11. PipelineOrder(r)'
  <2>1. ASSUME NEW q \in queued_share_computations[r]
        PROVE  /\ \A t \in share_tasks[r] \cup Started(r) \cup shares[r] \cup sent : t.idx < q.idx
               /\ \A e \in useful : e.idx < q.idx
    BY <1>8, <1>10 DEF Pipeline, PipelineOrder
  <2>2. ASSUME NEW t \in share_tasks[r]
        PROVE  /\ \A u \in Started(r) : u.idx < t.idx
               /\ \A e \in useful : t.idx < e.idx + TailSize
    BY <1>10 DEF Pipeline, PipelineOrder
  <2> QED BY <1>1, <1>9, <2>1, <2>2 DEF PipelineOrder
<1>12. Places(r)'
  <2>1. ASSUME NEW f \in useful \ out
        PROVE  /\ f.idx \in Indices(acknowledged[r])
               /\ \A x \in f.share : x.idx = f.idx
               /\ \A x \in shares[r] \cup sent : x.idx < f.idx
    <3>1. PICK e \in sorted_computed_shares[r] : f = Fill(e)
      BY <1>6
    <3>2. \A x \in sent : x.idx < f.idx
      BY <1>7, <1>8
    <3> QED BY <1>5, <3>1, <3>2 DEF Pipeline, Places
  <2>2. ASSUME NEW e \in useful, NEW f \in useful
        PROVE  f.idx < e.idx + TailSize /\ (f.idx = e.idx => f = e)
    <3>1. PICK e0 \in sorted_computed_shares[r] : e = Fill(e0)
      BY <1>6
    <3>2. PICK f0 \in sorted_computed_shares[r] : f = Fill(f0)
      BY <1>6
    <3> QED BY <1>5, <3>1, <3>2 DEF Pipeline, Places
  <2> QED BY <1>1, <2>1, <2>2 DEF Places
<1>13. PipelineBounds(r)'
  BY <1>1 DEF Pipeline, PipelineBounds
<1>14. \A x \in shares'[r] : x \in shares[r] \/
          \E e \in sorted_computed_shares[r] : x.idx = e.idx
  BY <1>1, <1>7, <1>8, <1>10
<1> QED BY <1>11, <1>12, <1>13, <1>14 DEF Pipeline
(* The tasks in the pool's queue and the shares that wait for their turn    *)
(* fit in one tail: if a share is stored, every task is younger and less    *)
(* than a tail away.                                                        *)
LEMMA TasksAndShares ==
    ASSUME WellTyped, Sound, NEW r \in Replica, Pipeline(r)
    PROVE  LET stored == {e \in sorted_computed_shares[r] : e.share # {}} IN
           /\ Cardinality(share_tasks[r]) \in Nat /\ Cardinality(stored) \in Nat
           /\ Cardinality(share_tasks[r]) + Cardinality(stored) <= TailSize
<1> DEFINE stored == {e \in sorted_computed_shares[r] : e.share # {}}
<1> DEFINE tasks == share_tasks[r]
<1>1. /\ tasks \subseteq acknowledged[r] /\ Started(r) \subseteq acknowledged[r]
      /\ \A x \in acknowledged[r] : x.idx \in Nat
  BY StartedAcked DEF Sound, SoundAt, ComputedSound
<1>2. /\ IsFiniteSet(tasks) /\ IsFiniteSet(Indices(tasks))
      /\ Cardinality(Indices(tasks)) = Cardinality(tasks)
  BY <1>1, AckedFinite
<1>3. Cardinality(tasks) \in Nat /\ Cardinality(tasks) <= TailSize
  BY <1>2, FS_CardinalityType DEF Pipeline, PipelineBounds
<1>4. Distinct(stored) /\ \A e \in stored : e.idx \in Nat
  BY DEF Pipeline, Places, Distinct, WellTyped
<1>5. CASE stored = {}
  <2>1. Cardinality({}) = 0
    BY FS_EmptySet
  <2> QED BY <1>3, <1>5, <2>1, CertifierAssumption
<1>6. CASE stored # {}
  <2>1. PICK first \in stored : \A e \in stored : first.idx <= e.idx
    <3> HIDE DEF stored
    <3> QED BY <1>4, <1>6, FirstOf
  <2>2. \A e \in stored : \A t \in tasks : e.idx < t.idx
    <3>1. ASSUME NEW e \in stored, NEW t \in tasks PROVE e.idx < t.idx
      <4>1. PICK x \in e.share : x.idx = e.idx
        BY DEF Pipeline, Places
      <4>2. x \in Started(r)
        BY DEF Started
      <4> QED BY <4>1, <4>2 DEF Pipeline, PipelineOrder
    <3> QED BY <3>1
  <2> DEFINE I == first.idx .. first.idx + TailSize - 1
  <2>3. first.idx \in Nat /\ IsFiniteSet(I) /\ Cardinality(I) = TailSize
    <3>1. first.idx \in Nat /\ first.idx + TailSize - 1 \in Int
      BY <1>4, CertifierAssumption
    <3>2. PICK b \in Nat : b = first.idx
      BY <3>1
    <3>3. IsFiniteSet(b .. b + TailSize - 1) /\ Cardinality(b .. b + TailSize - 1) = TailSize
      BY FS_Interval, CertifierAssumption
    <3> QED BY <3>1, <3>2, <3>3
  <2>4. Indices(tasks) \subseteq I
    BY <1>1, <2>1, <2>2, <2>3, CertifierAssumption DEF Indices, Pipeline, PipelineOrder
  <2>5. Indices(stored) \subseteq I
    BY <1>4, <2>1, <2>3, CertifierAssumption DEF Indices, Pipeline, Places
  <2>6. Indices(tasks) \cap Indices(stored) = {}
    <3>1. \A e \in stored : \A t \in tasks : e.idx # t.idx
      BY <1>1, <1>4, <2>2
    <3> QED BY <3>1 DEF Indices
  <2> HIDE DEF stored, tasks, I
  <2>7. IsFiniteSet(Indices(stored))
    BY <2>3, <2>5, FS_Subset
  <2>8. IsFiniteSet(stored) /\ Cardinality(stored) = Cardinality(Indices(stored))
    BY <1>4, <2>7, IndexCount
  <2>9. Cardinality(stored) \in Nat
    BY <2>8, FS_CardinalityType
  <2> DEFINE U == Indices(tasks) \cup Indices(stored)
  <2>10. U \in SUBSET I
    BY <2>4, <2>5
  <2>11. Cardinality(U) <= TailSize
    BY <2>3, <2>10, FS_Subset
  <2>12. Cardinality(U) = Cardinality(Indices(tasks)) + Cardinality(Indices(stored))
                            - Cardinality({})
    BY <1>2, <2>6, <2>7, FS_Union
  <2>13. Cardinality({}) = 0
    BY FS_EmptySet
  <2> HIDE DEF U
  <2>14. Cardinality(tasks) + Cardinality(stored) <= TailSize
    BY <1>2, <1>3, <2>8, <2>9, <2>11, <2>12, <2>13
  <2> QED BY <1>3, <2>9, <2>14 DEF tasks, stored
<1> QED BY <1>5, <1>6

LEMMA EmptiedLength ==
    ASSUME NEW S, NEW computed \in Seq(S)
    PROVE  Len(Emptied(computed)) \in Nat /\ Len(Emptied(computed)) <= TailSize - 1
<1> DEFINE first == Len(computed) - TailSize + 2
<1>1. CASE Len(computed) < TailSize
  BY <1>1, CertifierAssumption DEF Emptied
<1>2. CASE ~(Len(computed) < TailSize)
  <2>1. first \in Int /\ Len(computed) \in Int /\ first >= 1
    BY <1>2, CertifierAssumption
  <2>2. Len(SubSeq(computed, first, Len(computed))) =
           IF first <= Len(computed) THEN Len(computed) - first + 1 ELSE 0
    BY <2>1, SubSeqProperties
  <2>3. Len(Emptied(computed)) = TailSize - 1
    BY <1>2, <2>1, <2>2, CertifierAssumption DEF Emptied
  <2> QED BY <2>3, CertifierAssumption
<1> QED BY <1>1, <1>2

LEMMA EmptiedElements ==
    ASSUME NEW S, NEW computed \in Seq(S),
           NEW k \in 1 .. Len(Emptied(computed))
    PROVE  \E j \in 1 .. Len(computed) : Emptied(computed)[k] = computed[j]
<1> DEFINE first == Len(computed) - TailSize + 2
<1>1. CASE Len(computed) < TailSize
  BY <1>1 DEF Emptied
<1>2. CASE ~(Len(computed) < TailSize)
  <2>1. first \in Int /\ Len(computed) \in Int /\ first >= 1
    BY <1>2, CertifierAssumption
  <2>2. Emptied(computed) = SubSeq(computed, first, Len(computed))
    BY <1>2 DEF Emptied
  <2>3. Len(SubSeq(computed, first, Len(computed))) =
           IF first <= Len(computed) THEN Len(computed) - first + 1 ELSE 0
    BY <2>1, SubSeqProperties
  <2>4. first + k - 1 \in 1 .. Len(computed)
    BY <2>1, <2>2, <2>3
  <2>5. SubSeq(computed, first, Len(computed))[k] = computed[first + k - 1]
    BY <2>1, <2>2, <2>3, SubSeqProperties
  <2> QED BY <2>2, <2>4, <2>5
<1> QED BY <1>1, <1>2

(* Before acknowledge takes a buffer, one of the pool's is free. *)
LEMMA BufferLeft ==
    ASSUME WellTyped, Sound, NEW r \in Replica, Pipeline(r),
           NEW queued, Cardinality(queued) \in Nat, Cardinality(queued) <= TailSize - 1
    PROVE  TakenBuffers(r, queued, Emptied(computed_shares[r])) + 1 <= PoolSize
<1> DEFINE stored == {e \in sorted_computed_shares[r] : e.share # {}}
<1>1. /\ Cardinality(share_tasks[r]) \in Nat /\ Cardinality(stored) \in Nat
      /\ Cardinality(share_tasks[r]) + Cardinality(stored) <= TailSize
  BY TasksAndShares
<1>2. /\ Len(Emptied(computed_shares[r])) \in Nat
      /\ Len(Emptied(computed_shares[r])) <= TailSize - 1
  BY EmptiedLength DEF WellTyped
<1>3. Cardinality(computing[r]) \in Nat /\ Cardinality(computing[r]) <= Workers
  <2>1. computing[r] \subseteq acknowledged[r]
    BY DEF Sound, SoundAt, ComputedSound
  <2>2. IsFiniteSet(computing[r])
    BY <2>1, AckedFinite
  <2> QED BY <2>2, FS_CardinalityType DEF Pipeline, PipelineBounds
<1> HIDE DEF stored
<1>4. TakenBuffers(r, queued, Emptied(computed_shares[r])) =
         Cardinality(queued) + Cardinality(share_tasks[r]) + Cardinality(computing[r])
           + Len(Emptied(computed_shares[r])) + Cardinality(stored)
  BY DEF TakenBuffers, stored
<1> QED BY <1>1, <1>2, <1>3, <1>4, CertifierAssumption DEF PoolSize

LEMMA AcknowledgePipeline ==
    ASSUME WellTyped, Sound, NEW r \in Replica, Pipeline(r), NEW i \in Nat,
           NEW m \in Message, Acknowledge(r, i, m)
    PROVE  /\ Pipeline(r)' /\ UNCHANGED err
           /\ TakenBuffers(r, queued_share_computations'[r], computed_shares'[r])
                <= PoolSize
<1> DEFINE a == [idx |-> i, msg |-> m]
<1> DEFINE Q == queued_share_computations[r]
<1> DEFINE queued == IF Cardinality(Q) + 1 > TailSize THEN Q \ {First(Q)} ELSE Q
<1> DEFINE computed == Emptied(computed_shares[r])
<1>1. /\ Q \subseteq acknowledged[r] /\ share_tasks[r] \subseteq acknowledged[r]
      /\ shares[r] \subseteq acknowledged[r] /\ Started(r) \subseteq acknowledged[r]
      /\ \A x \in acknowledged[r] : x.idx \in Nat /\ x.idx < next_index[r]
  BY StartedAcked DEF Sound, SoundAt, ComputedSound, AckedOnce
<1>2. next_index[r] \in Nat /\ next_index[r] <= i
  BY DEF Acknowledge, Acknowledgeable, WellTyped
<1>3. IsFiniteSet(Q) /\ Cardinality(Q) \in Nat /\ Cardinality(Q) <= TailSize
  <2>1. IsFiniteSet(Q)
    BY <1>1, AckedFinite
  <2> QED BY <2>1, FS_CardinalityType DEF Pipeline, PipelineBounds
<1>4. /\ queued \subseteq Q /\ IsFiniteSet(queued) /\ Cardinality(queued) \in Nat
      /\ Cardinality(queued) <= TailSize - 1
  <2>1. CASE Cardinality(Q) + 1 > TailSize
    <3>1. Q # {}
      BY <1>3, <2>1, FS_EmptySet, CertifierAssumption
    <3>2. First(Q) \in Q
      BY <1>1, <3>1, FirstOf
    <3>3. /\ IsFiniteSet(Q \ {First(Q)}) /\ Cardinality(Q \ {First(Q)}) \in Nat
          /\ Cardinality(Q \ {First(Q)}) = Cardinality(Q) - 1
      BY <1>3, <3>2, RemoveOne
    <3>4. queued = Q \ {First(Q)}
      BY <2>1
    <3> HIDE DEF queued, Q
    <3> QED BY <1>3, <3>3, <3>4, CertifierAssumption
  <2>2. CASE ~(Cardinality(Q) + 1 > TailSize)
    <3>1. queued = Q
      BY <2>2
    <3> HIDE DEF queued, Q
    <3> QED BY <1>3, <2>2, <3>1, CertifierAssumption
  <2> QED BY <2>1, <2>2
<1>5. TakenBuffers(r, queued, computed) + 1 <= PoolSize
  <2> HIDE DEF queued
  <2> QED BY <1>4, BufferLeft
<1>6. UNCHANGED err /\ queued_share_computations' =
         [queued_share_computations EXCEPT ![r] = queued \cup {a}]
  BY DEF Acknowledge
<1>7. /\ queued_share_computations'[r] = queued \cup {a}
      /\ computed_shares'[r] = computed
      /\ acknowledged[r] \subseteq acknowledged'[r]
      /\ UNCHANGED <<share_tasks, computing, sorted_computed_shares, shares>>
  BY <1>6 DEF Acknowledge, WellTyped
<1>8. Started(r)' \subseteq Started(r)
  <2>1. \A k \in 1 .. Len(computed) : \E j \in 1 .. Len(computed_shares[r]) :
           computed[k] = computed_shares[r][j]
    <3>1. computed_shares[r] \in Seq(Share)
      BY DEF WellTyped
    <3> QED BY <3>1, EmptiedElements
  <2> HIDE DEF computed
  <2> QED BY <1>7, <2>1 DEF Started
<1> HIDE DEF queued, computed
<1>9. PipelineOrder(r)'
  <2>1. \A x \in acknowledged[r] : x.idx < a.idx
    BY <1>1, <1>2
  <2>2. \A e \in sorted_computed_shares[r] : e.idx < a.idx
    BY <2>1 DEF Pipeline, Places, Indices
  <2> HIDE DEF a
  <2>3. ASSUME NEW q \in queued \cup {a}
        PROVE  /\ \A t \in share_tasks[r] \cup Started(r) \cup shares[r] : t.idx < q.idx
               /\ \A e \in sorted_computed_shares[r] : e.idx < q.idx
    BY <1>1, <1>4, <2>1, <2>2 DEF Pipeline, PipelineOrder
  <2> QED BY <1>7, <1>8, <2>3 DEF Pipeline, PipelineOrder
<1>10. Places(r)'
  BY <1>7 DEF Pipeline, Places, Indices
<1>11. PipelineBounds(r)'
  <2> HIDE DEF a
  <2>1. /\ Cardinality(queued \cup {a}) \in Nat
        /\ Cardinality(queued \cup {a}) <= Cardinality(queued) + 1
    BY <1>4, AddOne
  <2> QED BY <1>4, <1>7, <2>1, CertifierAssumption DEF Pipeline, PipelineBounds
<1>12. TakenBuffers(r, queued_share_computations'[r], computed_shares'[r]) <= PoolSize
  <2> DEFINE stored == {e \in sorted_computed_shares[r] : e.share # {}}
  <2>1. /\ Cardinality(share_tasks[r]) \in Nat /\ Len(computed) \in Nat
        /\ Cardinality(stored) \in Nat
    <3>1. Len(computed) \in Nat
      BY EmptiedLength DEF WellTyped, computed
    <3> QED BY <3>1, TasksAndShares
  <2>2. Cardinality(computing[r]) \in Nat
    <3>1. computing[r] \subseteq acknowledged[r]
      BY DEF Sound, SoundAt, ComputedSound
    <3> QED BY <3>1, AckedFinite, FS_CardinalityType
  <2> HIDE DEF a
  <2>3. /\ Cardinality(queued \cup {a}) \in Nat
        /\ Cardinality(queued \cup {a}) <= Cardinality(queued) + 1
    BY <1>4, AddOne
  <2>4. \A q, c : TakenBuffers(r, q, c) =
           Cardinality(q) + Cardinality(share_tasks[r]) + Cardinality(computing[r])
             + Len(c) + Cardinality(stored)
    BY DEF TakenBuffers
  <2> HIDE DEF stored
  <2>5. TakenBuffers(r, queued \cup {a}, computed) <=
           TakenBuffers(r, queued, computed) + 1
    BY <1>4, <2>1, <2>2, <2>3, <2>4
  <2>6. /\ TakenBuffers(r, queued \cup {a}, computed) \in Nat
        /\ TakenBuffers(r, queued, computed) \in Nat
    BY <1>4, <2>1, <2>2, <2>3, <2>4
  <2>7. PoolSize \in Nat
    BY CertifierAssumption DEF PoolSize
  <2> QED BY <1>5, <1>7, <2>5, <2>6, <2>7
<1> QED BY <1>6, <1>9, <1>10, <1>11, <1>12 DEF Pipeline
-----------------------------------------------------------------------------
(* A step of r leaves the state of every other replica alone. *)

Untouched(q) ==
    /\ msg_tail'[q] = msg_tail[q] /\ next_index'[q] = next_index[q]
    /\ acknowledged'[q] = acknowledged[q] /\ err'[q] = err[q]
    /\ queued_share_computations'[q] = queued_share_computations[q]
    /\ share_tasks'[q] = share_tasks[q] /\ computing'[q] = computing[q]
    /\ computed_shares'[q] = computed_shares[q]
    /\ sorted_computed_shares'[q] = sorted_computed_shares[q]
    /\ shares'[q] = shares[q] /\ promises'[q] = promises[q]
    /\ buffered_promises'[q] = buffered_promises[q]
    /\ polled_promises'[q] = polled_promises[q]
    /\ buffered_shares'[q] = buffered_shares[q]
    /\ polled_shares'[q] = polled_shares[q]
    /\ check_tasks'[q] = check_tasks[q] /\ checking'[q] = checking[q]

LEMMA OthersUntouched ==
    ASSUME WellTyped, NEW r \in Replica, Step(r), NEW q \in Replica, q # r
    PROVE  Untouched(q) /\ UNCHANGED run_fast_path
<1> USE DEF WellTyped, Untouched, pathVars, tailVars, promiseVars, computeVars,
            checkVars, pollVars
<1>1. CASE \E i \in 0 .. MaxIndex - 1 : ForgetMessages(r, i)
  BY <1>1 DEF ForgetMessages
<1>2. CASE \E i \in 0 .. MaxIndex - 1 : \E m \in Message : Acknowledge(r, i, m)
  <2>1. PICK i \in 0 .. MaxIndex - 1, m \in Message : Acknowledge(r, i, m)
    BY <1>2
  <2>2. err'[q] = err[q] /\ queued_share_computations'[q] = queued_share_computations[q]
    BY ZenonT(30), <2>1 DEF Acknowledge, Throw
  <2> QED BY <2>1, <2>2 DEF Acknowledge
<1>3. CASE ToggleSlowPath(r)
  BY <1>3 DEF ToggleSlowPath
<1>4. CASE PollPromise(r)
  BY <1>4 DEF PollPromise
<1>5. CASE OffloadShareComputation(r)
  BY <1>5 DEF OffloadShareComputation
<1>6. CASE StartComputation(r)
  BY <1>6 DEF StartComputation
<1>7. CASE FinishComputation(r)
  BY <1>7 DEF FinishComputation
<1>8. CASE PollComputedShares(r)
  BY <1>8 DEF PollComputedShares
<1>9. CASE PollVerifiedShare(r)
  <2>1. /\ \E v : msg_tail' = [msg_tail EXCEPT ![r] = v] \/ UNCHANGED msg_tail
        /\ \E v : err' = [err EXCEPT ![r] = v] \/ UNCHANGED err
        /\ \E v : checking' = [checking EXCEPT ![r] = v]
    BY <1>9 DEF PollVerifiedShare, Throw
  <2> QED BY <1>9, <2>1 DEF PollVerifiedShare
<1>10. CASE PollCertificate(r)
  BY <1>10 DEF PollCertificate
<1>11. CASE \E s \in Replica : PollPromises(r, s)
  <2>1. PICK s \in Replica : PollPromises(r, s)
    BY <1>11
  <2>2. PICK i : /\ handlePromise(r, s, i)
                 /\ polled_promises' = [polled_promises EXCEPT ![r][s] = i + 1]
    BY <2>1 DEF PollPromises
  <2>3. /\ msg_tail'[q] = msg_tail[q] /\ buffered_promises'[q] = buffered_promises[q]
        /\ err'[q] = err[q] /\ polled_promises'[q] = polled_promises[q]
    BY <2>2 DEF handlePromise, Throw
  <2> QED BY <2>1, <2>3 DEF PollPromises
<1>12. CASE \E s \in Replica : PollShares(r, s)
  <2>1. PICK s \in Replica : PollShares(r, s)
    BY <1>12
  <2>2. PICK sh : /\ handleShare(r, s, sh)
                  /\ polled_shares' = [polled_shares EXCEPT ![r][s] = sh.idx + 1]
    BY <2>1 DEF PollShares
  <2>3. /\ check_tasks'[q] = check_tasks[q] /\ buffered_shares'[q] = buffered_shares[q]
        /\ err'[q] = err[q] /\ polled_shares'[q] = polled_shares[q]
    BY <2>2 DEF handleShare, Throw
  <2> QED BY <2>1, <2>3 DEF PollShares
<1>13. CASE \E s \in Replica : StartCheck(r, s)
  BY <1>13 DEF StartCheck
<1> QED
  BY <1>1, <1>2, <1>3, <1>4, <1>5, <1>6, <1>7, <1>8, <1>9, <1>10, <1>11, <1>12,
     <1>13 DEF Step

-----------------------------------------------------------------------------
(* The window of messages served *)

LEMMA ServedKept ==
    ASSUME NEW p \in Replica, Served(p), msg_tail'[p] \subseteq msg_tail[p],
           next_index'[p] = next_index[p]
    PROVE  Served(p)'
BY DEF Served

(* Messages keep their indices when only what is counted for them changes. *)
LEMMA ServedUpdate ==
    ASSUME NEW p \in Replica, Served(p), NEW g,
           msg_tail'[p] = {g[d] : d \in msg_tail[p]},
           \A d \in msg_tail[p] : g[d].idx = d.idx, next_index'[p] = next_index[p]
    PROVE  Served(p)'
<1>1. \A e \in msg_tail'[p] : \E d \in msg_tail[p] : e = g[d] /\ e.idx = d.idx
  OBVIOUS
<1>2. \A e \in msg_tail'[p] :
         e.idx < next_index'[p] /\ next_index'[p] <= e.idx + TailSize
  BY <1>1 DEF Served
<1>3. \A e, f \in msg_tail'[p] : e.idx = f.idx => e = f
  BY <1>1 DEF Served
<1> QED BY <1>2, <1>3 DEF Served

LEMMA AcknowledgeServed ==
    ASSUME WellTyped, NEW r \in Replica, Served(r), NEW i \in Nat, NEW m \in Message,
           Acknowledge(r, i, m)
    PROVE  Served(r)'
<1>1. PICK new : /\ new.idx = i
                 /\ msg_tail'[r] = {d \in msg_tail[r] : InTail(d.idx, i)} \cup {new}
  <2> DEFINE new == [idx |-> i, msg |-> m, shares |-> {},
                     promised |-> IF run_fast_path
                        THEN {s \in Replica : i \in buffered_promises[r][s]}
                                \cup ({Leader} \ {r}) ELSE {}]
  <2>1. msg_tail'[r] = {d \in msg_tail[r] : InTail(d.idx, i)} \cup {new} /\ new.idx = i
    BY DEF Acknowledge, WellTyped
  <2> QED BY <2>1
<1>2. next_index'[r] = i + 1 /\ next_index[r] \in Nat /\ next_index[r] <= i
  BY DEF Acknowledge, Acknowledgeable, WellTyped
<1>3. \A d \in msg_tail[r] : d.idx \in Nat /\ d.idx < next_index[r]
  BY DEF Served, WellTyped, MessageData
<1>4. \A d \in msg_tail'[r] : d.idx < i + 1 /\ i + 1 <= d.idx + TailSize
  BY <1>1, <1>2, <1>3, CertifierAssumption DEF InTail
<1>5. \A d, e \in msg_tail'[r] : d.idx = e.idx => d = e
  BY <1>1, <1>2, <1>3 DEF Served
<1> QED BY <1>2, <1>4, <1>5 DEF Served
-----------------------------------------------------------------------------
(* Promises *)

(* What a source promised, and what is buffered of it, is finite. *)
LEMMA PromisesFinite ==
    ASSUME WellTyped, Sound, NEW s \in Replica
    PROVE  /\ promises[s] \in SUBSET Nat /\ IsFiniteSet(promises[s])
           /\ \A i \in promises[s] : i < next_index[s]
<1>1. promises[s] \in SUBSET Indices(acknowledged[s])
  BY DEF Sound, SoundAt, ComputedSound
<1> QED BY <1>1, AckedIndicesFinite

(* Nothing changes for the promises of q at p when q only promises indices  *)
(* that p did not poll yet.                                                 *)
LEMMA PromisesKeptAt ==
    ASSUME WellTyped, WellTyped', Sound, Sound', NEW p \in Replica, NEW q \in Replica,
           PromisesFrom(p, q), PromisesHeld(p, q), UNCHANGED run_fast_path,
           q = Leader \/ ~run_fast_path => promises'[q] = {},
           promises[q] \subseteq promises'[q],
           \A i \in promises'[q] \ promises[q] : polled_promises[p][q] <= i,
           next_index[q] <= next_index'[q], next_index'[p] = next_index[p] \/ p = q,
           buffered_promises'[p][q] \subseteq buffered_promises[p][q],
           buffered_promises'[p][q] = buffered_promises[p][q] \/ p = q,
           polled_promises'[p][q] = polled_promises[p][q],
           err'[p] = "ok" => err[p] = "ok",
           \A e \in msg_tail'[p] : \E d \in msg_tail[p] :
              e.idx = d.idx /\ (q \in e.promised <=> q \in d.promised)
    PROVE  PromisesFrom(p, q)' /\ PromisesHeld(p, q)'
<1>1. /\ promises[q] \in SUBSET Nat /\ IsFiniteSet(promises[q])
      /\ IsFiniteSet(promises'[q])
  <2>1. IsFiniteSet(promises'[q])
    <3>1. promises'[q] \in SUBSET Indices(acknowledged'[q])
      BY DEF Sound, SoundAt, ComputedSound
    <3>2. /\ acknowledged'[q] \in SUBSET Share /\ next_index'[q] \in Nat
          /\ \A a \in acknowledged'[q] : a.idx < next_index'[q]
      BY DEF WellTyped, Sound, SoundAt, AckedOnce
    <3>3. promises'[q] \in SUBSET Nat /\ \A i \in promises'[q] : i <= next_index'[q]
      BY <3>1, <3>2 DEF Indices, Share
    <3> QED BY <3>2, <3>3, FS_BoundedSetOfNaturals
  <2> QED BY <2>1, PromisesFinite
<1>2. polled_promises[p][q] \in Nat /\ next_index[q] \in Nat /\ next_index'[q] \in Nat
  BY DEF WellTyped
<1>3. PromisesFrom(p, q)'
  <2>1. Cardinality(buffered_promises'[p][q]) <= TailSize
    <3>1. buffered_promises[p][q] \in SUBSET promises[q]
      BY DEF PromisesFrom
    <3>2. IsFiniteSet(buffered_promises[p][q])
      BY <1>1, <3>1, FS_Subset
    <3>3. /\ IsFiniteSet(buffered_promises'[p][q])
          /\ Cardinality(buffered_promises'[p][q]) <= Cardinality(buffered_promises[p][q])
      BY <3>2, FS_Subset
    <3>4. Cardinality(buffered_promises'[p][q]) \in Nat /\ Cardinality(buffered_promises[p][q]) \in Nat
      BY <3>2, <3>3, FS_CardinalityType
    <3> QED BY <3>3, <3>4, CertifierAssumption DEF PromisesFrom
  <2>2. \A e \in msg_tail'[p] :
           q \in e.promised /\ q # Leader => e.idx < polled_promises[p][q]
    BY DEF PromisesFrom
  <2>3. polled_promises'[p][q] <= next_index'[q]
    BY <1>2 DEF PromisesFrom
  <2>4. \A j \in buffered_promises'[p][q] : j \in promises'[q] /\ j < polled_promises'[p][q]
    BY DEF PromisesFrom
  <2> QED BY <2>1, <2>2, <2>3, <2>4 DEF PromisesFrom
<1>4. PromisesHeld(p, q)'
  <2>1. SUFFICES ASSUME Ok(p)', p # q, NEW i \in promises'[q], i < polled_promises'[p][q]
                 PROVE  \/ Lagging(promises'[q], i)
                        \/ i >= next_index'[p] /\ i \in buffered_promises'[p][q]
                        \/ /\ i < next_index'[p]
                           /\ \A d \in msg_tail'[p] : d.idx = i => q \in d.promised
    BY DEF PromisesHeld
  <2>2. i \in promises[q]
    <3>1. i \in Nat
      BY DEF WellTyped
    <3> QED BY <1>2, <2>1, <3>1
  <2>3. Ok(p)
    BY <2>1 DEF Ok
  <2>4. CASE Lagging(promises[q], i)
    BY <1>1, <2>4, LaggingKept
  <2>5. CASE i >= next_index[p] /\ i \in buffered_promises[p][q]
    BY <2>1, <2>5
  <2>6. CASE i < next_index[p] /\ \A d \in msg_tail[p] : d.idx = i => q \in d.promised
    BY <2>1, <2>6
  <2> QED BY <2>1, <2>2, <2>3, <2>4, <2>5, <2>6 DEF PromisesHeld
<1> QED BY <1>3, <1>4

(* The promises of a replica only grow, above everything polled. *)
LEMMA PromisesGrow ==
    ASSUME WellTyped, NEW r \in Replica, Step(r),
           \A q \in Replica : PromisesFrom(q, r)
    PROVE  /\ UNCHANGED run_fast_path
           /\ r = Leader \/ ~run_fast_path => promises'[r] = {}
           /\ promises[r] \subseteq promises'[r] /\ next_index[r] <= next_index'[r]
           /\ \A q \in Replica : \A i \in promises'[r] \ promises[r] :
                 polled_promises[q][r] <= i
<1>1. CASE \E i \in 0 .. MaxIndex - 1, m \in Message : Acknowledge(r, i, m)
  <2>1. PICK i \in 0 .. MaxIndex - 1, m \in Message : Acknowledge(r, i, m)
    BY <1>1
  <2>2. /\ promises'[r] = IF Promises(r) THEN promises[r] \cup {i} ELSE promises[r]
        /\ next_index[r] \in Nat /\ next_index[r] <= i /\ next_index'[r] = i + 1
        /\ UNCHANGED run_fast_path
    BY <2>1 DEF Acknowledge, Acknowledgeable, WellTyped, pathVars
  <2>3. ASSUME NEW q \in Replica PROVE polled_promises[q][r] <= i
    <3>1. polled_promises[q][r] <= next_index[r] /\ polled_promises[q][r] \in Nat
      BY DEF PromisesFrom, WellTyped
    <3> QED BY <2>2, <3>1
  <2>4. r = Leader \/ ~run_fast_path => promises'[r] = {}
    BY <2>2 DEF Promises, PromisesFrom
  <2> QED BY <2>2, <2>3, <2>4
<1>2. CASE ~\E i \in 0 .. MaxIndex - 1, m \in Message : Acknowledge(r, i, m)
  <2>1. UNCHANGED <<promises, next_index, run_fast_path>>
    BY <1>2 DEF Step, ForgetMessages, ToggleSlowPath, PollPromise, StartCheck,
       OffloadShareComputation, StartComputation, FinishComputation, PollShares,
       PollComputedShares, PollVerifiedShare, PollCertificate, PollPromises,
       pathVars, tailVars, promiseVars
  <2>2. r = Leader \/ ~run_fast_path => promises[r] = {}
    BY DEF PromisesFrom
  <2>3. next_index[r] \in Nat
    BY DEF WellTyped
  <2> QED BY <2>1, <2>2, <2>3
<1> QED BY <1>1, <1>2

(* A promise that arrives is counted for its message or buffered; those the *)
(* link skipped and those the buffer drops were left behind.                *)
LEMMA PollPromisesFlow ==
    ASSUME WellTyped, Sound, NEW r \in Replica, NEW s \in Replica, PollPromises(r, s),
           Served(r), PromisesFrom(r, s), PromisesHeld(r, s)
    PROVE  /\ PromisesFrom(r, s)' /\ PromisesHeld(r, s)' /\ UNCHANGED err
           /\ \E i : msg_tail'[r] =
                 {IF d.idx = i THEN [d EXCEPT !.promised = @ \cup {s}] ELSE d
                    : d \in msg_tail[r]}
<1>1. PICK i \in Readable(promises[s], polled_promises[r][s]) :
         /\ polled_promises' = [polled_promises EXCEPT ![r][s] = i + 1]
         /\ handlePromise(r, s, i)
  BY DEF PollPromises
<1> DEFINE polled == polled_promises[r][s]
<1> DEFINE b == buffered_promises[r][s]
<1>2. i \in promises[s] /\ polled <= i
  BY <1>1 DEF Readable
<1>3. /\ promises[s] \in SUBSET Nat /\ IsFiniteSet(promises[s]) /\ i \in Nat
      /\ i < next_index[s] /\ next_index[s] \in Nat /\ polled \in Nat
      /\ next_index[r] \in Nat
  BY ZenonT(30), <1>2, PromisesFinite DEF WellTyped
<1>4. polled_promises'[r][s] = i + 1
  BY <1>1 DEF WellTyped
<1>5. UNCHANGED <<promises, next_index, run_fast_path>>
  BY DEF PollPromises, pathVars
<1>6. s # Leader /\ run_fast_path
  BY <1>2 DEF PromisesFrom
<1>7. b \in SUBSET promises[s] /\ \A j \in b : j < polled
  BY DEF PromisesFrom
<1>8. ASSUME NEW j \in promises[s], j < i + 1
      PROVE  j < polled \/ Lagging(promises[s], j) \/ j = i
  <2>1. j \in Nat /\ (polled <= j /\ j < i => Lagging(promises[s], j))
    BY <1>1, <1>3, SkippedLags
  <2> QED BY <1>3, <1>8, <2>1
<1>9. CASE ~Found(r, i)
  <2> DEFINE I == b \cup {i}
  <2>1. ~\E j \in b : j >= i
    BY <1>2, <1>3, <1>7
  <2>2. /\ buffered_promises' = [buffered_promises EXCEPT ![r][s] = BoundedIndices(I)]
        /\ UNCHANGED <<msg_tail, err>>
    BY <1>1, <1>9, <2>1 DEF handlePromise, WellTyped
  <2>3. buffered_promises'[r][s] = BoundedIndices(I)
    BY <2>2 DEF WellTyped
  <2>4. I \in SUBSET promises[s] /\ \A j \in I : j < i + 1
    BY <1>2, <1>3, <1>7
  <2>5. IsFiniteSet(I) /\ I \in SUBSET Nat
    BY <1>3, <2>4, FS_Subset
  <2>6. Cardinality(BoundedIndices(I)) <= TailSize
    <3>1. b \in SUBSET I
      OBVIOUS
    <3>2. IsFiniteSet(b)
      BY <2>5, <3>1, FS_Subset
    <3>3. Cardinality(b) \in Nat /\ Cardinality(I) \in Nat /\ Cardinality(I) <= Cardinality(b) + 1
      BY <3>2, AddOne
    <3>4. Cardinality(I) <= TailSize + 1
      <4> HIDE DEF b, I
      <4>1. Cardinality(b) <= TailSize
        BY DEF b, PromisesFrom
      <4> QED BY <3>3, <4>1, CertifierAssumption
    <3> HIDE DEF I
    <3> QED BY <2>5, <3>4, BoundedIndicesCount
  <2>7. ASSUME NEW j \in I PROVE j \in BoundedIndices(I) \/ Lagging(promises[s], j)
    <3> HIDE DEF I, b
    <3>1. CASE Cardinality(I) > TailSize /\ j = Front(I)
      <4>1. Front(I) \in I /\ \A k \in I : Front(I) <= k
        BY <2>5, FrontOf
      <4>2. Cardinality(I) \in Nat /\ Cardinality(I \ {j}) = Cardinality(I) - 1
        BY <2>5, RemoveOne
      <4>3. Cardinality(I \ {j}) >= TailSize
        BY <3>1, <4>2, CertifierAssumption
      <4>4. \A k \in I \ {j} : k > j
        BY <2>5, <3>1, <4>1
      <4>5. I \ {j} \subseteq promises[s]
        BY <2>4
      <4> QED BY <1>3, <4>3, <4>4, <4>5, LeftBehind
    <3>2. CASE ~(Cardinality(I) > TailSize /\ j = Front(I))
      BY <3>2 DEF BoundedIndices
    <3> QED BY <3>1, <3>2
  <2>8. BoundedIndices(I) \subseteq I
    BY DEF BoundedIndices
  <2>9. PromisesFrom(r, s)'
    <3>1. \A d \in msg_tail[r] : s \in d.promised => d.idx < i + 1
      <4>1. \A d \in msg_tail[r] : d.idx \in Nat
        BY DEF WellTyped, MessageData
      <4> QED BY <1>2, <1>3, <1>6, <4>1 DEF PromisesFrom
    <3> HIDE DEF I, b
    <3>2. \A j \in BoundedIndices(I) : j \in promises[s] /\ j < i + 1
      BY <2>4, <2>8
    <3>3. i + 1 <= next_index[s]
      BY <1>3
    <3> QED BY <1>4, <1>5, <1>6, <2>2, <2>3, <2>6, <3>1, <3>2, <3>3 DEF PromisesFrom
  <2>10. PromisesHeld(r, s)'
    <3>1. SUFFICES ASSUME Ok(r), r # s, NEW j \in promises[s], j < i + 1
                   PROVE  \/ Lagging(promises[s], j)
                          \/ j >= next_index[r] /\ j \in BoundedIndices(I)
                          \/ /\ j < next_index[r]
                             /\ \A d \in msg_tail[r] : d.idx = j => s \in d.promised
      BY <1>4, <1>5, <2>2, <2>3 DEF PromisesHeld, Ok
    <3>2. CASE j = i
      <4>1. \A d \in msg_tail[r] : d.idx # i
        BY <1>9 DEF Found, Indices
      <4>2. i \in I
        OBVIOUS
      <4> HIDE DEF I
      <4> QED BY <1>3, <2>7, <3>2, <4>1, <4>2
    <3>3. CASE j < polled
      <4>1. CASE j >= next_index[r] /\ j \in b
        <5>1. j \in I
          BY <4>1
        <5> HIDE DEF I
        <5> QED BY <2>7, <4>1, <5>1
      <4>2. CASE j < next_index[r] /\ \A d \in msg_tail[r] : d.idx = j => s \in d.promised
        BY <4>2
      <4> HIDE DEF I
      <4> QED BY <3>1, <3>3, <4>1, <4>2 DEF PromisesHeld
    <3> QED BY <1>8, <3>1, <3>2, <3>3
  <2>11. msg_tail'[r] = {IF d.idx = i THEN [d EXCEPT !.promised = @ \cup {s}] ELSE d
                           : d \in msg_tail[r]}
    BY <1>9, <2>2 DEF Found, Indices
  <2> QED BY <2>2, <2>9, <2>10, <2>11
<1>10. CASE Found(r, i)
  <2>1. DataOf(r, i) \in msg_tail[r] /\ DataOf(r, i).idx = i
    BY <1>10, DataOfFound
  <2>2. s \notin DataOf(r, i).promised
    BY <1>2, <1>3, <1>6, <2>1 DEF PromisesFrom
  <2>3. /\ msg_tail'[r] = {IF d.idx = i THEN [d EXCEPT !.promised = @ \cup {s}] ELSE d
                             : d \in msg_tail[r]}
        /\ UNCHANGED <<buffered_promises, err>>
    BY <1>1, <1>10, <2>2 DEF handlePromise, WellTyped
  <2>4. ASSUME NEW e \in msg_tail'[r]
        PROVE  \E d \in msg_tail[r] :
                  /\ e.idx = d.idx /\ d.promised \subseteq e.promised
                  /\ (d.idx = i /\ s \in e.promised) \/ e.promised = d.promised
    <3>1. PICK d \in msg_tail[r] :
             e = IF d.idx = i THEN [d EXCEPT !.promised = @ \cup {s}] ELSE d
      BY <2>3
    <3>2. d \in MessageData
      BY DEF WellTyped
    <3>3. CASE d.idx = i
      BY <3>1, <3>2, <3>3 DEF MessageData
    <3>4. CASE d.idx # i
      BY <3>1, <3>4
    <3> QED BY <3>3, <3>4
  <2>5. \A d \in msg_tail[r] : d.idx \in Nat
    BY DEF WellTyped, MessageData
  <2>6. PromisesFrom(r, s)'
    <3>1. \A e \in msg_tail'[r] : s \in e.promised => e.idx < i + 1
      BY <1>2, <1>3, <1>6, <2>4, <2>5 DEF PromisesFrom
    <3>2. \A j \in b : j \in promises[s] /\ j < i + 1
      BY <1>2, <1>3, <1>7
    <3>3. i + 1 <= next_index[s]
      BY <1>3
    <3>4. Cardinality(b) <= TailSize
      BY DEF PromisesFrom
    <3> QED BY <1>4, <1>5, <1>6, <2>3, <3>1, <3>2, <3>3, <3>4 DEF PromisesFrom
  <2>7. PromisesHeld(r, s)'
    <3>1. SUFFICES ASSUME Ok(r), r # s, NEW j \in promises[s], j < i + 1
                   PROVE  \/ Lagging(promises[s], j)
                          \/ j >= next_index[r] /\ j \in b
                          \/ /\ j < next_index[r]
                             /\ \A d \in msg_tail'[r] : d.idx = j => s \in d.promised
      BY <1>4, <1>5, <2>3 DEF PromisesHeld, Ok
    <3>2. CASE j = i
      <4>1. i < next_index[r]
        BY <2>1 DEF Served
      <4>2. \A e \in msg_tail'[r] : e.idx = i => s \in e.promised
        <5>1. ASSUME NEW e \in msg_tail'[r], e.idx = i PROVE s \in e.promised
          <6>1. PICK d \in msg_tail[r] :
                   e = IF d.idx = i THEN [d EXCEPT !.promised = @ \cup {s}] ELSE d
            BY <2>3
          <6>2. d \in MessageData
            BY DEF WellTyped
          <6> QED BY <5>1, <6>1, <6>2 DEF MessageData
        <5> QED BY <5>1
      <4> QED BY <3>2, <4>1, <4>2
    <3>3. CASE j < polled
      <4>1. CASE j < next_index[r] /\ \A d \in msg_tail[r] : d.idx = j => s \in d.promised
        BY <2>4, <4>1
      <4> QED BY <3>1, <3>3, <4>1 DEF PromisesHeld
    <3> QED BY <1>8, <3>1, <3>2, <3>3
  <2> QED BY <2>3, <2>6, <2>7
<1> QED BY <1>9, <1>10

(* acknowledge counts what was buffered for its message and keeps what was  *)
(* buffered for later ones.                                                 *)
LEMMA AcknowledgePromises ==
    ASSUME WellTyped, Sound, NEW r \in Replica, NEW s \in Replica, NEW i \in Nat,
           NEW m \in Message, Acknowledge(r, i, m), UNCHANGED err, Served(r), s # r,
           PromisesFrom(r, s), PromisesHeld(r, s)
    PROVE  PromisesFrom(r, s)' /\ PromisesHeld(r, s)'
<1> DEFINE b == buffered_promises[r][s]
<1> DEFINE polled == polled_promises[r][s]
<1>1. PICK new :
         /\ new.idx = i
         /\ run_fast_path => (s \in new.promised <=> i \in b \/ s = Leader)
         /\ ~run_fast_path => new.promised = {}
         /\ msg_tail'[r] = {d \in msg_tail[r] : InTail(d.idx, i)} \cup {new}
  <2> DEFINE new == [idx |-> i, msg |-> m, shares |-> {},
                     promised |-> IF run_fast_path
                        THEN {q \in Replica : i \in buffered_promises[r][q]}
                                \cup ({Leader} \ {r}) ELSE {}]
  <2>1. msg_tail'[r] = {d \in msg_tail[r] : InTail(d.idx, i)} \cup {new}
    BY DEF Acknowledge, WellTyped
  <2>2. new.idx = i /\ (run_fast_path => (s \in new.promised <=> i \in b \/ s = Leader))
        /\ (~run_fast_path => new.promised = {})
    BY DEF Acknowledge
  <2> QED BY <2>1, <2>2
<1>2. /\ next_index'[r] = i + 1 /\ next_index[r] \in Nat /\ next_index[r] <= i
      /\ next_index'[s] = next_index[s] /\ promises'[s] = promises[s]
      /\ polled_promises' = polled_promises /\ UNCHANGED run_fast_path
  BY DEF Acknowledge, Acknowledgeable, WellTyped, pathVars
<1>3. buffered_promises'[r][s] = IF run_fast_path THEN {j \in b : j > i} ELSE b
  BY DEF Acknowledge, WellTyped
<1>4. promises[s] \in SUBSET Nat /\ IsFiniteSet(promises[s])
  BY PromisesFinite
<1>5. \A d \in msg_tail[r] : d.idx \in Nat /\ d.idx < next_index[r]
  BY DEF Served, WellTyped, MessageData
<1>6. PromisesFrom(r, s)'
  <2>1. buffered_promises'[r][s] \in SUBSET b
    BY <1>3
  <2>2. b \in SUBSET promises[s] /\ \A j \in b : j < polled
    BY DEF PromisesFrom
  <2>3. Cardinality(buffered_promises'[r][s]) <= TailSize
    <3>1. IsFiniteSet(b)
      BY <1>4, <2>2, FS_Subset
    <3>2. /\ IsFiniteSet(buffered_promises'[r][s])
          /\ Cardinality(buffered_promises'[r][s]) <= Cardinality(b)
      BY <2>1, <3>1, FS_Subset
    <3>3. Cardinality(buffered_promises'[r][s]) \in Nat /\ Cardinality(b) \in Nat
      BY <3>1, <3>2, FS_CardinalityType
    <3> QED BY <3>2, <3>3, CertifierAssumption DEF PromisesFrom
  <2>4. \A d \in msg_tail'[r] : s \in d.promised /\ s # Leader => d.idx < polled
    <3>1. s \in new.promised /\ s # Leader => i < polled
      BY <1>1, <2>2
    <3> QED BY <1>1, <3>1 DEF PromisesFrom
  <2> QED BY <1>2, <2>1, <2>2, <2>3, <2>4 DEF PromisesFrom
<1>7. PromisesHeld(r, s)'
  <2>1. SUFFICES ASSUME Ok(r), NEW j \in promises[s], j < polled
                 PROVE  \/ Lagging(promises[s], j)
                        \/ j >= i + 1 /\ j \in buffered_promises'[r][s]
                        \/ /\ j < i + 1
                           /\ \A d \in msg_tail'[r] : d.idx = j => s \in d.promised
    BY <1>2 DEF PromisesHeld, Ok
  <2>2. run_fast_path /\ j \in Nat
    BY <1>4 DEF PromisesFrom
  <2>3. CASE j >= next_index[r] /\ j \in b
    <3>1. CASE j > i
      BY <1>3, <2>2, <2>3, <3>1
    <3>2. CASE j <= i
      <4>1. \A d \in msg_tail[r] : d.idx # j
        BY <1>2, <1>5, <2>2, <2>3
      <4>2. j = i => s \in new.promised
        BY <1>1, <2>2, <2>3
      <4> QED BY <1>1, <2>2, <3>2, <4>1, <4>2
    <3> QED BY <2>2, <3>1, <3>2
  <2>4. CASE j < next_index[r] /\ \A d \in msg_tail[r] : d.idx = j => s \in d.promised
    BY <1>1, <1>2, <2>2, <2>4
  <2> QED BY <2>1, <2>3, <2>4 DEF PromisesHeld
<1> QED BY <1>6, <1>7
-----------------------------------------------------------------------------
(* Shares *)

(* What a source sent is finite, one share per index. *)
LEMMA SharesFinite ==
    ASSUME WellTyped, Sound, NEW s \in Replica
    PROVE  /\ shares[s] \in SUBSET Share /\ \A x \in shares[s] : x.idx \in Nat
           /\ \A x, y \in shares[s] : x.idx = y.idx => x = y
           /\ IsFiniteSet(shares[s]) /\ IsFiniteSet(Indices(shares[s]))
<1>1. shares[s] \in SUBSET acknowledged[s]
  BY DEF Sound, SoundAt, ComputedSound
<1>2. shares[s] \in SUBSET Share
  BY DEF WellTyped
<1>3. /\ IsFiniteSet(shares[s]) /\ Distinct(shares[s]) /\ IsFiniteSet(Indices(shares[s]))
      /\ \A x \in shares[s] : x.idx \in Nat
  BY <1>1, AckedFinite
<1> QED BY <1>2, <1>3 DEF Distinct

(* Two verifications of the share of a source at an index are the same. *)
LEMMA CheckUnique ==
    ASSUME WellTyped, Sound, NEW r \in Replica, NEW c \in Check, NEW e \in Check,
           CheckSound(r, c), CheckSound(r, e), c.from = e.from,
           c.share.idx = e.share.idx
    PROVE  c = e
<1>1. c.share = e.share
  BY DEF Check, CheckSound, Sound, SoundAt, AckedOnce
<1>2. c.expected = e.expected
  <2> DEFINE a == [idx |-> c.share.idx, msg |-> c.expected]
  <2> DEFINE b == [idx |-> c.share.idx, msg |-> e.expected]
  <2>1. a \in acknowledged[r] /\ b \in acknowledged[r] /\ a.idx = b.idx
    BY DEF CheckSound, Acked
  <2>2. a = b
    BY <2>1 DEF Sound, SoundAt, AckedOnce
  <2> QED BY <2>2
<1> QED BY <1>1, <1>2 DEF Check

(* Verifications of shares of s, and what queueing one more drops. *)
LEMMA QueuedFacts ==
    ASSUME WellTyped, Sound, NEW r \in Replica, NEW s \in Replica, NEW sh \in shares[s],
           NEW m \in Message, SharesFrom(r, s),
           \A c \in check_tasks[r][s] : c.share.idx # sh.idx
    PROVE  LET new == [from |-> s, share |-> sh, expected |-> m]
               tasks == Queued(check_tasks[r][s], s, sh, m) IN
           /\ tasks \subseteq check_tasks[r][s] \cup {new}
           /\ Cardinality(tasks) <= TailSize
           /\ \A c \in check_tasks[r][s] \cup {new} :
                 c \in tasks \/ Lagging(Indices(shares[s]), c.share.idx)
<1> DEFINE new == [from |-> s, share |-> sh, expected |-> m]
<1> DEFINE checks == {new} \cup check_tasks[r][s]
<1> DEFINE oldest == CHOOSE c \in checks : \A d \in checks : c.share.idx <= d.share.idx
<1> DEFINE tasks == Queued(check_tasks[r][s], s, sh, m)
<1> DEFINE I == {c.share.idx : c \in checks}
<1>1. /\ shares[s] \in SUBSET Share /\ \A x \in shares[s] : x.idx \in Nat
      /\ IsFiniteSet(Indices(shares[s]))
  BY SharesFinite
<1>2. \A c \in checks : c.share \in shares[s] /\ c.share.idx \in Nat
  BY <1>1 DEF SharesFrom
<1>3. \A c, d \in checks : c.share.idx = d.share.idx => c = d
  <2>1. \A c, d \in check_tasks[r][s] : c.share.idx = d.share.idx => c = d
    <3>1. SUFFICES ASSUME NEW c \in check_tasks[r][s], NEW d \in check_tasks[r][s],
                          c.share.idx = d.share.idx
                   PROVE  c = d
      OBVIOUS
    <3>2. c \in Check /\ d \in Check /\ c.from = d.from
      BY SMTT(20) DEF WellTyped, SharesFrom
    <3>3. CheckSound(r, c) /\ CheckSound(r, d)
      BY DEF Sound, SoundAt, ReceivedSound
    <3> QED BY <3>1, <3>2, <3>3, CheckUnique
  <2>2. new.share = sh
    OBVIOUS
  <2> HIDE DEF new
  <2> QED BY <2>1, <2>2
<1>4. IsFiniteSet(checks)
  <2> DEFINE f == [c \in checks |-> c.share.idx]
  <2>1. f \in Injection(checks, Indices(shares[s]))
    <3> HIDE DEF checks
    <3> QED BY <1>2, <1>3 DEF Indices, Injection, IsInjective
  <2> QED BY <1>1, <2>1, FS_Injection
<1>5. oldest \in checks /\ \A d \in checks : oldest.share.idx <= d.share.idx
  <2>1. I \in SUBSET Nat /\ I # {}
    <3> HIDE DEF new
    <3> QED BY <1>2
  <2>2. Front(I) \in I /\ \A j \in I : Front(I) <= j
    <3> HIDE DEF I
    <3> QED BY <2>1, FrontOf
  <2>3. \E c \in checks : \A d \in checks : c.share.idx <= d.share.idx
    <3> HIDE DEF checks
    <3>1. PICK c \in checks : Front(I) = c.share.idx
      BY <2>2
    <3> QED BY <2>2, <3>1
  <2> HIDE DEF checks
  <2> QED BY <2>3
<1>6. tasks = IF Cardinality(checks) > TailSize THEN checks \ {oldest} ELSE checks
  BY DEF Queued
<1>7. Cardinality(checks) \in Nat /\ Cardinality(checks) <= TailSize + 1
  <2> DEFINE old == check_tasks[r][s]
  <2>1. old \in SUBSET checks
    OBVIOUS
  <2> HIDE DEF new
  <2>2. IsFiniteSet(old)
    BY <1>4, <2>1, FS_Subset
  <2>3. /\ Cardinality(old) \in Nat /\ Cardinality(old \cup {new}) \in Nat
        /\ Cardinality(old \cup {new}) <= Cardinality(old) + 1
    BY <2>2, AddOne
  <2>4. old \cup {new} = checks
    OBVIOUS
  <2>5. Cardinality(old) <= TailSize
    BY DEF SharesFrom
  <2>6. Cardinality(checks) \in Nat /\ Cardinality(checks) <= Cardinality(old) + 1
    BY <2>3, <2>4, Zenon
  <2> HIDE DEF checks, old
  <2> QED BY <2>3, <2>5, <2>6, CertifierAssumption
<1>8. /\ Cardinality(checks \ {oldest}) \in Nat
      /\ Cardinality(checks \ {oldest}) = Cardinality(checks) - 1
  <2> HIDE DEF checks, oldest
  <2> QED BY <1>4, <1>5, RemoveOne
<1>9. Cardinality(tasks) <= TailSize
  <2> HIDE DEF checks, oldest, tasks
  <2> QED BY <1>6, <1>7, <1>8, CertifierAssumption
<1>10. ASSUME NEW c \in checks
       PROVE  c \in tasks \/ Lagging(Indices(shares[s]), c.share.idx)
  <2>1. CASE Cardinality(checks) > TailSize /\ c = oldest
    <3> DEFINE rest == checks \ {oldest}
    <3> DEFINE J == {d.share.idx : d \in rest}
    <3>1. J \subseteq Indices(shares[s])
      <4> HIDE DEF checks, oldest
      <4> QED BY <1>2 DEF Indices
    <3>2. \A j \in J : j > c.share.idx
      <4> HIDE DEF checks, oldest
      <4>1. ASSUME NEW d \in rest PROVE d.share.idx > c.share.idx
        BY <1>2, <1>3, <1>5, <2>1
      <4> QED BY <4>1
    <3>3. Cardinality(rest) >= TailSize
      <4> HIDE DEF checks, oldest
      <4> QED BY <1>7, <1>8, <2>1, CertifierAssumption
    <3>4. Cardinality(J) = Cardinality(rest)
      <4> DEFINE f == [d \in rest |-> d.share.idx]
      <4>1. f \in Injection(rest, J) /\ f \in Surjection(rest, J)
        <5>1. \A d, e \in rest : d.share.idx = e.share.idx => d = e
          BY <1>3
        <5> HIDE DEF rest
        <5> QED BY <5>1 DEF Injection, Surjection, IsInjective
      <4>2. IsFiniteSet(J)
        BY <1>1, <3>1, FS_Subset
      <4> HIDE DEF f, J, rest
      <4> QED BY <4>1, <4>2, FS_Injection
    <3> HIDE DEF J, rest
    <3> QED BY <1>1, <3>1, <3>2, <3>3, <3>4, LeftBehind
  <2>2. CASE ~(Cardinality(checks) > TailSize /\ c = oldest)
    <3> HIDE DEF checks, oldest, tasks
    <3> QED BY <1>6, <2>2
  <2> QED BY <2>1, <2>2
<1>11. tasks \subseteq checks
  <2> HIDE DEF checks, oldest, tasks
  <2> QED BY <1>6
<1> QED
  <2>1. checks = check_tasks[r][s] \cup {new}
    OBVIOUS
  <2> HIDE DEF checks, tasks, new
  <2>2. tasks \subseteq check_tasks[r][s] \cup {new}
    BY <1>11, <2>1
  <2>3. \A c \in check_tasks[r][s] \cup {new} :
           c \in tasks \/ Lagging(Indices(shares[s]), c.share.idx)
    BY <1>10, <2>1
  <2> QED BY <1>9, <2>2, <2>3 DEF tasks, new

(* Nothing changes for the shares of q at p when q only sends indices that  *)
(* p did not poll yet.                                                      *)
LEMMA SharesKeptAt ==
    ASSUME WellTyped, WellTyped', Sound, Sound', NEW p \in Replica, NEW q \in Replica,
           SharesFrom(p, q), SharesHeld(p, q), shares[q] \subseteq shares'[q],
           \A x \in shares'[q] \ shares[q] : polled_shares[p][q] <= x.idx,
           next_index'[p] = next_index[p],
           buffered_shares'[p][q] = buffered_shares[p][q],
           polled_shares'[p][q] = polled_shares[p][q],
           check_tasks'[p][q] = check_tasks[p][q],
           \A c : c.from = q => (c \in checking'[p] <=> c \in checking[p]),
           err'[p] = "ok" => err[p] = "ok",
           \A e \in msg_tail'[p] : \E d \in msg_tail[p] :
              e.idx = d.idx /\ (q \in e.shares <=> q \in d.shares)
    PROVE  SharesFrom(p, q)' /\ SharesHeld(p, q)'
<1>1. /\ shares[q] \in SUBSET Share /\ \A x \in shares[q] : x.idx \in Nat
      /\ IsFiniteSet(Indices(shares[q]))
  BY SharesFinite
<1>2. IsFiniteSet(Indices(shares'[q])) /\ \A x \in shares'[q] : x.idx \in Nat
  <2>1. /\ acknowledged'[q] \in SUBSET Share /\ next_index'[q] \in Nat
        /\ \A a \in acknowledged'[q] : a.idx < next_index'[q]
        /\ Distinct(acknowledged'[q]) /\ shares'[q] \in SUBSET acknowledged'[q]
    BY ZenonT(30) DEF WellTyped, Sound, SoundAt, AckedOnce, ComputedSound, Distinct
  <2> QED BY <2>1, AckedCount
<1>3. polled_shares[p][q] \in Nat
  BY DEF WellTyped
<1>4. \A c \in Check : c.from = q /\ Uncounted(p, c) => Uncounted(p, c)'
  BY DEF Uncounted
<1>5. SharesFrom(p, q)'
  <2>1. polled_shares[p][q] = 0 \/ \E x \in shares'[q] : polled_shares[p][q] = x.idx + 1
    BY DEF SharesFrom
  <2>2. ASSUME NEW c \in check_tasks[p][q]
        PROVE  /\ c.from = q /\ q # p
               /\ c.share \in shares'[q] /\ c.share.idx < polled_shares[p][q]
               /\ c \notin checking'[p] /\ Uncounted(p, c)'
    <3>1. /\ c.from = q /\ q # p /\ c \in Check
          /\ c.share \in shares[q] /\ c.share.idx < polled_shares[p][q]
          /\ c \notin checking[p] /\ Uncounted(p, c)
      BY DEF SharesFrom, WellTyped
    <3> QED BY <1>4, <3>1
  <2>3. ASSUME NEW c \in checking'[p], c.from = q
        PROVE  /\ c.share \in shares'[q] /\ Uncounted(p, c)'
               /\ q # p => c.share.idx < polled_shares[p][q]
    BY <1>4, <2>3 DEF SharesFrom, WellTyped
  <2>4. ASSUME NEW e \in msg_tail'[p], q \in e.shares
        PROVE  /\ e.idx \in Indices(shares'[q])
               /\ q # p => e.idx < polled_shares[p][q]
    BY <2>4 DEF SharesFrom, Indices
  <2> QED BY <2>1, <2>2, <2>3, <2>4 DEF SharesFrom
<1>6. SharesHeld(p, q)'
  <2>1. SUFFICES ASSUME Ok(p)', p # q, NEW x \in shares'[q],
                        x.idx < polled_shares[p][q]
                 PROVE  \/ Lagging(Indices(shares'[q]), x.idx)
                        \/ x.idx >= next_index[p] /\ x \in buffered_shares[p][q]
                        \/ /\ x.idx < next_index[p]
                           /\ \A e \in msg_tail'[p] : e.idx = x.idx =>
                                 q \in e.shares \/ UnderCheck(p, q, x.idx)'
    BY DEF SharesHeld
  <2>2. x \in shares[q] /\ Ok(p)
    BY <1>2, <1>3, <2>1 DEF Ok
  <2>3. UnderCheck(p, q, x.idx) => UnderCheck(p, q, x.idx)'
    BY DEF UnderCheck
  <2>4. CASE Lagging(Indices(shares[q]), x.idx)
    <3>1. Indices(shares[q]) \subseteq Indices(shares'[q])
      BY DEF Indices
    <3> QED BY <1>2, <2>4, <3>1, LaggingKept
  <2>5. CASE /\ x.idx < next_index[p]
             /\ \A d \in msg_tail[p] :
                   d.idx = x.idx => q \in d.shares \/ UnderCheck(p, q, x.idx)
    BY <2>3, <2>5
  <2> QED BY <2>1, <2>2, <2>4, <2>5 DEF SharesHeld
<1> QED BY <1>5, <1>6
(* A share that arrives is queued for verification or buffered; those the   *)
(* link skipped and those a queue drops were left behind.                   *)
LEMMA PollSharesFlow ==
    ASSUME WellTyped, Sound, NEW r \in Replica, NEW s \in Replica, PollShares(r, s),
           Served(r), SharesFrom(r, s), SharesHeld(r, s)
    PROVE  SharesFrom(r, s)' /\ SharesHeld(r, s)' /\ UNCHANGED err
<1>1. PICK sh \in shares[s] :
         /\ sh.idx \in Readable(Indices(shares[s]), polled_shares[r][s])
         /\ polled_shares' = [polled_shares EXCEPT ![r][s] = sh.idx + 1]
         /\ handleShare(r, s, sh)
  BY DEF PollShares
<1> DEFINE polled == polled_shares[r][s]
<1> DEFINE b == buffered_shares[r][s]
<1>2. polled <= sh.idx /\ s # r
  BY <1>1 DEF Readable, PollShares
<1>3. /\ shares[s] \in SUBSET Share /\ \A x \in shares[s] : x.idx \in Nat
      /\ \A x, y \in shares[s] : x.idx = y.idx => x = y
      /\ IsFiniteSet(shares[s]) /\ IsFiniteSet(Indices(shares[s]))
      /\ sh.idx \in Nat /\ polled \in Nat /\ next_index[r] \in Nat
  <2>1. polled \in Nat /\ next_index[r] \in Nat
    BY DEF WellTyped
  <2>2. /\ shares[s] \in SUBSET Share /\ \A x \in shares[s] : x.idx \in Nat
        /\ \A x, y \in shares[s] : x.idx = y.idx => x = y
        /\ IsFiniteSet(shares[s]) /\ IsFiniteSet(Indices(shares[s]))
    BY SharesFinite
  <2> QED BY <2>1, <2>2
<1>4. polled_shares'[r][s] = sh.idx + 1
  BY <1>1 DEF WellTyped
<1>5. UNCHANGED <<shares, next_index, msg_tail, checking>>
  BY DEF PollShares, tailVars, computeVars
<1>6. ASSUME NEW x \in shares[s], x.idx < sh.idx + 1
      PROVE  x.idx < polled \/ Lagging(Indices(shares[s]), x.idx) \/ x = sh
  <2>1. x.idx \in Indices(shares[s])
    BY DEF Indices
  <2>2. polled <= x.idx /\ x.idx < sh.idx => Lagging(Indices(shares[s]), x.idx)
    BY <1>1, <2>1, SkippedLags
  <2>3. x.idx \in Nat /\ (x.idx = sh.idx => x = sh)
    BY <1>3
  <2> QED BY <1>3, <1>6, <2>2, <2>3
<1>7. \A c : Uncounted(r, c)' <=> Uncounted(r, c)
  BY <1>5 DEF Uncounted
<1>8. /\ \A c \in checking[r] : c.from = s =>
            c.share \in shares[s] /\ c.share.idx < sh.idx + 1 /\ Uncounted(r, c)
      /\ \A d \in msg_tail[r] : s \in d.shares =>
            d.idx \in Indices(shares[s]) /\ d.idx < sh.idx + 1 /\ d.idx < polled
  <2>1. \A d \in msg_tail[r] : d.idx \in Nat
    BY DEF WellTyped, MessageData
  <2> QED BY <1>2, <1>3, <2>1 DEF SharesFrom
<1>9. CASE Found(r, sh.idx)
  <2> DEFINE m == DataOf(r, sh.idx).msg
  <2> DEFINE new == [from |-> s, share |-> sh, expected |-> m]
  <2> DEFINE tasks == Queued(check_tasks[r][s], s, sh, m)
  <2>1. /\ DataOf(r, sh.idx) \in msg_tail[r] /\ DataOf(r, sh.idx).idx = sh.idx
        /\ m \in Message /\ sh.idx < next_index[r]
    BY SMTT(20), <1>9, DataOfFound DEF WellTyped, MessageData, Served
  <2>2. check_tasks' = [check_tasks EXCEPT ![r][s] = tasks] /\ UNCHANGED <<buffered_shares, err>>
    BY <1>1, <1>9 DEF handleShare, WellTyped
  <2>3. check_tasks'[r][s] = tasks
    BY <2>2 DEF WellTyped
  <2>4. /\ tasks \subseteq check_tasks[r][s] \cup {new}
        /\ Cardinality(tasks) <= TailSize
        /\ \A c \in check_tasks[r][s] \cup {new} :
              c \in tasks \/ Lagging(Indices(shares[s]), c.share.idx)
    <3>1. \A c \in check_tasks[r][s] : c.share.idx # sh.idx
      BY <1>2, <1>3 DEF SharesFrom
    <3> HIDE DEF m
    <3> QED BY <2>1, <3>1, QueuedFacts
  <2>5. new.from = s /\ new.share = sh
    OBVIOUS
  <2> HIDE DEF new, tasks
  <2>6. new \notin checking[r] /\ Uncounted(r, new)
    <3>1. \A c \in checking[r] : c.from = s => c.share.idx < polled
      BY <1>2 DEF SharesFrom
    <3>2. \A d \in msg_tail[r] : s \in d.shares => d.idx < polled
      BY <1>8
    <3> QED BY <1>2, <1>3, <2>5, <3>1, <3>2 DEF Uncounted
  <2>7. SharesFrom(r, s)'
    <3>1. ASSUME NEW c \in tasks
          PROVE  /\ c.from = s /\ s # r
                 /\ c.share \in shares[s] /\ c.share.idx < sh.idx + 1
                 /\ c \notin checking[r] /\ Uncounted(r, c)
      <4>1. CASE c = new
        BY <1>2, <1>3, <2>5, <2>6, <4>1
      <4>2. CASE c \in check_tasks[r][s]
        BY <1>2, <1>3, <4>2 DEF SharesFrom
      <4> QED BY <2>4, <4>1, <4>2
    <3>2. ASSUME NEW x \in b PROVE x \in shares[s] /\ x.idx < sh.idx + 1
      BY <1>2, <1>3 DEF SharesFrom
    <3>3. Cardinality(b) <= TailSize
      BY DEF SharesFrom
    <3> QED BY <1>2, <1>4, <1>5, <1>7, <1>8, <2>2, <2>3, <2>4, <3>1, <3>2, <3>3 DEF SharesFrom
  <2>8. SharesHeld(r, s)'
    <3>1. SUFFICES ASSUME Ok(r), NEW x \in shares[s], x.idx < sh.idx + 1
                   PROVE  \/ Lagging(Indices(shares[s]), x.idx)
                          \/ x.idx >= next_index[r] /\ x \in b
                          \/ /\ x.idx < next_index[r]
                             /\ \A d \in msg_tail[r] : d.idx = x.idx =>
                                   s \in d.shares \/ UnderCheck(r, s, x.idx)'
      BY <1>4, <1>5, <2>2 DEF SharesHeld, Ok
    <3>2. \A c \in check_tasks[r][s] \cup checking[r] \cup {new} :
             c.from = s => UnderCheck(r, s, c.share.idx)' \/ Lagging(Indices(shares[s]), c.share.idx)
      BY <1>5, <2>3, <2>4 DEF UnderCheck
    <3>3. CASE x = sh
      BY <2>1, <2>5, <3>2, <3>3
    <3>4. CASE x.idx < polled
      <4>1. UnderCheck(r, s, x.idx) =>
               UnderCheck(r, s, x.idx)' \/ Lagging(Indices(shares[s]), x.idx)
        BY <3>2 DEF UnderCheck
      <4> QED BY <1>2, <3>1, <3>4, <4>1 DEF SharesHeld
    <3> QED BY <1>6, <3>1, <3>3, <3>4
  <2> QED BY <2>2, <2>7, <2>8
<1>10. CASE ~Found(r, sh.idx)
  <2> DEFINE S == b \cup {sh}
  <2>1. b \in SUBSET shares[s] /\ \A x \in b : x.idx < polled
    BY DEF SharesFrom
  <2>2. ~\E x \in b : x.idx >= sh.idx
    BY <1>2, <1>3, <2>1
  <2>3. /\ buffered_shares' = [buffered_shares EXCEPT ![r][s] = Bounded(S)]
        /\ UNCHANGED <<check_tasks, err>>
    BY <1>1, <1>10, <2>2 DEF handleShare, WellTyped
  <2>4. buffered_shares'[r][s] = Bounded(S)
    BY <2>3 DEF WellTyped
  <2>5. S \in SUBSET shares[s] /\ \A x \in S : x.idx \in Nat /\ x.idx < sh.idx + 1
    BY <1>2, <1>3, <2>1
  <2>6. IsFiniteSet(S)
    BY <1>3, <2>5, FS_Subset
  <2>7. Cardinality(Bounded(S)) <= TailSize
    <3>1. b \in SUBSET S
      OBVIOUS
    <3>2. IsFiniteSet(b)
      BY <2>6, <3>1, FS_Subset
    <3>3. Cardinality(b) \in Nat /\ Cardinality(S) \in Nat /\ Cardinality(S) <= Cardinality(b) + 1
      BY <3>2, AddOne
    <3>4. Cardinality(S) <= TailSize + 1
      <4> HIDE DEF b, S
      <4>1. Cardinality(b) <= TailSize
        BY DEF b, SharesFrom
      <4> QED BY <3>3, <4>1, CertifierAssumption
    <3> HIDE DEF S
    <3> QED BY <2>5, <2>6, <3>4, BoundedCount
  <2>8. ASSUME NEW x \in S
        PROVE  x \in Bounded(S) \/ Lagging(Indices(shares[s]), x.idx)
    <3> HIDE DEF S, b
    <3>1. CASE Cardinality(S) > TailSize /\ x = First(S)
      <4> DEFINE rest == S \ {x}
      <4>1. First(S) \in S /\ \A y \in S : First(S).idx <= y.idx
        BY <2>5, FirstOf
      <4>2. Cardinality(S) \in Nat /\ Cardinality(rest) = Cardinality(S) - 1
        BY <2>6, RemoveOne
      <4>3. Cardinality(rest) >= TailSize
        BY <3>1, <4>2, CertifierAssumption
      <4>4. rest \in SUBSET shares[s]
        BY <2>5
      <4>5. \A y \in rest : y.idx > x.idx
        BY <1>3, <2>5, <3>1, <4>1
      <4>6. Distinct(rest)
        BY <1>3, <4>4 DEF Distinct
      <4> HIDE DEF rest
      <4>7. Indices(rest) \subseteq Indices(shares[s]) /\ \A k \in Indices(rest) : k > x.idx
        BY <4>4, <4>5 DEF Indices
      <4>8. IsFiniteSet(Indices(rest))
        BY <1>3, <4>7, FS_Subset
      <4>9. Cardinality(Indices(rest)) = Cardinality(rest)
        BY <4>6, <4>8, IndexCount
      <4> QED BY <1>3, <4>3, <4>7, <4>9, LeftBehind
    <3>2. CASE ~(Cardinality(S) > TailSize /\ x = First(S))
      BY <3>2 DEF Bounded
    <3> QED BY <3>1, <3>2
  <2>9. Bounded(S) \subseteq S
    BY DEF Bounded
  <2>10. SharesFrom(r, s)'
    <3>1. ASSUME NEW c \in check_tasks[r][s]
          PROVE  /\ c.from = s /\ s # r
                 /\ c.share \in shares[s] /\ c.share.idx < sh.idx + 1
                 /\ c \notin checking[r] /\ Uncounted(r, c)
      BY <1>2, <1>3 DEF SharesFrom
    <3>2. Cardinality(check_tasks[r][s]) <= TailSize
      BY DEF SharesFrom
    <3> HIDE DEF S
    <3>3. \A x \in Bounded(S) : x \in shares[s] /\ x.idx < sh.idx + 1
      BY <2>5, <2>9
    <3> QED BY <1>2, <1>4, <1>5, <1>7, <1>8, <2>3, <2>4, <2>7, <3>1, <3>2, <3>3 DEF SharesFrom
  <2>11. SharesHeld(r, s)'
    <3>1. SUFFICES ASSUME Ok(r), NEW x \in shares[s], x.idx < sh.idx + 1
                   PROVE  \/ Lagging(Indices(shares[s]), x.idx)
                          \/ x.idx >= next_index[r] /\ x \in Bounded(S)
                          \/ /\ x.idx < next_index[r]
                             /\ \A d \in msg_tail[r] : d.idx = x.idx =>
                                   s \in d.shares \/ UnderCheck(r, s, x.idx)
      BY <1>4, <1>5, <2>3, <2>4 DEF SharesHeld, Ok, UnderCheck
    <3>2. CASE x = sh
      <4>1. \A d \in msg_tail[r] : d.idx # sh.idx
        BY <1>10 DEF Found, Indices
      <4>2. sh \in S
        OBVIOUS
      <4> HIDE DEF S
      <4> QED BY <1>3, <2>8, <3>2, <4>1, <4>2
    <3>3. CASE x.idx < polled
      <4>1. b \subseteq S
        OBVIOUS
      <4> HIDE DEF S
      <4>2. CASE x.idx >= next_index[r] /\ x \in b
        BY <2>8, <4>1, <4>2
      <4> QED BY <1>2, <3>1, <3>3, <4>2 DEF SharesHeld
    <3> QED BY <1>6, <3>1, <3>2, <3>3
  <2> QED BY <2>3, <2>10, <2>11
<1> QED BY <1>9, <1>10

(* A worker takes a verification out of the queue: it stays pending. *)
LEMMA StartCheckFlow ==
    ASSUME WellTyped, Sound, NEW r \in Replica, NEW s \in Replica, StartCheck(r, s),
           SharesFrom(r, s), SharesHeld(r, s)
    PROVE  /\ SharesFrom(r, s)' /\ SharesHeld(r, s)'
           /\ \E c : c.from = s /\ checking'[r] = checking[r] \cup {c}
<1>1. PICK c \in check_tasks[r][s] :
         /\ check_tasks' = [check_tasks EXCEPT ![r][s] = @ \ {c}]
         /\ checking' = [checking EXCEPT ![r] = @ \cup {c}]
  BY DEF StartCheck
<1>2. /\ check_tasks'[r][s] = check_tasks[r][s] \ {c}
      /\ checking'[r] = checking[r] \cup {c}
  BY <1>1 DEF WellTyped
<1>3. UNCHANGED <<shares, next_index, msg_tail, buffered_shares, polled_shares, err>>
  BY DEF StartCheck, tailVars, computeVars
<1>4. /\ c.from = s /\ s # r /\ c.share \in shares[s] /\ Uncounted(r, c)
      /\ c.share.idx < polled_shares[r][s]
  BY <1>1 DEF SharesFrom
<1>5. \A e : Uncounted(r, e)' <=> Uncounted(r, e)
  BY <1>3 DEF Uncounted
<1>6. Cardinality(check_tasks'[r][s]) <= TailSize
  <2>1. IsFiniteSet(check_tasks[r][s])
    <3> DEFINE f == [e \in check_tasks[r][s] |-> e.share.idx]
    <3>1. \A e, g \in check_tasks[r][s] : e.share.idx = g.share.idx => e = g
      <4>1. SUFFICES ASSUME NEW e \in check_tasks[r][s], NEW g \in check_tasks[r][s],
                            e.share.idx = g.share.idx
                     PROVE  e = g
        OBVIOUS
      <4>2. e \in Check /\ g \in Check /\ e.from = g.from
        BY SMTT(20) DEF WellTyped, SharesFrom
      <4>3. CheckSound(r, e) /\ CheckSound(r, g)
        BY DEF Sound, SoundAt, ReceivedSound
      <4> QED BY <4>1, <4>2, <4>3, CheckUnique
    <3>2. f \in Injection(check_tasks[r][s], Indices(shares[s]))
      <4>1. \A e \in check_tasks[r][s] : e.share.idx \in Indices(shares[s])
        BY DEF SharesFrom, Indices
      <4> QED BY <3>1, <4>1 DEF Injection, IsInjective
    <3>3. IsFiniteSet(Indices(shares[s]))
      BY SharesFinite
    <3> QED BY <3>2, <3>3, FS_Injection
  <2>2. /\ Cardinality(check_tasks[r][s]) \in Nat
        /\ Cardinality(check_tasks[r][s] \ {c}) \in Nat
        /\ Cardinality(check_tasks[r][s] \ {c}) <= Cardinality(check_tasks[r][s])
    BY <2>1, RemoveOne
  <2>3. Cardinality(check_tasks[r][s]) <= TailSize
    BY DEF SharesFrom
  <2> QED BY <1>2, <2>2, <2>3, CertifierAssumption
<1>7. SharesFrom(r, s)'
  BY <1>2, <1>3, <1>4, <1>5, <1>6 DEF SharesFrom
<1>8. SharesHeld(r, s)'
  <2>1. \A i : UnderCheck(r, s, i) => UnderCheck(r, s, i)'
    BY <1>2 DEF UnderCheck
  <2> QED BY <1>3, <2>1 DEF SharesHeld, Ok
<1> QED BY <1>2, <1>4, <1>7, <1>8
(* A verified share is counted, once. *)
LEMMA PollVerifiedFlow ==
    ASSUME WellTyped, Sound, NEW r \in Replica, PollVerifiedShare(r), Served(r),
           \A s \in Replica : SharesFrom(r, s) /\ SharesHeld(r, s)
    PROVE  /\ \A s \in Replica : SharesFrom(r, s)' /\ SharesHeld(r, s)'
           /\ Served(r)'
           /\ UNCHANGED err \/ (err'[r] = "invalid share" /\ Conflict')
           /\ \A e \in msg_tail'[r] : \E d \in msg_tail[r] :
                 e.idx = d.idx /\ e.promised = d.promised
<1>1. PICK c \in checking[r] :
         /\ checking' = [checking EXCEPT ![r] = @ \ {c}]
         /\ \/ ~valid(c) /\ Throw(r, "invalid share") /\ UNCHANGED msg_tail
            \/ valid(c) /\ ~Found(r, c.share.idx) /\ UNCHANGED <<msg_tail, err>>
            \/ /\ valid(c) /\ Found(r, c.share.idx)
               /\ c.from \in DataOf(r, c.share.idx).shares
            \/ /\ valid(c) /\ Found(r, c.share.idx)
               /\ msg_tail' = [msg_tail EXCEPT ![r] =
                     {IF d.idx = c.share.idx
                      THEN [d EXCEPT !.shares = @ \cup {c.from}] ELSE d : d \in @}]
               /\ UNCHANGED err
  BY DEF PollVerifiedShare
<1>2. /\ checking'[r] = checking[r] \ {c}
      /\ UNCHANGED <<shares, next_index, buffered_shares, polled_shares, check_tasks,
                     acknowledged>>
  BY <1>1 DEF PollVerifiedShare, WellTyped, computeVars
<1>3. c \in Check /\ CheckSound(r, c) /\ c.from \in Replica
  BY DEF WellTyped, Sound, SoundAt, ReceivedSound, Check
<1>4. SharesFrom(r, c.from)
  BY <1>3
<1>5. ASSUME NEW s \in Replica, NEW e \in check_tasks[r][s] \cup checking'[r],
             e.from = c.from
      PROVE  e.share.idx # c.share.idx
  <2>1. e \in Check /\ CheckSound(r, e)
    BY SMTT(20), <1>2 DEF WellTyped, Sound, SoundAt, ReceivedSound
  <2>2. e # c
    <3>1. SharesFrom(r, s)
      OBVIOUS
    <3>2. e \in check_tasks[r][s] => e \notin checking[r]
      BY <3>1 DEF SharesFrom
    <3> QED BY <1>1, <1>2, <3>2
  <2> QED BY <1>3, <1>5, <2>1, <2>2, CheckUnique
<1>6. CASE ~valid(c) /\ Throw(r, "invalid share") /\ UNCHANGED msg_tail
  <2>1. err'[r] = "invalid share"
    BY <1>6 DEF Throw, WellTyped
  <2>2. Conflict'
    <3> DEFINE own == [idx |-> c.share.idx, msg |-> c.expected]
    <3>1. own \in acknowledged[r] /\ c.share \in acknowledged[c.from]
      BY <1>3 DEF CheckSound, Acked
    <3>2. own.idx = c.share.idx /\ own.msg # c.share.msg
      BY <1>6 DEF valid
    <3> HIDE DEF own
    <3> QED BY <1>2, <1>3, <3>1, <3>2 DEF Conflict
  <2>3. ASSUME NEW s \in Replica PROVE SharesFrom(r, s)' /\ SharesHeld(r, s)'
    <3>1. SharesFrom(r, s) /\ \A e : Uncounted(r, e)' <=> Uncounted(r, e)
      BY <1>6 DEF Uncounted
    <3>2. SharesFrom(r, s)'
      BY <1>2, <1>6, <3>1 DEF SharesFrom
    <3>3. ~Ok(r)'
      BY <2>1 DEF Ok
    <3> QED BY <3>2, <3>3 DEF SharesHeld
  <2>4. Served(r)'
    BY <1>2, <1>6, ServedKept
  <2> QED BY <1>6, <2>1, <2>2, <2>3, <2>4
<1>7. CASE valid(c) /\ ~Found(r, c.share.idx) /\ UNCHANGED <<msg_tail, err>>
  <2>1. \A d \in msg_tail[r] : d.idx # c.share.idx
    BY <1>7 DEF Found, Indices
  <2>2. ASSUME NEW s \in Replica PROVE SharesFrom(r, s)' /\ SharesHeld(r, s)'
    <3>1. SharesFrom(r, s) /\ \A e : Uncounted(r, e)' <=> Uncounted(r, e)
      BY <1>7 DEF Uncounted
    <3>2. SharesFrom(r, s)'
      BY <1>2, <1>7, <3>1 DEF SharesFrom
    <3>3. \A i : i # c.share.idx /\ UnderCheck(r, s, i) => UnderCheck(r, s, i)'
      BY <1>2 DEF UnderCheck
    <3>4. \A x \in shares[s], d \in msg_tail[r] :
             d.idx = x.idx /\ UnderCheck(r, s, x.idx) => UnderCheck(r, s, x.idx)'
      BY <2>1, <3>3
    <3>5. SharesHeld(r, s)'
      BY <1>2, <1>7, <3>4 DEF SharesHeld, Ok
    <3> QED BY <3>2, <3>5
  <2>3. Served(r)'
    BY <1>2, <1>7, ServedKept
  <2> QED BY <1>7, <2>2, <2>3
<1>8. ~(Found(r, c.share.idx) /\ c.from \in DataOf(r, c.share.idx).shares)
  <2>1. Uncounted(r, c)
    BY <1>1, <1>4 DEF SharesFrom
  <2> QED BY <2>1, DataOfFound DEF Uncounted
<1>9. CASE /\ valid(c) /\ Found(r, c.share.idx)
           /\ msg_tail' = [msg_tail EXCEPT ![r] =
                 {IF d.idx = c.share.idx
                  THEN [d EXCEPT !.shares = @ \cup {c.from}] ELSE d : d \in @}]
           /\ UNCHANGED err
  <2> DEFINE g == [d \in msg_tail[r] |->
                     IF d.idx = c.share.idx
                     THEN [d EXCEPT !.shares = @ \cup {c.from}] ELSE d]
  <2>1. ASSUME NEW d \in msg_tail[r]
        PROVE  /\ g[d].idx = d.idx /\ g[d].promised = d.promised
               /\ g[d].shares = IF d.idx = c.share.idx THEN d.shares \cup {c.from}
                                ELSE d.shares
    <3>1. d \in MessageData
      BY DEF WellTyped
    <3>2. g[d] = IF d.idx = c.share.idx
                 THEN [d EXCEPT !.shares = @ \cup {c.from}] ELSE d
      OBVIOUS
    <3> HIDE DEF g
    <3> QED BY <3>1, <3>2 DEF MessageData
  <2>2. msg_tail'[r] = {g[d] : d \in msg_tail[r]}
    BY <1>9 DEF WellTyped
  <2> HIDE DEF g
  <2>3. Served(r)'
    <3>1. next_index'[r] = next_index[r] /\ \A d \in msg_tail[r] : g[d].idx = d.idx
      BY <1>2, <2>1
    <3> QED BY <2>2, <3>1, ServedUpdate
  <2>4. \A e \in msg_tail'[r] : \E d \in msg_tail[r] :
           /\ e.idx = d.idx /\ e.promised = d.promised /\ d.shares \subseteq e.shares
           /\ e.shares \subseteq d.shares \cup {c.from}
           /\ c.from \in e.shares /\ c.from \notin d.shares => d.idx = c.share.idx
           /\ d.idx = c.share.idx => c.from \in e.shares
    <3>1. SUFFICES ASSUME NEW d \in msg_tail[r], NEW e, e = g[d]
                   PROVE
           /\ e.idx = d.idx /\ e.promised = d.promised /\ d.shares \subseteq e.shares
           /\ e.shares \subseteq d.shares \cup {c.from}
           /\ c.from \in e.shares /\ c.from \notin d.shares => d.idx = c.share.idx
           /\ d.idx = c.share.idx => c.from \in e.shares
      BY <2>2
    <3> QED BY <2>1, <3>1
  <2>5. ASSUME NEW s \in Replica, NEW e \in check_tasks[r][s] \cup checking'[r],
               Uncounted(r, e)
        PROVE  Uncounted(r, e)'
    <3>1. e.from = c.from => e.share.idx # c.share.idx
      BY <1>5
    <3> QED BY <2>4, <2>5, <3>1 DEF Uncounted
  <2>6. ASSUME NEW s \in Replica PROVE SharesFrom(r, s)'
    <3>1. SharesFrom(r, s)
      OBVIOUS
    <3>2. ASSUME NEW e \in check_tasks[r][s]
          PROVE  /\ e.from = s /\ s # r
                 /\ e.share \in shares[s] /\ e.share.idx < polled_shares[r][s]
                 /\ e \notin checking'[r] /\ Uncounted(r, e)'
      BY <1>2, <2>5, <3>1 DEF SharesFrom
    <3>3. ASSUME NEW e \in checking'[r], e.from = s
          PROVE  /\ e.share \in shares[s] /\ Uncounted(r, e)'
                 /\ s # r => e.share.idx < polled_shares[r][s]
      <4>1. e \in checking[r]
        BY <1>2
      <4> QED BY <2>5, <3>1, <3>3, <4>1 DEF SharesFrom
    <3>4. ASSUME NEW e \in msg_tail'[r], s \in e.shares
          PROVE  /\ e.idx \in Indices(shares[s])
                 /\ s # r => e.idx < polled_shares[r][s]
      <4>1. PICK d \in msg_tail[r] :
               /\ e.idx = d.idx /\ e.shares \subseteq d.shares \cup {c.from}
               /\ c.from \in e.shares /\ c.from \notin d.shares => d.idx = c.share.idx
        BY <2>4
      <4>2. CASE s \in d.shares
        BY <3>1, <4>1, <4>2 DEF SharesFrom
      <4>3. CASE s \notin d.shares
        <5>1. s = c.from /\ e.idx = c.share.idx
          BY <3>4, <4>1, <4>3
        <5>2. /\ c.share \in shares[s]
              /\ s # r => c.share.idx < polled_shares[r][s]
          BY <1>1, <3>1, <5>1 DEF SharesFrom
        <5> QED BY <5>1, <5>2 DEF Indices
      <4> QED BY <4>2, <4>3
    <3> QED BY <1>2, <3>1, <3>2, <3>3, <3>4 DEF SharesFrom
  <2>7. ASSUME NEW s \in Replica PROVE SharesHeld(r, s)'
    <3>1. SUFFICES ASSUME Ok(r), r # s, NEW x \in shares[s],
                          x.idx < polled_shares[r][s]
                   PROVE  \/ Lagging(Indices(shares[s]), x.idx)
                          \/ x.idx >= next_index[r] /\ x \in buffered_shares[r][s]
                          \/ /\ x.idx < next_index[r]
                             /\ \A d \in msg_tail'[r] : d.idx = x.idx =>
                                   s \in d.shares \/ UnderCheck(r, s, x.idx)'
      BY <1>2, <1>9 DEF SharesHeld, Ok
    <3>2. UnderCheck(r, s, x.idx) =>
             UnderCheck(r, s, x.idx)' \/ (s = c.from /\ x.idx = c.share.idx)
      BY <1>2 DEF UnderCheck
    <3>3. CASE /\ x.idx < next_index[r]
               /\ \A d \in msg_tail[r] :
                     d.idx = x.idx => s \in d.shares \/ UnderCheck(r, s, x.idx)
      BY <2>4, <3>2, <3>3
    <3> QED BY <3>1, <3>3 DEF SharesHeld
  <2> QED BY <1>9, <2>3, <2>4, <2>6, <2>7
<1> QED BY <1>1, <1>6, <1>7, <1>8, <1>9

(* A replica that sends shares counts them as its own once they are         *)
(* verified: none of them was sent before.                                  *)
LEMMA PollComputedOwn ==
    ASSUME WellTyped, Sound, NEW r \in Replica, Pipeline(r), PollComputedShares(r),
           SharesFrom(r, r)
    PROVE  /\ SharesFrom(r, r)' /\ SharesHeld(r, r)'
           /\ \A c : c \in checking'[r] /\ c \notin checking[r] => c.from = r
           /\ checking[r] \subseteq checking'[r]
<1> DEFINE computed == {computed_shares[r][k] : k \in 1 .. Len(computed_shares[r])}
<1> DEFINE filled == {[idx |-> e.idx,
                       share |-> e.share \cup {c \in computed : c.idx = e.idx}] :
                        e \in sorted_computed_shares[r]}
<1> DEFINE useful == {e \in filled : e.idx >= Front(Indices(msg_tail[r]))}
<1> DEFINE sent == UNION {e.share : e \in Sendable(useful)}
<1>1. /\ shares'[r] = shares[r] \cup sent
      /\ checking'[r] = checking[r] \cup
            {[from |-> r, share |-> sh, expected |-> sh.msg] : sh \in sent}
  BY DEF PollComputedShares, WellTyped
<1>2. UNCHANGED <<msg_tail, next_index, buffered_shares, check_tasks, polled_shares, err>>
  BY DEF PollComputedShares, tailVars
<1>3. \A x \in sent : \E e \in sorted_computed_shares[r] : x.idx = e.idx
  <2>1. \A e \in filled : \A x \in e.share : x.idx = e.idx
    BY DEF Pipeline, Places
  <2>2. \A f \in filled : \E e \in sorted_computed_shares[r] : f.idx = e.idx
    OBVIOUS
  <2>3. Sendable(useful) \subseteq filled
    <3> HIDE DEF filled
    <3> QED BY DEF Sendable
  <2> HIDE DEF filled, useful
  <2> QED BY <2>1, <2>2, <2>3
<1> HIDE DEF sent
<1>4. ASSUME NEW x \in sent PROVE x.idx \notin Indices(shares[r])
  <2>1. PICK e \in sorted_computed_shares[r] : x.idx = e.idx
    BY <1>3
  <2>2. \A y \in shares[r] : y.idx < e.idx /\ y.idx \in Nat /\ e.idx \in Nat
    BY DEF Pipeline, Places, WellTyped, Share
  <2> QED BY <2>1, <2>2 DEF Indices
<1>5. check_tasks[r][r] = {} /\ buffered_shares[r][r] = {}
  BY DEF SharesFrom
<1>6. ASSUME NEW c \in checking'[r], c \notin checking[r]
      PROVE  c.from = r /\ c.share \in sent
  BY <1>1, <1>6
<1>7. ASSUME NEW c \in checking'[r], c.from = r
      PROVE  c.share \in shares'[r] /\ Uncounted(r, c)'
  <2>1. CASE c \in checking[r]
    BY <1>1, <1>2, <1>7, <2>1 DEF SharesFrom, Uncounted
  <2>2. CASE c \notin checking[r]
    <3>1. c.share \in sent
      BY <1>6, <2>2
    <3>2. \A d \in msg_tail[r] : r \in d.shares => d.idx \in Indices(shares[r])
      BY DEF SharesFrom
    <3> QED BY <1>1, <1>2, <1>4, <1>7, <3>1, <3>2 DEF Uncounted
  <2> QED BY <2>1, <2>2
<1>8. SharesFrom(r, r)'
  <2>1. Indices(shares[r]) \subseteq Indices(shares'[r])
    BY <1>1 DEF Indices
  <2> QED BY <1>1, <1>2, <1>5, <1>7, <2>1 DEF SharesFrom
<1>9. SharesHeld(r, r)'
  BY DEF SharesHeld
<1> QED BY <1>1, <1>6, <1>8, <1>9

(* acknowledge verifies the share that was buffered for its message and     *)
(* keeps the later ones.                                                    *)
LEMMA AcknowledgeShares ==
    ASSUME WellTyped, Sound, NEW r \in Replica, NEW s \in Replica, NEW i \in Nat,
           NEW m \in Message, Acknowledge(r, i, m), UNCHANGED err, Served(r),
           SharesFrom(r, s), SharesHeld(r, s)
    PROVE  SharesFrom(r, s)' /\ SharesHeld(r, s)'
<1> DEFINE b == buffered_shares[r][s]
<1> DEFINE replayed == {sh \in b : sh.idx = i}
<1>1. PICK new : /\ new.idx = i /\ new.shares = {}
                 /\ msg_tail'[r] = {d \in msg_tail[r] : InTail(d.idx, i)} \cup {new}
  <2> DEFINE new == [idx |-> i, msg |-> m, shares |-> {},
                     promised |-> IF run_fast_path
                        THEN {q \in Replica : i \in buffered_promises[r][q]}
                                \cup ({Leader} \ {r}) ELSE {}]
  <2>1. msg_tail'[r] = {d \in msg_tail[r] : InTail(d.idx, i)} \cup {new}
    BY DEF Acknowledge, WellTyped
  <2>2. new.idx = i /\ new.shares = {}
    OBVIOUS
  <2> QED BY <2>1, <2>2
<1>2. /\ next_index'[r] = i + 1 /\ next_index[r] \in Nat /\ next_index[r] <= i
      /\ UNCHANGED <<shares, polled_shares, checking>>
  BY DEF Acknowledge, Acknowledgeable, WellTyped
<1>3. buffered_shares'[r][s] = {sh \in b : sh.idx > i}
  BY DEF Acknowledge, WellTyped
<1>4. /\ shares[s] \in SUBSET Share /\ \A x \in shares[s] : x.idx \in Nat
      /\ \A x, y \in shares[s] : x.idx = y.idx => x = y
      /\ IsFiniteSet(shares[s]) /\ IsFiniteSet(Indices(shares[s]))
  BY SharesFinite
<1>5. \A d \in msg_tail[r] : d.idx \in Nat /\ d.idx < next_index[r]
  BY DEF Served, WellTyped, MessageData
<1>6. \A c \in check_tasks[r][s] \cup checking[r] : c.share.idx \in Nat /\ c.share.idx < i
  <2>1. ASSUME NEW c \in Check, CheckSound(r, c)
        PROVE  c.share.idx \in Nat /\ c.share.idx < i
    <3>1. [idx |-> c.share.idx, msg |-> c.expected] \in acknowledged[r]
      BY <2>1 DEF CheckSound, Acked
    <3>2. \A a \in acknowledged[r] : a.idx < next_index[r]
      BY DEF Sound, SoundAt, AckedOnce
    <3>3. c.share.idx < next_index[r]
      BY <3>1, <3>2
    <3>4. c.share.idx \in Nat
      BY DEF Check, Share
    <3> QED BY <1>2, <3>3, <3>4
  <2> QED BY SMTT(20), <2>1 DEF WellTyped, Sound, SoundAt, ReceivedSound
<1>7. b \in SUBSET shares[s] /\ (b # {} => s # r)
  BY DEF SharesFrom
<1>8. \E tasks :
         /\ check_tasks'[r][s] = tasks /\ Cardinality(tasks) <= TailSize
         /\ \A c \in tasks : \/ c \in check_tasks[r][s]
                             \/ c.from = s /\ c.share \in replayed
         /\ \A c \in check_tasks[r][s] :
               c \in tasks \/ Lagging(Indices(shares[s]), c.share.idx)
         /\ \A x \in replayed :
               \/ Lagging(Indices(shares[s]), i)
               \/ \E c \in tasks : c.from = s /\ c.share = x
  <2> DEFINE sh == CHOOSE x \in replayed : TRUE
  <2>1. check_tasks'[r][s] = IF replayed = {} THEN check_tasks[r][s]
                             ELSE Queued(check_tasks[r][s], s, sh, m)
    BY DEF Acknowledge, WellTyped
  <2>2. CASE replayed = {}
    <3>1. Cardinality(check_tasks[r][s]) <= TailSize
      BY DEF SharesFrom
    <3> HIDE DEF replayed
    <3> QED BY <2>1, <2>2, <3>1
  <2>3. CASE replayed # {}
    <3>1. sh \in replayed
      <4> HIDE DEF replayed
      <4> QED BY <2>3
    <3> HIDE DEF sh
    <3>2. sh \in shares[s] /\ sh.idx = i
      BY <1>7, <3>1
    <3> DEFINE c0 == [from |-> s, share |-> sh, expected |-> m]
    <3> DEFINE tasks == Queued(check_tasks[r][s], s, sh, m)
    <3>3. \A c \in check_tasks[r][s] : c.share.idx # sh.idx
      BY <1>6, <3>2
    <3>4. /\ tasks \subseteq check_tasks[r][s] \cup {c0}
          /\ Cardinality(tasks) <= TailSize
          /\ \A c \in check_tasks[r][s] \cup {c0} :
                c \in tasks \/ Lagging(Indices(shares[s]), c.share.idx)
      BY <3>2, <3>3, QueuedFacts
    <3>5. \A x \in replayed : x = sh
      BY <1>4, <1>7, <3>2
    <3>6. c0.from = s /\ c0.share = sh
      OBVIOUS
    <3>7. check_tasks'[r][s] = tasks
      BY <2>1, <2>3
    <3> HIDE DEF replayed, tasks, c0
    <3> QED BY <3>1, <3>2, <3>4, <3>5, <3>6, <3>7
  <2> QED BY <2>2, <2>3
<1>9. PICK tasks :
         /\ check_tasks'[r][s] = tasks /\ Cardinality(tasks) <= TailSize
         /\ \A c \in tasks : \/ c \in check_tasks[r][s]
                             \/ c.from = s /\ c.share \in replayed
         /\ \A c \in check_tasks[r][s] :
               c \in tasks \/ Lagging(Indices(shares[s]), c.share.idx)
         /\ \A x \in replayed :
               \/ Lagging(Indices(shares[s]), i)
               \/ \E c \in tasks : c.from = s /\ c.share = x
  BY <1>8
<1>10. \A c : Uncounted(r, c) => Uncounted(r, c)'
  BY <1>1 DEF Uncounted
<1>11. SharesFrom(r, s)'
  <2>1. ASSUME NEW c \in tasks
        PROVE  /\ c.from = s /\ s # r
               /\ c.share \in shares[s] /\ c.share.idx < polled_shares[r][s]
               /\ c \notin checking[r] /\ Uncounted(r, c)'
    <3>1. CASE c \in check_tasks[r][s]
      BY <1>10, <3>1 DEF SharesFrom
    <3>2. CASE c.from = s /\ c.share \in replayed
      <4>1. c.share \in b /\ c.share.idx = i
        BY <3>2
      <4>2. c \notin checking[r]
        BY <1>6, <4>1
      <4>3. Uncounted(r, c)'
        BY <1>1, <1>2, <1>5, <4>1 DEF Uncounted
      <4> QED BY <1>7, <3>2, <4>1, <4>2, <4>3 DEF SharesFrom
    <3> QED BY <1>9, <3>1, <3>2
  <2>2. Cardinality(buffered_shares'[r][s]) <= TailSize
    <3>1. buffered_shares'[r][s] \in SUBSET b
      BY <1>3
    <3>2. IsFiniteSet(b)
      BY <1>4, <1>7, FS_Subset
    <3>3. /\ IsFiniteSet(buffered_shares'[r][s])
          /\ Cardinality(buffered_shares'[r][s]) <= Cardinality(b)
      BY <3>1, <3>2, FS_Subset
    <3>4. Cardinality(buffered_shares'[r][s]) \in Nat /\ Cardinality(b) \in Nat
      BY <3>2, <3>3, FS_CardinalityType
    <3> QED BY <3>3, <3>4, CertifierAssumption DEF SharesFrom
  <2>3. \A d \in msg_tail'[r] : s \in d.shares => d \in msg_tail[r]
    BY <1>1
  <2>4. \A x \in buffered_shares'[r][s] :
           x \in shares[s] /\ x.idx < polled_shares[r][s] /\ s # r
    BY <1>3 DEF SharesFrom
  <2>5. \A c \in checking[r] : c.from = s =>
           /\ c.share \in shares[s]
           /\ s # r => c.share.idx < polled_shares[r][s]
           /\ Uncounted(r, c)'
    BY <1>10 DEF SharesFrom
  <2>6. \A d \in msg_tail'[r] : s \in d.shares =>
           /\ d.idx \in Indices(shares[s])
           /\ s # r => d.idx < polled_shares[r][s]
    BY <2>3 DEF SharesFrom
  <2>7. polled_shares[r][s] = 0 \/ \E x \in shares[s] : polled_shares[r][s] = x.idx + 1
    BY DEF SharesFrom
  <2> QED BY <1>2, <1>9, <2>1, <2>2, <2>4, <2>5, <2>6, <2>7 DEF SharesFrom
<1>12. SharesHeld(r, s)'
  <2>1. SUFFICES ASSUME Ok(r), r # s, NEW x \in shares[s], x.idx < polled_shares[r][s]
                 PROVE  \/ Lagging(Indices(shares[s]), x.idx)
                        \/ x.idx >= i + 1 /\ x \in buffered_shares'[r][s]
                        \/ /\ x.idx < i + 1
                           /\ \A d \in msg_tail'[r] : d.idx = x.idx =>
                                 s \in d.shares \/ UnderCheck(r, s, x.idx)'
    BY <1>2 DEF SharesHeld, Ok
  <2>2. x.idx \in Nat
    BY <1>4
  <2>3. CASE x.idx >= next_index[r] /\ x \in b
    <3>1. CASE x.idx > i
      BY <1>3, <2>2, <2>3, <3>1
    <3>2. CASE x.idx <= i
      <4>1. \A d \in msg_tail[r] : d.idx # x.idx
        BY <1>2, <1>5, <2>2, <2>3
      <4>2. x.idx = i => Lagging(Indices(shares[s]), i) \/ UnderCheck(r, s, i)'
        <5>1. x.idx = i => x \in replayed
          BY <2>3
        <5> HIDE DEF replayed
        <5> QED BY <1>9, <5>1 DEF UnderCheck
      <4> QED BY <1>1, <2>2, <3>2, <4>1, <4>2
    <3> QED BY <2>2, <3>1, <3>2
  <2>4. CASE /\ x.idx < next_index[r]
             /\ \A d \in msg_tail[r] :
                   d.idx = x.idx => s \in d.shares \/ UnderCheck(r, s, x.idx)
    <3>1. UnderCheck(r, s, x.idx) =>
             UnderCheck(r, s, x.idx)' \/ Lagging(Indices(shares[s]), x.idx)
      BY <1>2, <1>9 DEF UnderCheck
    <3>2. \A d \in msg_tail'[r] : d.idx = x.idx => d \in msg_tail[r]
      BY <1>1, <1>2, <2>2, <2>4
    <3> QED BY <1>2, <2>2, <2>4, <3>1, <3>2
  <2> QED BY <2>1, <2>3, <2>4 DEF SharesHeld
<1> QED BY <1>11, <1>12
-----------------------------------------------------------------------------
(* The whole invariant *)

(* A replica only stops because of a share for a message other than its own. *)
Alarm(r) == err[r] = "ok" \/ (err[r] = "invalid share" /\ Conflict)

PromisesAt(r) == \A s \in Replica : PromisesFrom(r, s) /\ PromisesHeld(r, s)
SharesAt(r) == \A s \in Replica : SharesFrom(r, s) /\ SharesHeld(r, s)

FlowAt(r) == Served(r) /\ Pipeline(r) /\ PromisesAt(r) /\ SharesAt(r) /\ Alarm(r)

Flow == \A r \in Replica : FlowAt(r)

LEMMA InitFlow == Init => Flow
<1> SUFFICES ASSUME Init, NEW r \in Replica
             PROVE  FlowAt(r)
  BY DEF Flow
<1> USE DEF Init
<1>1. Cardinality({}) = 0
  BY FS_EmptySet
<1>2. Served(r)
  BY DEF Served
<1>3. Pipeline(r)
  <2>1. Started(r) = {}
    BY DEF Started
  <2> QED BY <1>1, <2>1, CertifierAssumption
          DEF Pipeline, PipelineOrder, Places, PipelineBounds
<1>4. PromisesAt(r)
  BY <1>1, CertifierAssumption DEF PromisesAt, PromisesFrom, PromisesHeld
<1>5. SharesAt(r)
  BY <1>1, CertifierAssumption DEF SharesAt, SharesFrom, SharesHeld
<1>6. Alarm(r)
  BY DEF Alarm
<1> QED BY <1>2, <1>3, <1>4, <1>5, <1>6 DEF FlowAt

LEMMA StepGrows ==
    ASSUME WellTyped, NEW r \in Replica, Step(r)
    PROVE  Grows
<1>1. ASSUME NEW i, NEW m, Acknowledge(r, i, m) PROVE Grows
  BY <1>1 DEF Acknowledge, WellTyped, Grows
<1>2. UNCHANGED acknowledged \/ \E i, m : Acknowledge(r, i, m)
  BY DEF Step, ForgetMessages, ToggleSlowPath, PollPromise, StartCheck,
     OffloadShareComputation, StartComputation, FinishComputation, PollShares,
     PollComputedShares, PollVerifiedShare, PollCertificate, PollPromises, tailVars
<1> QED BY <1>1, <1>2 DEF Grows

LEMMA ConflictStays == Conflict /\ Grows => Conflict'
BY DEF Conflict, Grows

(* The shares of a replica only grow, above everything polled. *)
LEMMA SharesGrow ==
    ASSUME WellTyped, Sound, NEW r \in Replica, Step(r), Pipeline(r),
           NEW q \in Replica, SharesFrom(q, r)
    PROVE  /\ shares[r] \subseteq shares'[r]
           /\ \A x \in shares'[r] \ shares[r] : polled_shares[q][r] <= x.idx
<1>1. CASE PollComputedShares(r)
  <2>1. shares[r] \subseteq shares'[r]
    BY <1>1 DEF PollComputedShares, WellTyped
  <2>2. ASSUME NEW x \in shares'[r] \ shares[r] PROVE polled_shares[q][r] <= x.idx
    <3>1. PICK e \in sorted_computed_shares[r] : x.idx = e.idx
      BY <1>1, PollComputedPipeline
    <3>2. \A y \in shares[r] : y.idx < e.idx /\ y.idx \in Nat /\ e.idx \in Nat
      BY DEF Pipeline, Places, WellTyped, Share
    <3>3. e.idx \in Nat
      BY DEF WellTyped
    <3> QED BY <3>1, <3>2, <3>3 DEF SharesFrom
  <2> QED BY <2>1, <2>2
<1>2. CASE ~PollComputedShares(r)
  <2>1. UNCHANGED shares
    BY <1>2 DEF Step, ForgetMessages, ToggleSlowPath, PollPromise, StartCheck,
       OffloadShareComputation, StartComputation, FinishComputation, PollShares,
       Acknowledge, PollVerifiedShare, PollCertificate, PollPromises, computeVars
  <2> QED BY <2>1
<1> QED BY <1>1, <1>2

(* A step of r keeps the invariant at every other replica. *)
LEMMA OthersFlow ==
    ASSUME WellTyped, WellTyped', Sound, Sound', Flow, NEW r \in Replica, Step(r),
           NEW p \in Replica, p # r
    PROVE  FlowAt(p)'
<1>1. FlowAt(p) /\ Untouched(p) /\ UNCHANGED run_fast_path
  BY OthersUntouched DEF Flow
<1>2. Grows
  BY StepGrows
<1>3. Served(p)'
  BY <1>1, ServedKept DEF FlowAt, Untouched
<1>4. Pipeline(p)'
  BY <1>1, PipelineKept DEF FlowAt, Untouched
<1>5. PromisesAt(p)'
  <2>1. SUFFICES ASSUME NEW q \in Replica PROVE PromisesFrom(p, q)' /\ PromisesHeld(p, q)'
    BY DEF PromisesAt
  <2>2. PromisesFrom(p, q) /\ PromisesHeld(p, q)
    BY <1>1 DEF FlowAt, PromisesAt
  <2>3. /\ q = Leader \/ ~run_fast_path => promises'[q] = {}
        /\ promises[q] \subseteq promises'[q] /\ next_index[q] <= next_index'[q]
        /\ \A i \in promises'[q] \ promises[q] : polled_promises[p][q] <= i
    <3>1. CASE q = r
      <4>1. \A s \in Replica : PromisesFrom(s, r)
        BY DEF Flow, FlowAt, PromisesAt
      <4> QED BY <3>1, <4>1, PromisesGrow
    <3>2. CASE q # r
      <4>1. Untouched(q) /\ next_index[q] \in Nat
        BY <3>2, OthersUntouched DEF WellTyped
      <4> QED BY <2>2, <4>1 DEF Untouched, PromisesFrom
    <3> QED BY <3>1, <3>2
  <2>4. /\ next_index'[p] = next_index[p]
        /\ buffered_promises'[p][q] = buffered_promises[p][q]
        /\ polled_promises'[p][q] = polled_promises[p][q] /\ err'[p] = err[p]
        /\ msg_tail'[p] = msg_tail[p]
    BY <1>1 DEF Untouched
  <2> QED BY <1>1, <2>2, <2>3, <2>4, PromisesKeptAt
<1>6. SharesAt(p)'
  <2>1. SUFFICES ASSUME NEW q \in Replica PROVE SharesFrom(p, q)' /\ SharesHeld(p, q)'
    BY DEF SharesAt
  <2>2. SharesFrom(p, q) /\ SharesHeld(p, q)
    BY <1>1 DEF FlowAt, SharesAt
  <2>3. /\ shares[q] \subseteq shares'[q]
        /\ \A x \in shares'[q] \ shares[q] : polled_shares[p][q] <= x.idx
    <3>1. CASE q = r
      BY <2>2, <3>1, SharesGrow DEF Flow, FlowAt
    <3>2. CASE q # r
      BY <3>2, OthersUntouched DEF Untouched
    <3> QED BY <3>1, <3>2
  <2>4. /\ next_index'[p] = next_index[p]
        /\ buffered_shares'[p][q] = buffered_shares[p][q]
        /\ polled_shares'[p][q] = polled_shares[p][q] /\ err'[p] = err[p]
        /\ check_tasks'[p][q] = check_tasks[p][q] /\ checking'[p] = checking[p]
        /\ msg_tail'[p] = msg_tail[p]
    BY <1>1 DEF Untouched
  <2> QED BY <2>2, <2>3, <2>4, SharesKeptAt
<1>7. Alarm(p)'
  BY <1>1, <1>2, ConflictStays DEF FlowAt, Alarm, Untouched
<1> QED BY <1>3, <1>4, <1>5, <1>6, <1>7 DEF FlowAt

-----------------------------------------------------------------------------
(* A step keeps the invariant at the replica that takes it *)

(* What is counted for other sources, and what is not touched, is kept. *)
LEMMA OwnPromises ==
    ASSUME WellTyped, WellTyped', Sound, Sound', NEW r \in Replica, NEW q \in Replica,
           PromisesFrom(r, q), PromisesHeld(r, q),
           UNCHANGED <<run_fast_path, promises, next_index>>,
           buffered_promises'[r][q] = buffered_promises[r][q],
           polled_promises'[r][q] = polled_promises[r][q],
           err'[r] = "ok" => err[r] = "ok",
           \A e \in msg_tail'[r] : \E d \in msg_tail[r] :
              e.idx = d.idx /\ (q \in e.promised <=> q \in d.promised)
    PROVE  PromisesFrom(r, q)' /\ PromisesHeld(r, q)'
<1>1. /\ q = Leader \/ ~run_fast_path => promises'[q] = {}
      /\ promises'[q] = promises[q] /\ next_index'[q] = next_index[q]
      /\ next_index[q] <= next_index'[q] /\ next_index'[r] = next_index[r]
  <2>1. next_index[q] \in Nat
    BY DEF WellTyped
  <2> QED BY <2>1 DEF PromisesFrom
<1> QED BY <1>1, PromisesKeptAt

LEMMA OwnShares ==
    ASSUME WellTyped, WellTyped', Sound, Sound', NEW r \in Replica, NEW q \in Replica,
           SharesFrom(r, q), SharesHeld(r, q),
           shares'[q] = shares[q], next_index'[r] = next_index[r],
           buffered_shares'[r][q] = buffered_shares[r][q],
           polled_shares'[r][q] = polled_shares[r][q],
           check_tasks'[r][q] = check_tasks[r][q],
           \A c : c.from = q => (c \in checking'[r] <=> c \in checking[r]),
           err'[r] = "ok" => err[r] = "ok",
           \A e \in msg_tail'[r] : \E d \in msg_tail[r] :
              e.idx = d.idx /\ (q \in e.shares <=> q \in d.shares)
    PROVE  SharesFrom(r, q)' /\ SharesHeld(r, q)'
BY SharesKeptAt

(* Steps that touch neither the tail nor what is received. *)
LEMMA QuietFlow ==
    ASSUME WellTyped, WellTyped', Sound, Sound', NEW r \in Replica, FlowAt(r),
           UNCHANGED <<run_fast_path, tailVars, promiseVars, checkVars, shares, err>>
    PROVE  Served(r)' /\ PromisesAt(r)' /\ SharesAt(r)' /\ Alarm(r)'
<1>1. Served(r)' /\ Alarm(r)'
  BY DEF FlowAt, Served, Alarm, Conflict, tailVars
<1>2. ASSUME NEW q \in Replica
      PROVE  PromisesFrom(r, q)' /\ PromisesHeld(r, q)'
  <2>1. PromisesFrom(r, q) /\ PromisesHeld(r, q)
    BY DEF FlowAt, PromisesAt
  <2>2. UNCHANGED <<run_fast_path, promises, next_index, buffered_promises,
                    polled_promises, err, msg_tail>>
    BY DEF tailVars, promiseVars
  <2> QED BY <2>1, <2>2, OwnPromises
<1>3. ASSUME NEW q \in Replica
      PROVE  SharesFrom(r, q)' /\ SharesHeld(r, q)'
  <2>1. SharesFrom(r, q) /\ SharesHeld(r, q)
    BY DEF FlowAt, SharesAt
  <2>2. UNCHANGED <<shares, next_index, buffered_shares, polled_shares, check_tasks,
                    checking, err, msg_tail>>
    BY DEF tailVars, checkVars
  <2> QED BY <2>1, <2>2, OwnShares
<1> QED BY <1>1, <1>2, <1>3 DEF PromisesAt, SharesAt

LEMMA ForgetFlow ==
    ASSUME WellTyped, WellTyped', Sound, Sound', NEW r \in Replica, FlowAt(r),
           NEW i \in Nat, ForgetMessages(r, i)
    PROVE  FlowAt(r)'
<1>1. /\ msg_tail'[r] \subseteq msg_tail[r]
      /\ UNCHANGED <<run_fast_path, next_index, acknowledged, promiseVars, computeVars,
                     checkVars, err>>
  BY DEF ForgetMessages, WellTyped, pathVars
<1>2. Served(r)'
  BY <1>1, ServedKept DEF FlowAt
<1>3. Pipeline(r)'
  BY <1>1, PipelineKept DEF FlowAt, computeVars
<1>4. ASSUME NEW q \in Replica
      PROVE  PromisesFrom(r, q)' /\ PromisesHeld(r, q)'
  <2>1. PromisesFrom(r, q) /\ PromisesHeld(r, q)
    BY DEF FlowAt, PromisesAt
  <2>2. UNCHANGED <<run_fast_path, promises, next_index, buffered_promises,
                    polled_promises, err>>
    BY <1>1 DEF promiseVars
  <2> QED BY <1>1, <2>1, <2>2, OwnPromises
<1>5. ASSUME NEW q \in Replica
      PROVE  SharesFrom(r, q)' /\ SharesHeld(r, q)'
  <2>1. SharesFrom(r, q) /\ SharesHeld(r, q)
    BY DEF FlowAt, SharesAt
  <2>2. UNCHANGED <<shares, next_index, buffered_shares, polled_shares, check_tasks,
                    checking, err>>
    BY <1>1 DEF computeVars, checkVars
  <2> QED BY <1>1, <2>1, <2>2, OwnShares
<1>6. Alarm(r)'
  BY <1>1 DEF FlowAt, Alarm, Conflict
<1> QED BY <1>2, <1>3, <1>4, <1>5, <1>6 DEF FlowAt, PromisesAt, SharesAt

LEMMA AcknowledgeFlow ==
    ASSUME WellTyped, WellTyped', Sound, Sound', Flow, NEW r \in Replica,
           NEW i \in 0 .. MaxIndex - 1, NEW m \in Message, Acknowledge(r, i, m)
    PROVE  FlowAt(r)'
<1>1. i \in Nat /\ FlowAt(r) /\ Step(r)
  BY CertifierAssumption DEF Flow, Step
<1>2. Pipeline(r)' /\ UNCHANGED err
  BY <1>1, AcknowledgePipeline DEF FlowAt
<1>3. Served(r)'
  BY <1>1, AcknowledgeServed DEF FlowAt
<1>4. ASSUME NEW q \in Replica
      PROVE  PromisesFrom(r, q)' /\ PromisesHeld(r, q)'
  <2>1. PromisesFrom(r, q) /\ PromisesHeld(r, q)
    BY <1>1 DEF FlowAt, PromisesAt
  <2>2. CASE q # r
    BY <1>1, <1>2, <2>1, <2>2, AcknowledgePromises DEF FlowAt
  <2>3. CASE q = r
    <3>1. /\ UNCHANGED run_fast_path
          /\ r = Leader \/ ~run_fast_path => promises'[r] = {}
          /\ promises[r] \subseteq promises'[r] /\ next_index[r] <= next_index'[r]
      <4>1. \A s \in Replica : PromisesFrom(s, r)
        BY DEF Flow, FlowAt, PromisesAt
      <4> QED BY <1>1, <4>1, PromisesGrow
    <3>2. /\ buffered_promises'[r][r] \in SUBSET buffered_promises[r][r]
          /\ polled_promises' = polled_promises
      <4>1. buffered_promises' = [buffered_promises EXCEPT ![r] =
               [s \in Replica |-> IF run_fast_path
                                  THEN {j \in buffered_promises[r][s] : j > i}
                                  ELSE buffered_promises[r][s]]]
        BY DEF Acknowledge, WellTyped
      <4>2. buffered_promises'[r] =
               [s \in Replica |-> IF run_fast_path
                                  THEN {j \in buffered_promises[r][s] : j > i}
                                  ELSE buffered_promises[r][s]]
        BY <4>1 DEF WellTyped
      <4>3. buffered_promises'[r][r] = IF run_fast_path
                                       THEN {j \in buffered_promises[r][r] : j > i}
                                       ELSE buffered_promises[r][r]
        BY <4>2
      <4>4. polled_promises' = polled_promises
        BY DEF Acknowledge
      <4> QED BY <4>3, <4>4
    <3>3. Cardinality(buffered_promises'[r][r]) <= TailSize
      <4>1. buffered_promises[r][r] \in SUBSET promises[r]
        BY <2>1, <2>3 DEF PromisesFrom
      <4>2. IsFiniteSet(buffered_promises[r][r])
        BY <4>1, PromisesFinite, FS_Subset
      <4>3. /\ IsFiniteSet(buffered_promises'[r][r])
            /\ Cardinality(buffered_promises'[r][r]) <= Cardinality(buffered_promises[r][r])
        BY <3>2, <4>2, FS_Subset
      <4>4. Cardinality(buffered_promises'[r][r]) \in Nat /\ Cardinality(buffered_promises[r][r]) \in Nat
        BY <4>2, <4>3, FS_CardinalityType
      <4> QED BY <2>1, <2>3, <4>3, <4>4, CertifierAssumption DEF PromisesFrom
    <3>4. \A d \in msg_tail'[r] :
             r \in d.promised /\ r # Leader => d.idx < polled_promises[r][r]
      <4> DEFINE new == [idx |-> i, msg |-> m, shares |-> {},
                         promised |-> IF run_fast_path
                            THEN {s \in Replica : i \in buffered_promises[r][s]}
                                    \cup ({Leader} \ {r}) ELSE {}]
      <4>1. msg_tail'[r] = {d \in msg_tail[r] : InTail(d.idx, i)} \cup {new}
        BY DEF Acknowledge, WellTyped
      <4>2. new.idx = i /\ (r \in new.promised /\ r # Leader => i \in buffered_promises[r][r])
        OBVIOUS
      <4>3. \A j \in buffered_promises[r][r] : j < polled_promises[r][r]
        BY <2>1, <2>3 DEF PromisesFrom
      <4>4. \A d \in msg_tail[r] :
               r \in d.promised /\ r # Leader => d.idx < polled_promises[r][r]
        BY <2>1, <2>3 DEF PromisesFrom
      <4> HIDE DEF new
      <4> QED BY <4>1, <4>2, <4>3, <4>4
    <3>5. polled_promises[r][r] <= next_index'[r]
      <4>1. /\ polled_promises[r][r] \in Nat /\ next_index[r] \in Nat
            /\ next_index'[r] \in Nat /\ polled_promises[r][r] <= next_index[r]
        BY <2>1, <2>3 DEF WellTyped, PromisesFrom
      <4> QED BY <3>1, <4>1
    <3>6. PromisesFrom(r, r)'
      BY <2>1, <2>3, <3>1, <3>2, <3>3, <3>4, <3>5 DEF PromisesFrom
    <3> QED BY <2>3, <3>6 DEF PromisesHeld
  <2> QED BY <2>2, <2>3
<1>5. ASSUME NEW q \in Replica
      PROVE  SharesFrom(r, q)' /\ SharesHeld(r, q)'
  BY <1>1, <1>2, AcknowledgeShares DEF FlowAt, SharesAt
<1>6. Alarm(r)'
  BY <1>1, <1>2, StepGrows, ConflictStays DEF FlowAt, Alarm
<1> QED BY <1>2, <1>3, <1>4, <1>5, <1>6 DEF FlowAt, PromisesAt, SharesAt

(* An update of what r keeps for s leaves what it keeps for the others.     *)
LEMMA LinkKept ==
    ASSUME NEW S, NEW f \in [Replica -> [Replica -> S]], NEW g,
           NEW r \in Replica, NEW s \in Replica, NEW q \in Replica, q # s,
           g = f \/ \E v : g = [f EXCEPT ![r][s] = v]
    PROVE  g[r][q] = f[r][q]
<1>1. CASE g = f
  BY <1>1
<1>2. CASE \E v : g = [f EXCEPT ![r][s] = v]
  <2>1. PICK v : g = [f EXCEPT ![r][s] = v]
    BY <1>2
  <2> QED BY <2>1, LinkEntry
<1> QED BY <1>1, <1>2

LEMMA PollPromisesOwn ==
    ASSUME WellTyped, WellTyped', Sound, Sound', NEW r \in Replica, FlowAt(r),
           NEW s \in Replica, PollPromises(r, s)
    PROVE  FlowAt(r)'
<1>1. PromisesFrom(r, s)' /\ PromisesHeld(r, s)' /\ UNCHANGED err
  BY PollPromisesFlow DEF FlowAt, PromisesAt
<1>2. PICK i : msg_tail'[r] =
         {IF d.idx = i THEN [d EXCEPT !.promised = @ \cup {s}] ELSE d
            : d \in msg_tail[r]}
  BY PollPromisesFlow DEF FlowAt, PromisesAt
<1>3. UNCHANGED <<run_fast_path, next_index, acknowledged, promises, computeVars, checkVars>>
  BY DEF PollPromises, pathVars
<1> DEFINE g == [d \in msg_tail[r] |->
                   IF d.idx = i THEN [d EXCEPT !.promised = @ \cup {s}] ELSE d]
<1>4. ASSUME NEW d \in msg_tail[r]
      PROVE  /\ g[d].idx = d.idx /\ g[d].shares = d.shares
             /\ \A q \in Replica : q # s => (q \in g[d].promised <=> q \in d.promised)
  <2>1. d \in MessageData
    BY DEF WellTyped
  <2>2. g[d] = IF d.idx = i THEN [d EXCEPT !.promised = @ \cup {s}] ELSE d
    OBVIOUS
  <2> HIDE DEF g
  <2> QED BY <2>1, <2>2 DEF MessageData
<1>5. msg_tail'[r] = {g[d] : d \in msg_tail[r]}
  BY <1>2
<1> HIDE DEF g
<1>6. Served(r)'
  <2>1. next_index'[r] = next_index[r] /\ \A d \in msg_tail[r] : g[d].idx = d.idx
    BY <1>3, <1>4
  <2> QED BY <1>5, <2>1, ServedUpdate DEF FlowAt
<1>7. Pipeline(r)'
  BY <1>3, PipelineKept DEF FlowAt, computeVars
<1>8. ASSUME NEW q \in Replica, q # s
      PROVE  PromisesFrom(r, q)' /\ PromisesHeld(r, q)'
  <2>1. PromisesFrom(r, q) /\ PromisesHeld(r, q)
    BY DEF FlowAt, PromisesAt
  <2>2. /\ buffered_promises'[r][q] = buffered_promises[r][q]
        /\ polled_promises'[r][q] = polled_promises[r][q]
    <3>1. PICK k : /\ polled_promises' = [polled_promises EXCEPT ![r][s] = k + 1]
                   /\ handlePromise(r, s, k)
      BY DEF PollPromises
    <3>2. \/ buffered_promises' = buffered_promises
          \/ \E v : buffered_promises' = [buffered_promises EXCEPT ![r][s] = v]
      BY <3>1 DEF handlePromise
    <3>3. /\ buffered_promises \in [Replica -> [Replica -> SUBSET Nat]]
          /\ polled_promises \in [Replica -> [Replica -> Nat]]
      BY DEF WellTyped
    <3>4. buffered_promises'[r][q] = buffered_promises[r][q]
      BY <1>8, <3>2, <3>3, LinkKept
    <3>5. \E v : polled_promises' = [polled_promises EXCEPT ![r][s] = v]
      BY <3>1
    <3>6. polled_promises'[r][q] = polled_promises[r][q]
      BY <1>8, <3>5, <3>3, LinkKept
    <3> QED BY <3>4, <3>6
  <2>3. \A e \in msg_tail'[r] : \E d \in msg_tail[r] :
           e.idx = d.idx /\ (q \in e.promised <=> q \in d.promised)
    BY <1>4, <1>5, <1>8
  <2> QED BY <1>1, <1>3, <2>1, <2>2, <2>3, OwnPromises
<1>9. ASSUME NEW q \in Replica
      PROVE  SharesFrom(r, q)' /\ SharesHeld(r, q)'
  <2>1. SharesFrom(r, q) /\ SharesHeld(r, q)
    BY DEF FlowAt, SharesAt
  <2>2. UNCHANGED <<shares, next_index, buffered_shares, polled_shares, check_tasks,
                    checking, err>>
    BY <1>1, <1>3 DEF computeVars, checkVars
  <2>3. \A e \in msg_tail'[r] : \E d \in msg_tail[r] :
           e.idx = d.idx /\ (q \in e.shares <=> q \in d.shares)
    BY <1>4, <1>5
  <2> QED BY <2>1, <2>2, <2>3, OwnShares
<1>10. Alarm(r)'
  <2>1. err' = err /\ acknowledged' = acknowledged
    BY <1>1, <1>3
  <2>2. Conflict' <=> Conflict
    BY <2>1 DEF Conflict
  <2>3. Alarm(r)
    BY DEF FlowAt
  <2> QED BY <2>1, <2>2, <2>3 DEF Alarm
<1> QED BY <1>1, <1>6, <1>7, <1>8, <1>9, <1>10 DEF FlowAt, PromisesAt, SharesAt

LEMMA PollSharesOwn ==
    ASSUME WellTyped, WellTyped', Sound, Sound', NEW r \in Replica, FlowAt(r),
           NEW s \in Replica, PollShares(r, s)
    PROVE  FlowAt(r)'
<1>1. SharesFrom(r, s)' /\ SharesHeld(r, s)' /\ UNCHANGED err
  BY PollSharesFlow DEF FlowAt, SharesAt
<1>2. UNCHANGED <<run_fast_path, tailVars, promiseVars, computeVars, checking>>
  BY DEF PollShares, pathVars
<1>3. Served(r)' /\ Alarm(r)'
  BY <1>1, <1>2 DEF FlowAt, Served, Alarm, Conflict, tailVars
<1>4. Pipeline(r)'
  BY <1>2, PipelineKept DEF FlowAt, computeVars, tailVars
<1>5. ASSUME NEW q \in Replica
      PROVE  PromisesFrom(r, q)' /\ PromisesHeld(r, q)'
  <2>1. PromisesFrom(r, q) /\ PromisesHeld(r, q)
    BY DEF FlowAt, PromisesAt
  <2>2. UNCHANGED <<run_fast_path, promises, next_index, buffered_promises,
                    polled_promises, err, msg_tail>>
    BY <1>1, <1>2 DEF tailVars, promiseVars
  <2> QED BY <2>1, <2>2, OwnPromises
<1>6. ASSUME NEW q \in Replica, q # s
      PROVE  SharesFrom(r, q)' /\ SharesHeld(r, q)'
  <2>1. SharesFrom(r, q) /\ SharesHeld(r, q)
    BY DEF FlowAt, SharesAt
  <2>2. /\ buffered_shares'[r][q] = buffered_shares[r][q]
        /\ polled_shares'[r][q] = polled_shares[r][q]
        /\ check_tasks'[r][q] = check_tasks[r][q]
    <3>1. PICK sh : /\ polled_shares' = [polled_shares EXCEPT ![r][s] = sh.idx + 1]
                    /\ handleShare(r, s, sh)
      BY DEF PollShares
    <3>2. \/ buffered_shares' = buffered_shares
          \/ \E v : buffered_shares' = [buffered_shares EXCEPT ![r][s] = v]
      BY <3>1 DEF handleShare
    <3>3. \/ check_tasks' = check_tasks
          \/ \E v : check_tasks' = [check_tasks EXCEPT ![r][s] = v]
      BY <3>1 DEF handleShare
    <3>4. \E v : polled_shares' = [polled_shares EXCEPT ![r][s] = v]
      BY <3>1
    <3>5. /\ buffered_shares \in [Replica -> [Replica -> SUBSET Share]]
          /\ check_tasks \in [Replica -> [Replica -> SUBSET Check]]
          /\ polled_shares \in [Replica -> [Replica -> Nat]]
      BY DEF WellTyped
    <3>6. buffered_shares'[r][q] = buffered_shares[r][q]
      BY <1>6, <3>2, <3>5, LinkKept
    <3>7. check_tasks'[r][q] = check_tasks[r][q]
      BY <1>6, <3>3, <3>5, LinkKept
    <3>8. polled_shares'[r][q] = polled_shares[r][q]
      BY <1>6, <3>4, <3>5, LinkKept
    <3> QED BY <3>6, <3>7, <3>8
  <2>3. UNCHANGED <<shares, next_index, checking, err, msg_tail>>
    BY <1>1, <1>2 DEF tailVars, computeVars
  <2> QED BY <2>1, <2>2, <2>3, OwnShares
<1> QED BY <1>1, <1>3, <1>4, <1>5, <1>6 DEF FlowAt, PromisesAt, SharesAt

LEMMA StartCheckOwn ==
    ASSUME WellTyped, WellTyped', Sound, Sound', NEW r \in Replica, FlowAt(r),
           NEW s \in Replica, StartCheck(r, s)
    PROVE  FlowAt(r)'
<1>1. /\ SharesFrom(r, s)' /\ SharesHeld(r, s)'
      /\ \E c : c.from = s /\ checking'[r] = checking[r] \cup {c}
  BY StartCheckFlow DEF FlowAt, SharesAt
<1>2. UNCHANGED <<run_fast_path, tailVars, promiseVars, computeVars, buffered_shares,
                  polled_shares, err>>
  BY DEF StartCheck, pathVars
<1>3. Served(r)' /\ Alarm(r)'
  BY ZenonT(30), <1>2 DEF FlowAt, Served, Alarm, Conflict, tailVars
<1>4. Pipeline(r)'
  BY <1>2, PipelineKept DEF FlowAt, computeVars, tailVars
<1>5. ASSUME NEW q \in Replica
      PROVE  PromisesFrom(r, q)' /\ PromisesHeld(r, q)'
  <2>1. PromisesFrom(r, q) /\ PromisesHeld(r, q)
    BY DEF FlowAt, PromisesAt
  <2>2. UNCHANGED <<run_fast_path, promises, next_index, buffered_promises,
                    polled_promises, err, msg_tail>>
    BY <1>2 DEF tailVars, promiseVars
  <2> QED BY <2>1, <2>2, OwnPromises
<1>6. ASSUME NEW q \in Replica, q # s
      PROVE  SharesFrom(r, q)' /\ SharesHeld(r, q)'
  <2>1. SharesFrom(r, q) /\ SharesHeld(r, q)
    BY DEF FlowAt, SharesAt
  <2>2. check_tasks'[r][q] = check_tasks[r][q]
    BY <1>6 DEF StartCheck, WellTyped
  <2>3. UNCHANGED <<shares, next_index, buffered_shares, polled_shares, err, msg_tail>>
    BY <1>2 DEF tailVars, computeVars
  <2>4. \A c : c.from = q => (c \in checking'[r] <=> c \in checking[r])
    BY <1>1, <1>6
  <2> QED BY <2>1, <2>2, <2>3, <2>4, OwnShares
<1> QED BY <1>1, <1>3, <1>4, <1>5, <1>6 DEF FlowAt, PromisesAt, SharesAt

LEMMA PollVerifiedOwn ==
    ASSUME WellTyped, WellTyped', Sound, Sound', NEW r \in Replica, FlowAt(r),
           PollVerifiedShare(r)
    PROVE  FlowAt(r)'
<1>1. /\ \A s \in Replica : SharesFrom(r, s)' /\ SharesHeld(r, s)'
      /\ Served(r)'
      /\ UNCHANGED err \/ (err'[r] = "invalid share" /\ Conflict')
      /\ \A e \in msg_tail'[r] : \E d \in msg_tail[r] :
            e.idx = d.idx /\ e.promised = d.promised
  BY PollVerifiedFlow DEF FlowAt, SharesAt
<1>2. UNCHANGED <<run_fast_path, next_index, acknowledged, promiseVars, computeVars>>
  BY DEF PollVerifiedShare, pathVars
<1>3. Pipeline(r)'
  BY <1>2, PipelineKept DEF FlowAt, computeVars
<1>4. ASSUME NEW q \in Replica
      PROVE  PromisesFrom(r, q)' /\ PromisesHeld(r, q)'
  <2>1. PromisesFrom(r, q) /\ PromisesHeld(r, q)
    BY DEF FlowAt, PromisesAt
  <2>2. UNCHANGED <<run_fast_path, promises, next_index, buffered_promises,
                    polled_promises>>
    BY <1>2 DEF promiseVars
  <2>3. err'[r] = "ok" => err[r] = "ok"
    BY <1>1
  <2>4. \A e \in msg_tail'[r] : \E d \in msg_tail[r] :
           e.idx = d.idx /\ (q \in e.promised <=> q \in d.promised)
    BY <1>1
  <2> QED BY <2>1, <2>2, <2>3, <2>4, OwnPromises
<1>5. Alarm(r)'
  BY <1>1, <1>2 DEF FlowAt, Alarm, Conflict
<1> QED BY <1>1, <1>3, <1>4, <1>5 DEF FlowAt, PromisesAt, SharesAt

LEMMA PollComputedFlow ==
    ASSUME WellTyped, WellTyped', Sound, Sound', NEW r \in Replica, FlowAt(r),
           PollComputedShares(r)
    PROVE  FlowAt(r)'
<1>1. Pipeline(r)'
  BY PollComputedPipeline DEF FlowAt
<1>2. /\ SharesFrom(r, r)' /\ SharesHeld(r, r)'
      /\ \A c : c \in checking'[r] /\ c \notin checking[r] => c.from = r
      /\ checking[r] \subseteq checking'[r]
  BY PollComputedOwn DEF FlowAt, SharesAt
<1>3. UNCHANGED <<run_fast_path, tailVars, promiseVars, buffered_shares, check_tasks,
                  polled_shares, err>>
  BY DEF PollComputedShares, pathVars
<1>4. Served(r)' /\ Alarm(r)'
  BY <1>3 DEF FlowAt, Served, Alarm, Conflict, tailVars
<1>5. ASSUME NEW q \in Replica
      PROVE  PromisesFrom(r, q)' /\ PromisesHeld(r, q)'
  <2>1. PromisesFrom(r, q) /\ PromisesHeld(r, q)
    BY DEF FlowAt, PromisesAt
  <2>2. UNCHANGED <<run_fast_path, promises, next_index, buffered_promises,
                    polled_promises, err, msg_tail>>
    BY <1>3 DEF tailVars, promiseVars
  <2> QED BY <2>1, <2>2, OwnPromises
<1>6. ASSUME NEW q \in Replica, q # r
      PROVE  SharesFrom(r, q)' /\ SharesHeld(r, q)'
  <2>1. SharesFrom(r, q) /\ SharesHeld(r, q)
    BY DEF FlowAt, SharesAt
  <2>2. UNCHANGED <<next_index, buffered_shares, polled_shares, check_tasks, err, msg_tail>>
    BY <1>3 DEF tailVars
  <2>3. shares'[q] = shares[q]
    BY <1>6 DEF PollComputedShares, WellTyped
  <2>4. \A c : c.from = q => (c \in checking'[r] <=> c \in checking[r])
    BY <1>2, <1>6
  <2> QED BY <2>1, <2>2, <2>3, <2>4, OwnShares
<1> QED BY <1>1, <1>2, <1>4, <1>5, <1>6 DEF FlowAt, PromisesAt, SharesAt

LEMMA QuietOwn ==
    ASSUME WellTyped, WellTyped', Sound, Sound', NEW r \in Replica, FlowAt(r),
           \/ ToggleSlowPath(r) \/ PollPromise(r) \/ PollCertificate(r)
           \/ OffloadShareComputation(r) \/ StartComputation(r) \/ FinishComputation(r)
    PROVE  FlowAt(r)'
<1>1. UNCHANGED <<run_fast_path, tailVars, promiseVars, checkVars, shares, err>>
  BY DEF ToggleSlowPath, PollPromise, PollCertificate, OffloadShareComputation,
         StartComputation, FinishComputation, pathVars, computeVars
<1>2. Pipeline(r)'
  <2>1. CASE OffloadShareComputation(r) \/ StartComputation(r) \/ FinishComputation(r)
    BY <2>1, OffloadPipeline, StartPipeline, FinishPipeline DEF FlowAt
  <2>2. CASE ToggleSlowPath(r) \/ PollPromise(r) \/ PollCertificate(r)
    <3>1. UNCHANGED <<computeVars, acknowledged>>
      BY <2>2 DEF ToggleSlowPath, PollPromise, PollCertificate, tailVars
    <3> QED BY <3>1, PipelineKept DEF FlowAt, computeVars
  <2> QED BY <2>1, <2>2
<1> QED BY <1>1, <1>2, QuietFlow DEF FlowAt

LEMMA NextFlow ==
    WellTyped /\ WellTyped' /\ Sound /\ Sound' /\ Flow /\ [Next]_vars => Flow'
<1> SUFFICES ASSUME WellTyped, WellTyped', Sound, Sound', Flow, [Next]_vars
             PROVE  Flow'
  OBVIOUS
<1>1. CASE UNCHANGED vars
  <2>1. ASSUME NEW q \in Replica PROVE FlowAt(q)'
    <3>1. FlowAt(q)
      BY DEF Flow
    <3>2. UNCHANGED <<run_fast_path, tailVars, promiseVars, checkVars, shares, err>>
      BY <1>1 DEF vars, pathVars, computeVars
    <3>3. Pipeline(q)'
      BY <1>1, <3>1, PipelineKept DEF FlowAt, vars, computeVars, tailVars
    <3> QED BY <3>1, <3>2, <3>3, QuietFlow DEF FlowAt
  <2> QED BY <2>1 DEF Flow
<1>2. CASE Next
  <2>1. PICK r \in Replica : Step(r)
    BY <1>2 DEF Next
  <2>2. FlowAt(r) /\ 0 .. MaxIndex - 1 \subseteq Nat
    BY CertifierAssumption DEF Flow
  <2>3. FlowAt(r)'
    BY <2>1, <2>2, ForgetFlow, AcknowledgeFlow, QuietOwn, PollComputedFlow,
       PollVerifiedOwn, PollPromisesOwn, PollSharesOwn, StartCheckOwn
       DEF Step
  <2>4. \A q \in Replica : q # r => FlowAt(q)'
    BY <2>1, OthersFlow
  <2> QED BY <2>3, <2>4 DEF Flow
<1> QED BY <1>1, <1>2

-----------------------------------------------------------------------------
(* The invariant of the proofs. *)
Inv == WellTyped /\ Sound /\ Flow

LEMMA InvHolds == Spec => []Inv
<1>1. Init => Inv
  BY InitWellTyped, InitSound, InitFlow DEF Inv
<1>2. Inv /\ [Next]_vars => Inv'
  BY NextWellTyped, NextSound, NextFlow DEF Inv
<1> QED BY <1>1, <1>2, PTL DEF Spec

(* Every variable keeps its type and no queue outgrows the tail: the tail   *)
(* itself because it is a window of indices, the shares in their places     *)
(* because they span less than a tail, the others because they drop their   *)
(* front.                                                                   *)
THEOREM TypeCorrect == Spec => []TypeOK
<1>1. Inv => TypeOK
  <2>1. SUFFICES ASSUME WellTyped, Sound, Flow PROVE TailBounded
    BY DEF Inv, TypeOK
  <2>2. ASSUME NEW r \in Replica
        PROVE  /\ Cardinality(msg_tail[r]) <= TailSize
               /\ Cardinality(queued_share_computations[r]) <= TailSize
               /\ Cardinality(share_tasks[r]) <= TailSize
               /\ Cardinality(sorted_computed_shares[r]) <= TailSize
    <3>1. Served(r) /\ Pipeline(r)
      BY <2>1 DEF Flow, FlowAt
    <3>2. Cardinality(msg_tail[r]) <= TailSize
      <4>1. CASE msg_tail[r] = {}
        BY <4>1, FS_EmptySet, CertifierAssumption
      <4>2. CASE msg_tail[r] # {}
        <5>1. \A d \in msg_tail[r] : d.idx \in Nat
          BY <2>1 DEF WellTyped, MessageData
        <5>2. First(msg_tail[r]) \in msg_tail[r]
              /\ \A d \in msg_tail[r] : First(msg_tail[r]).idx <= d.idx
          BY <4>2, <5>1, FirstOf
        <5>3. PICK a \in Nat : a = First(msg_tail[r]).idx
          BY <5>1, <5>2
        <5>4. next_index[r] \in Nat
          BY <2>1 DEF WellTyped
        <5>5. \A d \in msg_tail[r] : d.idx \in Nat /\ a <= d.idx /\ d.idx < a + TailSize
          BY <3>1, <5>1, <5>2, <5>3, <5>4, CertifierAssumption DEF Served
        <5>6. Distinct(msg_tail[r])
          BY <3>1 DEF Served, Distinct
        <5> QED BY <5>5, <5>6, WindowCount
      <4> QED BY <4>1, <4>2
    <3>3. Cardinality(sorted_computed_shares[r]) <= TailSize
      <4> DEFINE S == sorted_computed_shares[r]
      <4>1. CASE S = {}
        BY <4>1, FS_EmptySet, CertifierAssumption
      <4>2. CASE S # {}
        <5>1. \A e \in S : e.idx \in Nat
          BY <2>1 DEF WellTyped
        <5>2. First(S) \in S /\ \A e \in S : First(S).idx <= e.idx
          BY <4>2, <5>1, FirstOf
        <5>3. PICK a \in Nat : a = First(S).idx
          BY <5>1, <5>2
        <5>4. \A e \in S : e.idx \in Nat /\ a <= e.idx /\ e.idx < a + TailSize
          BY <3>1, <5>1, <5>2, <5>3 DEF Pipeline, Places
        <5>5. Distinct(S)
          BY <3>1 DEF Pipeline, Places, Distinct
        <5> HIDE DEF S
        <5>6. Cardinality(S) <= TailSize
          BY <5>4, <5>5, WindowCount
        <5> QED BY <5>6 DEF S
      <4> QED BY <4>1, <4>2
    <3> QED BY <3>1, <3>2, <3>3 DEF Pipeline, PipelineBounds
  <2>3. ASSUME NEW r \in Replica, NEW s \in Replica
        PROVE  /\ Cardinality(buffered_promises[r][s]) <= TailSize
               /\ Cardinality(buffered_shares[r][s]) <= TailSize
               /\ Cardinality(check_tasks[r][s]) <= TailSize
    BY <2>1 DEF Flow, FlowAt, PromisesAt, SharesAt, PromisesFrom, SharesFrom
  <2> QED BY <2>2, <2>3 DEF TailBounded
<1> QED BY <1>1, InvHolds, PTL

(* A certifier stops only when it verified a share against another message: *)
(* two replicas did acknowledge different messages at an index.  No order   *)
(* of polls makes it see a promise or a share twice, or out of order.       *)
THEOREM AccusationsAreReal == Spec => []AlarmsAreReal
<1>1. Inv => AlarmsAreReal
  BY DEF Inv, Flow, FlowAt, Alarm, AlarmsAreReal
<1> QED BY <1>1, InvHolds, PTL

(* acknowledge always finds a free buffer of the pool: what the queues, the *)
(* threads and the sorted shares hold together stays within its size.       *)
THEOREM BuffersAreEnough == Spec => BuffersSuffice
<1> DEFINE Suffice == \A r \in Replica : next_index'[r] # next_index[r] =>
              TakenBuffers(r, queued_share_computations'[r], computed_shares'[r])
                 <= PoolSize
<1>1. Inv /\ [Next]_vars => [Suffice]_vars
  <2>1. SUFFICES ASSUME Inv, NEW p \in Replica, Step(p), NEW r \in Replica,
                        next_index'[r] # next_index[r]
                 PROVE  TakenBuffers(r, queued_share_computations'[r],
                                     computed_shares'[r]) <= PoolSize
    BY DEF Next
  <2>2. \A q \in Replica : q # p => next_index'[q] = next_index[q]
    BY <2>1, OthersUntouched DEF Inv, Untouched
  <2>3. p = r
    BY <2>1, <2>2
  <2>4. PICK i \in 0 .. MaxIndex - 1, m \in Message : Acknowledge(r, i, m)
    BY <2>1, <2>3 DEF Step, ForgetMessages, ToggleSlowPath, PollPromise, StartCheck,
       OffloadShareComputation, StartComputation, FinishComputation, PollShares,
       PollComputedShares, PollVerifiedShare, PollCertificate, PollPromises,
       pathVars, tailVars, promiseVars
  <2>5. i \in Nat /\ Pipeline(r)
    BY <2>1, CertifierAssumption DEF Inv, Flow, FlowAt
  <2> QED BY <2>1, <2>4, <2>5, AcknowledgePipeline DEF Inv
<1> QED BY <1>1, InvHolds, PTL DEF Spec, BuffersSuffice

(* Every promise that reached a replica is counted for the message it       *)
(* serves, unless TailSize later ones were sent: buffering, skipping,       *)
(* forgetting and acknowledging lose none.                                  *)
THEOREM PromisesAreKept == Spec => []PromisesKept
<1>1. Inv => PromisesKept
  <2>1. SUFFICES ASSUME Inv, NEW r \in Replica, NEW s \in Replica, NEW d \in msg_tail[r],
                        d.idx \in promises[s], r # s, Ok(r)
                 PROVE  \/ s \in d.promised
                        \/ d.idx >= polled_promises[r][s]
                        \/ Lagging(promises[s], d.idx)
    BY DEF PromisesKept
  <2>2. PromisesHeld(r, s) /\ Served(r)
    BY <2>1 DEF Inv, Flow, FlowAt, PromisesAt
  <2>3. /\ d.idx \in Nat /\ polled_promises[r][s] \in Nat /\ next_index[r] \in Nat
        /\ d.idx < next_index[r]
    BY <2>1, <2>2 DEF Inv, WellTyped, MessageData, Served
  <2> QED BY <2>1, <2>2, <2>3 DEF PromisesHeld
<1> QED BY <1>1, InvHolds, PTL

(* Likewise every share that reached a replica is counted for the message   *)
(* it serves or still under verification, unless the tail left it behind.   *)
THEOREM SharesAreKept == Spec => []SharesKept
<1>1. Inv => SharesKept
  <2>1. SUFFICES ASSUME Inv, NEW r \in Replica, NEW s \in Replica, NEW d \in msg_tail[r],
                        d.idx \in Indices(shares[s]), r # s, Ok(r)
                 PROVE  \/ s \in d.shares
                        \/ d.idx >= polled_shares[r][s]
                        \/ UnderCheck(r, s, d.idx)
                        \/ Lagging(Indices(shares[s]), d.idx)
    BY DEF SharesKept, UnderCheck
  <2>2. SharesHeld(r, s) /\ Served(r)
    BY <2>1 DEF Inv, Flow, FlowAt, SharesAt
  <2>3. /\ d.idx \in Nat /\ polled_shares[r][s] \in Nat /\ next_index[r] \in Nat
        /\ d.idx < next_index[r]
    BY <2>1, <2>2 DEF Inv, WellTyped, MessageData, Served
  <2>4. PICK x \in shares[s] : x.idx = d.idx
    BY <2>1 DEF Indices
  <2> QED BY <2>1, <2>2, <2>3, <2>4 DEF SharesHeld
<1> QED BY <1>1, InvHolds, PTL
=============================================================================
