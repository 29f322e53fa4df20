----------------------------- MODULE ServiceProofs -----------------------------
(***************************************************************************)
(* The properties of MCService that follow from theorems about a component *)
(* for every value of its constants: MCService runs an instance of each    *)
(* component, whose steps and properties are those of the instance that    *)
(* the theorem is about.                                                   *)
(***************************************************************************)
EXTENDS MCService, Sequences, FiniteSetTheorems, TLAPS

BcThm == INSTANCE TailCbProofs WITH
         Receiver <- {r1, r2}, Broadcaster <- caster, Payload <- {v1, v2},
         Garbage <- junk, TailSize <- 1, MaxIndex <- 2, MaxMessages <- 2,
         MaxSignatures <- 1, MaxEchoes <- 1
SmrThm == INSTANCE SmrServerProofs WITH
         Replica <- {s1, s2, s3}, Leader <- s1, Window <- 2, Slack <- 0,
         ClientWindow <- 2, MaxBatch <- 2, log <- batches,
         MaxRequest <- [fast |-> 3, optimistic |-> 3, slow |-> 2],
         CbReplica <- {1, 2, 3}, Active <- {1}, TailSize <- 4, MaxIndex <- 7
RpcThm == INSTANCE RpcProofs WITH
         Server <- {1, 2}, Client <- {1}, Faulty <- {1}, Window <- 2,
         ServerWindow <- 1, Mute <- 3, Paths <- {"fast", "slow", "optimistic"},
         Value <- [fast |-> {1, 2}, slow |-> {1}, optimistic |-> {1}],
         MaxRequest <- [fast |-> 2, slow |-> 2, optimistic |-> 3],
         verifying <- checking
\* RegisterSafe is about one host's register; the constants and variables
\* that the replicated register adds are not part of it.
RegThm == INSTANCE ReplicatedSwmrProofs WITH
         Register <- {1}, Handle <- {1}, WriteCooldown <- 1, WrDepth <- 1,
         MaxIncarnation <- 3, MaxTime <- 7, registers <- subslots,
         outstanding_reads <- fetching,
         Host <- {1}, MaxJob <- 0, Buffers <- 0, incarnation <- 0,
         outstanding_write <- FALSE, finished <- 0, written <- {}, host <- 0,
         job <- 0, next_handle <- 0, result <- 0

-----------------------------------------------------------------------------
(* Consistent broadcast: the instance of the theorem has the same steps. *)

LEMMA BcAssumption == BcThm!Assumption
<1>1. IsFiniteSet({r1}) /\ {r1, r2} = {r1} \cup {r2}
  BY FS_Singleton
<1>2. IsFiniteSet({r1, r2})
  BY <1>1, FS_AddElement
<1>3. BcThm!IsFiniteSet({r1, r2})
  BY <1>2 DEF BcThm!IsFiniteSet, IsFiniteSet
<1>4. /\ caster \notin {r1, r2} /\ BcThm!None \notin {r1, r2, caster, v1, v2}
      /\ junk \notin {v1, v2} /\ BcThm!None # junk
  BY ConstantsAreDistinct DEF BcThm!None
<1> QED BY <1>3, <1>4 DEF BcThm!Assumption

LEMMA SameBcInit == Bc!Init <=> BcThm!Init
BY DEF Bc!Init, BcThm!Init, Bc!None, BcThm!None, Bc!EmptyLink, BcThm!EmptyLink,
       Bc!Others, BcThm!Others, Bc!Empty, BcThm!Empty, Bc!RegisterIndex,
       BcThm!RegisterIndex, Bc!Idle, BcThm!Idle, Bc!Index, BcThm!Index

LEMMA SameBcBroadcast == Bc!Broadcast <=> BcThm!Broadcast
BY DEF Bc!Broadcast, BcThm!Broadcast, Bc!SendOn, BcThm!SendOn, Bc!Message,
       BcThm!Message, Bc!slow, BcThm!slow

LEMMA SameBcSign == \A i : Bc!Sign(i) <=> BcThm!Sign(i)
BY DEF Bc!Sign, BcThm!Sign, Bc!SendOn, BcThm!SendOn, Bc!SignatureMessage,
       BcThm!SignatureMessage, Bc!SentValue, BcThm!SentValue, Bc!slow,
       BcThm!slow

LEMMA SameBcPollMessage == \A r : Bc!PollMessage(r) <=> BcThm!PollMessage(r)
BY SMTT(60)
   DEF Bc!PollMessage, BcThm!PollMessage, Bc!Running, BcThm!Running,
       Bc!Correct, BcThm!Correct, Bc!None, BcThm!None, Bc!Arriving,
       BcThm!Arriving, Bc!Index, BcThm!Index, Bc!Readable, BcThm!Readable,
       Bc!Repeated, BcThm!Repeated, Bc!Kept, BcThm!Kept, Bc!Throw, BcThm!Throw,
       Bc!OutOfOrder, BcThm!OutOfOrder, Bc!Accept, BcThm!Accept, Bc!Others,
       BcThm!Others, Bc!Replays, BcThm!Replays, Bc!Pending, BcThm!Pending,
       Bc!Min, BcThm!Min, Bc!NewData, BcThm!NewData, Bc!Put, BcThm!Put,
       Bc!Cardinality, BcThm!Cardinality, Bc!Drop, BcThm!Drop, Bc!SendOn,
       BcThm!SendOn, Bc!slow, BcThm!slow

LEMMA SameBcHandleEcho ==
  \A r, q, e : Bc!handleEcho(r, q, e) <=> BcThm!handleEcho(r, q, e)
BY DEF Bc!handleEcho, BcThm!handleEcho, Bc!Useless, BcThm!Useless, Bc!Kept,
       BcThm!Kept, Bc!Throw, BcThm!Throw, Bc!echoed, BcThm!echoed, Bc!Last,
       BcThm!Last

LEMMA SameBcPollEcho == \A r, q : Bc!PollEcho(r, q) => BcThm!PollEcho(r, q)
<1> SUFFICES ASSUME NEW r, NEW q, Bc!PollEcho(r, q) PROVE BcThm!PollEcho(r, q)
  OBVIOUS
<1> DEFINE S == Bc!Arriving(echoes[r][q], q, {v1, v2} \cup {junk}, 1)
<1>1. PICK a \in S : /\ echoes' = [echoes EXCEPT ![r][q].seen = a.at]
                     /\ Bc!handleEcho(r, q, a.msg)
  BY DEF Bc!PollEcho
<1>2. BcThm!handleEcho(r, q, a.msg)
  BY <1>1, SameBcHandleEcho
<1>3. S = BcThm!Arriving(echoes[r][q], q, {v1, v2} \cup {junk}, 1)
  BY DEF Bc!Arriving, BcThm!Arriving, Bc!Readable, BcThm!Readable, Bc!Index,
         BcThm!Index
<1>4. /\ Bc!Running(r) /\ Bc!Kept(r) # {}
      /\ UNCHANGED <<faulty, next_index, to_sign, messages, signatures,
                     latest_polled, verifying, registers, outstanding_writes,
                     outstanding_reads, discarded, delivered>>
  BY DEF Bc!PollEcho, Bc!slow
<1>5. BcThm!Running(r) /\ BcThm!Kept(r) # {}
  BY <1>4 DEF Bc!Running, BcThm!Running, Bc!Correct, BcThm!Correct, Bc!None,
              BcThm!None, Bc!Kept, BcThm!Kept
<1> QED BY <1>1, <1>2, <1>3, <1>4, <1>5 DEF BcThm!PollEcho, BcThm!slow

LEMMA SameBcPollSignature ==
  \A r : Bc!PollSignature(r) <=> BcThm!PollSignature(r)
BY DEF Bc!PollSignature, BcThm!PollSignature, Bc!Running, BcThm!Running,
       Bc!Correct, BcThm!Correct, Bc!None, BcThm!None, Bc!Kept, BcThm!Kept,
       Bc!Arriving, BcThm!Arriving, Bc!Index, BcThm!Index, Bc!Readable,
       BcThm!Readable, Bc!handleSignature, BcThm!handleSignature, Bc!Throw,
       BcThm!Throw

LEMMA SameBcPollVerification ==
  \A r : Bc!PollVerification(r) <=> BcThm!PollVerification(r)
BY DEF Bc!PollVerification, BcThm!PollVerification, Bc!Running, BcThm!Running,
       Bc!Correct, BcThm!Correct, Bc!None, BcThm!None, Bc!Kept, BcThm!Kept,
       Bc!WriteRegister, BcThm!WriteRegister, Bc!Idle, BcThm!Idle,
       Bc!Incarnation, BcThm!Incarnation, Bc!Last, BcThm!Last, Bc!Throw,
       BcThm!Throw, Bc!links, BcThm!links

LEMMA SameBcPollWrite == \A r, s : Bc!PollWrite(r, s) <=> BcThm!PollWrite(r, s)
BY DEF Bc!PollWrite, BcThm!PollWrite, Bc!Running, BcThm!Running, Bc!Correct,
       BcThm!Correct, Bc!None, BcThm!None, Bc!Kept, BcThm!Kept, Bc!Idle,
       BcThm!Idle, Bc!Others, BcThm!Others, Bc!Put, BcThm!Put, Bc!links,
       BcThm!links

LEMMA SameBcPollReads == \A r, i : Bc!PollReads(r, i) <=> BcThm!PollReads(r, i)
BY DEF Bc!PollReads, BcThm!PollReads, Bc!Running, BcThm!Running, Bc!Correct,
       BcThm!Correct, Bc!None, BcThm!None, Bc!Kept, BcThm!Kept, Bc!Others,
       BcThm!Others, Bc!Results, BcThm!Results, Bc!Replayed, BcThm!Replayed,
       Bc!Incarnation, BcThm!Incarnation, Bc!Safe, BcThm!Safe, Bc!Throw, BcThm!Throw,
       Bc!Cardinality, BcThm!Cardinality, Bc!Drop, BcThm!Drop, Bc!links,
       BcThm!links

LEMMA SameBcPoll == \A r : Bc!Poll(r) <=> BcThm!Poll(r)
BY DEF Bc!Poll, BcThm!Poll, Bc!Running, BcThm!Running, Bc!Correct,
       BcThm!Correct, Bc!None, BcThm!None, Bc!Kept, BcThm!Kept, Bc!Min,
       BcThm!Min, Bc!pollable, BcThm!pollable, Bc!Others, BcThm!Others,
       Bc!Cardinality, BcThm!Cardinality, Bc!Drop, BcThm!Drop, Bc!links,
       BcThm!links, Bc!slow, BcThm!slow

LEMMA SameAlarmsAreReal == Bc!AlarmsAreReal <=> BcThm!AlarmsAreReal
BY DEF Bc!AlarmsAreReal, BcThm!AlarmsAreReal, Bc!Correct, BcThm!Correct,
       Bc!None, BcThm!None

LEMMA BcInit == Init => BcThm!Init
BY SameBcInit DEF Init

LEMMA BcNext == [Next]_vars => [BcThm!Next]_(BcThm!vars)
<1>1. BcThm!vars = Bc!vars /\ BcThm!vars' = Bc!vars'
  BY DEF Bc!vars, BcThm!vars, Bc!links, BcThm!links, Bc!slow, BcThm!slow
<1>2. ASSUME [Next]_vars, ~Bc!Next PROVE UNCHANGED Bc!vars
  BY <1>2 DEF Next, vars, broadcast_vars, Bc!vars, Bc!links, Bc!slow
<1>3. ASSUME Bc!Next PROVE BcThm!Next
  <2>1. CASE Bc!Broadcast
    BY <2>1, SameBcBroadcast DEF BcThm!Next
  <2>2. CASE \E i \in Bc!Index : Bc!Sign(i)
    BY <2>2, SameBcSign DEF BcThm!Next, Bc!Index, BcThm!Index
  <2>3. ASSUME NEW r \in {r1, r2},
               \/ Bc!PollMessage(r) \/ Bc!PollSignature(r)
               \/ Bc!PollVerification(r) \/ Bc!Poll(r)
        PROVE  BcThm!Next
    BY <2>3, SameBcPollMessage, SameBcPollSignature, SameBcPollVerification,
       SameBcPoll DEF BcThm!Next
  <2>4. ASSUME NEW r \in {r1, r2}, NEW q \in Bc!Others(r), Bc!PollEcho(r, q)
        PROVE  BcThm!Next
    BY <2>4, SameBcPollEcho DEF BcThm!Next, Bc!Others, BcThm!Others
  <2>5. ASSUME NEW r \in {r1, r2}, NEW s \in Bc!RegisterIndex,
               Bc!PollWrite(r, s)
        PROVE  BcThm!Next
    BY <2>5, SameBcPollWrite
       DEF BcThm!Next, Bc!RegisterIndex, BcThm!RegisterIndex
  <2>6. ASSUME NEW r \in {r1, r2}, NEW i \in Bc!Index, Bc!PollReads(r, i)
        PROVE  BcThm!Next
    BY <2>6, SameBcPollReads DEF BcThm!Next, Bc!Index, BcThm!Index
  <2> QED BY <1>3, <2>1, <2>2, <2>3, <2>4, <2>5, <2>6 DEF Bc!Next
<1> QED BY <1>1, <1>2, <1>3

(* Correct receivers of tail_cb never poll different values under one index *)
(* (poll of tail-cb/receiver.hpp), one by echoes and one by registers, and  *)
(* poll increasing indices, whoever is faulty.                              *)
THEOREM BroadcastIsAlwaysConsistent == Spec => BroadcastIsConsistent
<1>1. BcThm!Spec => BcThm!ImplementsBroadcast
  BY BcAssumption, BcThm!BroadcastIsConsistent
<1>2. BcThm!Cb!Init => Bc!Cb!Init
  BY DEF BcThm!Cb!Init, Bc!Cb!Init, Bc!Index, BcThm!Index, Bc!Delivered,
         BcThm!Delivered, Bc!Correct, BcThm!Correct, Bc!None, BcThm!None
<1>3. [BcThm!Cb!Next]_<<[i \in BcThm!Index |-> BcThm!Delivered(i)], latest_polled>>
       => [Bc!Cb!Next]_<<[i \in Bc!Index |-> Bc!Delivered(i)], latest_polled>>
  BY DEF BcThm!Cb!Next, Bc!Cb!Next, BcThm!Cb!Deliver, Bc!Cb!Deliver, Bc!Index,
         BcThm!Index, Bc!Delivered, BcThm!Delivered, Bc!Correct, BcThm!Correct,
         Bc!None, BcThm!None
<1> QED BY <1>1, <1>2, <1>3, BcInit, BcNext, PTL
        DEF Spec, BcThm!Spec, BroadcastIsConsistent, Bc!ImplementsBroadcast,
            BcThm!ImplementsBroadcast, BcThm!Cb!Spec, Bc!Cb!Spec

(* A receiver of tail_cb that throws because of another process is right.   *)
THEOREM AlarmsAreAlwaysReal == Spec => []AlarmsAreReal
<1>1. BcThm!Spec => []BcThm!AlarmsAreReal
  BY BcAssumption, BcThm!AccusationsAreReal
<1>2. BcThm!AlarmsAreReal => AlarmsAreReal
  BY SameAlarmsAreReal DEF AlarmsAreReal
<1> QED BY <1>1, <1>2, BcInit, BcNext, PTL DEF Spec, BcThm!Spec

-----------------------------------------------------------------------------
(* CB flow control *)

LEMMA CbAssumption == SmrThm!CbAssumption
<1>1. IsFiniteSet({1}) /\ {1, 2} = {1} \cup {2} /\ {1, 2, 3} = {1, 2} \cup {3}
  BY FS_Singleton
<1>2. IsFiniteSet({1, 2})
  BY <1>1, FS_AddElement
<1>3. IsFiniteSet({1, 2, 3})
  BY <1>1, <1>2, FS_AddElement
<1>4. SmrThm!IsFiniteSet({1, 2, 3})
  BY <1>3 DEF SmrThm!IsFiniteSet, IsFiniteSet
<1> QED BY <1>4 DEF SmrThm!CbAssumption

LEMMA SameCbInit == Cb!Init <=> SmrThm!Cb!Init
BY DEF Cb!Init, SmrThm!Cb!Init, Cb!NoCheckpoint, SmrThm!Cb!NoCheckpoint

LEMMA SameCbNext == [Cb!Next]_(Cb!vars) => [SmrThm!Cb!Next]_(SmrThm!Cb!vars)
BY DEF Cb!vars, SmrThm!Cb!vars, Cb!Next, SmrThm!Cb!Next, Cb!Broadcast,
       SmrThm!Cb!Broadcast, Cb!spinning, SmrThm!Cb!spinning, Cb!Handled,
       SmrThm!Cb!Handled, Cb!AtCheckpoint, SmrThm!Cb!AtCheckpoint,
       Cb!PollCertificate, SmrThm!Cb!PollCertificate, Cb!NoCheckpoint,
       SmrThm!Cb!NoCheckpoint, Cb!Cardinality, SmrThm!Cb!Cardinality,
       Cb!Majority, SmrThm!Cb!Majority, Cb!Unlocked, SmrThm!Cb!Unlocked,
       Cb!PollCb, SmrThm!Cb!PollCb, Cb!Oldest, SmrThm!Cb!Oldest, Cb!Kept,
       SmrThm!Cb!Kept, Cb!SendShare, SmrThm!Cb!SendShare, Cb!Helps,
       SmrThm!Cb!Helps

LEMMA SameOutrunIsMinority == Cb!OutrunIsMinority <=> SmrThm!Cb!OutrunIsMinority
BY DEF Cb!OutrunIsMinority, SmrThm!Cb!OutrunIsMinority, Cb!Cardinality,
       SmrThm!Cb!Cardinality, Cb!Majority, SmrThm!Cb!Majority

(* A broadcaster never outruns a majority: waitForCbSlack of consensus.hpp. *)
THEOREM MajorityIsServed == Spec => []OutrunIsMinority
<1>1. SmrThm!Cb!Spec => []SmrThm!Cb!OutrunIsMinority
  BY CbAssumption, SmrThm!MajorityIsNeverOutrun
<1>2. Init => SmrThm!Cb!Init
  BY SameCbInit DEF Init
<1>3. [Next]_vars => [SmrThm!Cb!Next]_(SmrThm!Cb!vars)
  <2>1. ASSUME [Next]_vars, ~Cb!Next PROVE UNCHANGED Cb!vars
    BY <2>1 DEF Next, vars, cb_vars, Cb!vars
  <2> QED BY <2>1, SameCbNext
<1>4. SmrThm!Cb!OutrunIsMinority => OutrunIsMinority
  BY SameOutrunIsMinority DEF OutrunIsMinority
<1> QED BY <1>1, <1>2, <1>3, <1>4, PTL DEF Spec, SmrThm!Cb!Spec

-----------------------------------------------------------------------------
(* The replicated service *)

LEMMA SmrAssumption == SmrThm!Assumption
<1>1. IsFiniteSet({s1}) /\ {s1, s2} = {s1} \cup {s2}
      /\ {s1, s2, s3} = {s1, s2} \cup {s3}
  BY FS_Singleton
<1>2. IsFiniteSet({s1, s2})
  BY <1>1, FS_AddElement
<1>3. IsFiniteSet({s1, s2, s3})
  BY <1>1, <1>2, FS_AddElement
<1>4. SmrThm!IsFiniteSet({s1, s2, s3})
  BY <1>3 DEF SmrThm!IsFiniteSet, IsFiniteSet
<1> QED BY <1>4 DEF SmrThm!Assumption

LEMMA SameSmrInit == Smr!Init <=> SmrThm!Init
BY DEF Smr!Init, SmrThm!Init, Smr!None, SmrThm!None

LEMMA SameSmrClientSends == Smr!ClientSends <=> SmrThm!ClientSends
BY DEF Smr!ClientSends, SmrThm!ClientSends, Smr!Answered, SmrThm!Answered,
       Smr!Cardinality, SmrThm!Cardinality, Smr!Majority, SmrThm!Majority

LEMMA SameSmrRoomFor ==
  \A tail, k : Smr!RoomFor(tail, k) = SmrThm!RoomFor(tail, k)
BY DEF Smr!RoomFor, SmrThm!RoomFor, Smr!Recent, SmrThm!Recent

LEMMA SameSmrAddRequest ==
  \A l, k : Smr!addRequest(l, k) = SmrThm!addRequest(l, k)
BY SameSmrRoomFor DEF Smr!addRequest, SmrThm!addRequest, Smr!None, SmrThm!None

LEMMA SameSmrPollClientRequests ==
  \A r, n : Smr!pollClientRequests(r, n) = SmrThm!pollClientRequests(r, n)
BY SameSmrAddRequest
   DEF Smr!pollClientRequests, SmrThm!pollClientRequests, Smr!NextReceived,
       SmrThm!NextReceived

LEMMA SameSmrTicked ==
  \A r, cert : Smr!Ticked(r, cert) = SmrThm!Ticked(r, cert)
BY DEF Smr!Ticked, SmrThm!Ticked, Smr!WithSlack, SmrThm!WithSlack, Smr!High,
       SmrThm!High, Smr!isValid, SmrThm!isValid, Smr!Contains, SmrThm!Contains

LEMMA SameSmrCertified == Smr!Certified = SmrThm!Certified
BY DEF Smr!Certified, SmrThm!Certified, Smr!Cardinality, SmrThm!Cardinality,
       Smr!Majority, SmrThm!Majority

LEMMA SameSmrPollProposable ==
  \A logs : Smr!pollProposable(logs) = SmrThm!pollProposable(logs)
BY DEF Smr!pollProposable, SmrThm!pollProposable, Smr!Cardinality,
       SmrThm!Cardinality, Smr!Proposable, SmrThm!Proposable, Smr!Batched,
       SmrThm!Batched

LEMMA SameSmrPropose ==
  \A p, low : Smr!Propose(p, low) <=> SmrThm!Propose(p, low)
BY DEF Smr!Propose, SmrThm!Propose

LEMMA SameSmrTick == \A r, n : Smr!Tick(r, n) <=> SmrThm!Tick(r, n)
BY SameSmrPollClientRequests, SameSmrTicked, SameSmrCertified,
   SameSmrPollProposable, SameSmrPropose
   DEF Smr!Tick, SmrThm!Tick

LEMMA SameSmrExecute == \A r : Smr!Execute(r) <=> SmrThm!Execute(r)
BY DEF Smr!Execute, SmrThm!Execute, Smr!Decidable, SmrThm!Decidable,
       Smr!NextDecision, SmrThm!NextDecision, Smr!Cardinality,
       SmrThm!Cardinality, Smr!Validators, SmrThm!Validators, Smr!Majority,
       SmrThm!Majority, Smr!KnowsClient, SmrThm!KnowsClient, Smr!Last,
       SmrThm!Last, Smr!should_checkpoint, SmrThm!should_checkpoint

LEMMA SameExecutesTheLog == Smr!ExecutesTheLog <=> SmrThm!ExecutesTheLog
BY DEF Smr!ExecutesTheLog, SmrThm!ExecutesTheLog, Smr!FlattenSeq,
       SmrThm!FlattenSeq, Smr!IsPrefix, SmrThm!IsPrefix

LEMMA SmrInit == Init => SmrThm!Init
BY SameSmrInit DEF Init

LEMMA SmrNext == [Next]_vars => [SmrThm!Next]_(SmrThm!vars)
<1>1. SmrThm!vars = Smr!vars /\ SmrThm!vars' = Smr!vars'
  BY DEF Smr!vars, SmrThm!vars
<1>2. ASSUME [Next]_vars, ~Smr!Next PROVE UNCHANGED Smr!vars
  BY <1>2 DEF Next, vars, smr_vars, Smr!vars
<1>3. ASSUME Smr!Next PROVE SmrThm!Next
  BY <1>3, SameSmrClientSends, SameSmrTick, SameSmrExecute
     DEF Smr!Next, SmrThm!Next
<1> QED BY <1>1, <1>2, <1>3

(* The service executes the client's requests in order, once and without   *)
(* gaps (Server::tick, Consensus::propose and pollDecision).               *)
THEOREM LogIsAlwaysExecuted == Spec => []ExecutesTheLog
<1>1. SmrThm!Spec => []SmrThm!ExecutesTheLog
  BY SmrAssumption, SmrThm!LogIsExecuted
<1>2. SmrThm!ExecutesTheLog => ExecutesTheLog
  BY SameExecutesTheLog DEF ExecutesTheLog
<1> QED BY <1>1, <1>2, SmrInit, SmrNext, PTL DEF Spec, SmrThm!Spec

(* RequestLog forgets a request only after its client was answered.        *)
THEOREM OnlyAnsweredAreEverDropped == Spec => DropsOnlyAnswered
<1> DEFINE Thm == \A r \in {s1, s2, s3} : \A k \in 1..sent :
                    (SmrThm!Contains(requests[r].tail, k)
                      /\ ~SmrThm!Contains(requests'[r].tail, k))
                      => SmrThm!Answered(k)
           Mine == \A r \in {s1, s2, s3} : \A k \in 1..sent :
                    (Smr!Contains(requests[r].tail, k)
                      /\ ~Smr!Contains(requests'[r].tail, k))
                      => Smr!Answered(k)
<1>1. SmrThm!Spec => [][Thm]_(SmrThm!vars)
  BY SmrAssumption, SmrThm!OnlyAnsweredAreDropped DEF SmrThm!DropsOnlyAnswered
<1>2. [Thm]_(SmrThm!vars) => [Mine]_(Smr!vars)
  BY DEF Smr!vars, SmrThm!vars, Smr!Contains, SmrThm!Contains, Smr!Answered,
         SmrThm!Answered, Smr!Cardinality, SmrThm!Cardinality, Smr!Majority,
         SmrThm!Majority
<1> HIDE DEF Thm, Mine
<1>3. Spec => [][Mine]_(Smr!vars)
  BY <1>1, <1>2, SmrInit, SmrNext, PTL DEF Spec, SmrThm!Spec
<1> QED BY <1>3 DEF DropsOnlyAnswered, Smr!DropsOnlyAnswered, Mine

-----------------------------------------------------------------------------
(* The RPC layer *)

LEMMA RpcAssumption == RpcThm!Assumption
<1>1. IsFiniteSet({1}) /\ {1, 2} = {1} \cup {2}
  BY FS_Singleton
<1>2. IsFiniteSet({1, 2})
  BY <1>1, FS_AddElement
<1>3. RpcThm!IsFiniteSet({1, 2})
  BY <1>2 DEF RpcThm!IsFiniteSet, IsFiniteSet
<1> QED BY <1>3 DEF RpcThm!Assumption

LEMMA SameRpcInit == Rpcs!Init <=> RpcThm!Init
BY DEF Rpcs!Init, RpcThm!Init, Rpcs!ClientInit, RpcThm!ClientInit,
       Rpcs!NoRequests, RpcThm!NoRequests, Rpcs!NewClient, RpcThm!NewClient,
       Rpcs!Source, RpcThm!Source

LEMMA SameRpcPost == \A c : Rpcs!Post(c) <=> RpcThm!Post(c)
BY DEF Rpcs!Post, RpcThm!Post, Rpcs!WithKey, RpcThm!WithKey, Rpcs!Near,
       RpcThm!Near, Rpcs!Requests, RpcThm!Requests, Rpcs!Req, RpcThm!Req,
       Rpcs!Send, RpcThm!Send, Rpcs!Transmit, RpcThm!Transmit, Rpcs!link_vars,
       RpcThm!link_vars, Rpcs!verify_vars, RpcThm!verify_vars, Rpcs!smr_vars,
       RpcThm!smr_vars

LEMMA SameRpcSign == \A c : Rpcs!Sign(c) <=> RpcThm!Sign(c)
BY DEF Rpcs!Sign, RpcThm!Sign, Rpcs!Transmit, RpcThm!Transmit, Rpcs!Send,
       RpcThm!Send, Rpcs!Without, RpcThm!Without, Rpcs!link_vars,
       RpcThm!link_vars, Rpcs!verify_vars, RpcThm!verify_vars, Rpcs!smr_vars,
       RpcThm!smr_vars

LEMMA SameRpcPollAnswer == \A c : Rpcs!PollAnswer(c) <=> RpcThm!PollAnswer(c)
BY DEF Rpcs!PollAnswer, RpcThm!PollAnswer, Rpcs!Enough, RpcThm!Enough,
       Rpcs!Quorum, RpcThm!Quorum, Rpcs!Cardinality, RpcThm!Cardinality,
       Rpcs!Identical, RpcThm!Identical, Rpcs!Response, RpcThm!Response,
       Rpcs!link_vars, RpcThm!link_vars, Rpcs!verify_vars, RpcThm!verify_vars,
       Rpcs!smr_vars, RpcThm!smr_vars

LEMMA SameRpcPollProposable ==
  \A c : Rpcs!PollProposable(c) <=> RpcThm!PollProposable(c)
BY DEF Rpcs!PollProposable, RpcThm!PollProposable, Rpcs!Leader, RpcThm!Leader,
       Rpcs!Jump, RpcThm!Jump, Rpcs!Proposable, RpcThm!Proposable,
       Rpcs!Follower, RpcThm!Follower, Rpcs!Propose, RpcThm!Propose, Rpcs!Req,
       RpcThm!Req, Rpcs!Cardinality, RpcThm!Cardinality, Rpcs!client_vars,
       RpcThm!client_vars, Rpcs!link_vars, RpcThm!link_vars, Rpcs!verify_vars,
       RpcThm!verify_vars

LEMMA SameRpcPollResponse ==
  \A c, s : Rpcs!PollResponse(c, s) <=> RpcThm!PollResponse(c, s)
BY DEF Rpcs!PollResponse, RpcThm!PollResponse, Rpcs!link_vars,
       RpcThm!link_vars, Rpcs!verify_vars, RpcThm!verify_vars, Rpcs!smr_vars,
       RpcThm!smr_vars

LEMMA SameRpcPollReceived ==
  \A s, c : Rpcs!PollReceived(s, c) <=> RpcThm!PollReceived(s, c)
BY DEF Rpcs!PollReceived, RpcThm!PollReceived, Rpcs!Jump, RpcThm!Jump,
       Rpcs!Req, RpcThm!Req, Rpcs!client_vars, RpcThm!client_vars,
       Rpcs!link_vars, RpcThm!link_vars, Rpcs!verify_vars, RpcThm!verify_vars

LEMMA SameRpcPollClientRequest ==
  \A s, c : Rpcs!PollClientRequest(s, c) <=> RpcThm!PollClientRequest(s, c)
BY DEF Rpcs!PollClientRequest, RpcThm!PollClientRequest, Rpcs!Inserted,
       RpcThm!Inserted, Rpcs!Entry, RpcThm!Entry, Rpcs!Follower,
       RpcThm!Follower, Rpcs!Leader, RpcThm!Leader, Rpcs!Replayed,
       RpcThm!Replayed, Rpcs!FirstRecent, RpcThm!FirstRecent, Rpcs!Echoed,
       RpcThm!Echoed, Rpcs!WithKey, RpcThm!WithKey, Rpcs!Near, RpcThm!Near,
       Rpcs!client_vars, RpcThm!client_vars, Rpcs!link_vars, RpcThm!link_vars,
       Rpcs!verify_vars, RpcThm!verify_vars, Rpcs!smr_vars, RpcThm!smr_vars

LEMMA SameRpcPollClientSignedRequest ==
  \A s, c : Rpcs!PollClientSignedRequest(s, c) <=> RpcThm!PollClientSignedRequest(s, c)
BY DEF Rpcs!PollClientSignedRequest, RpcThm!PollClientSignedRequest,
       Rpcs!Offload, RpcThm!Offload, Rpcs!Unsigned, RpcThm!Unsigned, Rpcs!Send,
       RpcThm!Send, Rpcs!client_vars, RpcThm!client_vars, Rpcs!link_vars,
       RpcThm!link_vars, Rpcs!smr_vars, RpcThm!smr_vars

LEMMA SameRpcVerify == \A s, c : Rpcs!Verify(s, c) <=> RpcThm!Verify(s, c)
BY DEF Rpcs!Verify, RpcThm!Verify, Rpcs!Source, RpcThm!Source, Rpcs!Without,
       RpcThm!Without, Rpcs!client_vars, RpcThm!client_vars, Rpcs!link_vars,
       RpcThm!link_vars, Rpcs!smr_vars, RpcThm!smr_vars

LEMMA SameRpcPollVerifiedSignature ==
  \A s, c : Rpcs!PollVerifiedSignature(s, c) <=> RpcThm!PollVerifiedSignature(s, c)
BY DEF Rpcs!PollVerifiedSignature, RpcThm!PollVerifiedSignature, Rpcs!WithKey,
       RpcThm!WithKey, Rpcs!Near, RpcThm!Near, Rpcs!Entry, RpcThm!Entry,
       Rpcs!client_vars, RpcThm!client_vars, Rpcs!link_vars, RpcThm!link_vars,
       Rpcs!smr_vars, RpcThm!smr_vars

LEMMA SameRpcEchoToLeader ==
  \A s, c : Rpcs!echoToLeader(s, c) <=> RpcThm!echoToLeader(s, c)
BY DEF Rpcs!echoToLeader, RpcThm!echoToLeader, Rpcs!Follower, RpcThm!Follower,
       Rpcs!Leader, RpcThm!Leader, Rpcs!Relay, RpcThm!Relay, Rpcs!Jump,
       RpcThm!Jump, Rpcs!pollToEcho, RpcThm!pollToEcho, Rpcs!pollToForward,
       RpcThm!pollToForward, Rpcs!Send, RpcThm!Send, Rpcs!Req, RpcThm!Req,
       Rpcs!client_vars, RpcThm!client_vars, Rpcs!verify_vars,
       RpcThm!verify_vars, Rpcs!smr_vars, RpcThm!smr_vars

LEMMA SameRpcEchoToFollower ==
  \A t, c : Rpcs!echoToFollower(t, c) <=> RpcThm!echoToFollower(t, c)
BY DEF Rpcs!echoToFollower, RpcThm!echoToFollower, Rpcs!Follower,
       RpcThm!Follower, Rpcs!Leader, RpcThm!Leader, Rpcs!Relay, RpcThm!Relay,
       Rpcs!Jump, RpcThm!Jump, Rpcs!pollToEcho, RpcThm!pollToEcho,
       Rpcs!pollToForward, RpcThm!pollToForward, Rpcs!Send, RpcThm!Send,
       Rpcs!Req, RpcThm!Req, Rpcs!client_vars, RpcThm!client_vars,
       Rpcs!verify_vars, RpcThm!verify_vars, Rpcs!smr_vars, RpcThm!smr_vars

LEMMA SameRpcPollAck == \A s, t : Rpcs!PollAck(s, t) <=> RpcThm!PollAck(s, t)
BY DEF Rpcs!PollAck, RpcThm!PollAck, Rpcs!client_vars, RpcThm!client_vars,
       Rpcs!verify_vars, RpcThm!verify_vars, Rpcs!smr_vars, RpcThm!smr_vars

LEMMA SameRpcExecute == \A s : Rpcs!Execute(s) <=> RpcThm!Execute(s)
BY DEF Rpcs!Execute, RpcThm!Execute, Rpcs!Send, RpcThm!Send, Rpcs!Response,
       RpcThm!Response, Rpcs!client_vars, RpcThm!client_vars, Rpcs!link_vars,
       RpcThm!link_vars, Rpcs!verify_vars, RpcThm!verify_vars

LEMMA SameRpcPollFollowerEchoes ==
  \A s : Rpcs!pollFollowerEchoes(s) <=> RpcThm!pollFollowerEchoes(s)
BY DEF Rpcs!pollFollowerEchoes, RpcThm!pollFollowerEchoes, Rpcs!MaxPolls,
       RpcThm!MaxPolls, Rpcs!Taken, RpcThm!Taken, Rpcs!Send, RpcThm!Send,
       Rpcs!Acked, RpcThm!Acked, Rpcs!client_vars, RpcThm!client_vars,
       Rpcs!smr_vars, RpcThm!smr_vars, Rpcs!Leader, RpcThm!Leader, Rpcs!Echoes,
       RpcThm!Echoes, Rpcs!EchoReceived, RpcThm!EchoReceived, Rpcs!Echoed,
       RpcThm!Echoed

LEMMA SameRpcPollLeaderSignedEchoes ==
  \A t : Rpcs!pollLeaderSignedEchoes(t) <=> RpcThm!pollLeaderSignedEchoes(t)
BY DEF Rpcs!pollLeaderSignedEchoes, RpcThm!pollLeaderSignedEchoes,
       Rpcs!MaxPolls, RpcThm!MaxPolls, Rpcs!Taken, RpcThm!Taken, Rpcs!Send,
       RpcThm!Send, Rpcs!Acked, RpcThm!Acked, Rpcs!client_vars,
       RpcThm!client_vars, Rpcs!smr_vars, RpcThm!smr_vars, Rpcs!Leader,
       RpcThm!Leader, Rpcs!Offloads, RpcThm!Offloads, Rpcs!Offload,
       RpcThm!Offload, Rpcs!Unsigned, RpcThm!Unsigned

LEMMA SameCreditsBalance == Rpcs!CreditsBalance <=> RpcThm!CreditsBalance
BY DEF Rpcs!CreditsBalance, RpcThm!CreditsBalance, Rpcs!SumOf, RpcThm!SumOf

LEMMA SameProposedIsAcceptedByAll ==
  Rpcs!ProposedIsAcceptedByAll <=> RpcThm!ProposedIsAcceptedByAll
BY DEF Rpcs!ProposedIsAcceptedByAll, RpcThm!ProposedIsAcceptedByAll

LEMMA SameOrderedOnce == Rpcs!OrderedOnce <=> RpcThm!OrderedOnce
BY DEF Rpcs!OrderedOnce, RpcThm!OrderedOnce

LEMMA SameAnswersAreResults ==
  Rpcs!AnswersAreResults <=> RpcThm!AnswersAreResults
BY DEF Rpcs!AnswersAreResults, RpcThm!AnswersAreResults, Rpcs!Cardinality,
       RpcThm!Cardinality, Rpcs!Quorum, RpcThm!Quorum

LEMMA RpcInit == Init => RpcThm!Init
BY SameRpcInit DEF Init

LEMMA RpcNext == [Next]_vars => [RpcThm!Next]_(RpcThm!vars)
<1>1. RpcThm!vars = Rpcs!vars /\ RpcThm!vars' = Rpcs!vars'
  BY DEF Rpcs!vars, RpcThm!vars, Rpcs!client_vars, RpcThm!client_vars,
         Rpcs!link_vars, RpcThm!link_vars, Rpcs!verify_vars,
         RpcThm!verify_vars, Rpcs!smr_vars, RpcThm!smr_vars
<1>2. ASSUME [Next]_vars, ~Rpcs!Next PROVE UNCHANGED Rpcs!vars
  BY <1>2 DEF Next, vars, rpc_vars, Rpcs!vars, Rpcs!client_vars, Rpcs!link_vars,
              Rpcs!verify_vars, Rpcs!smr_vars
<1>3. ASSUME Rpcs!Next PROVE RpcThm!Next
  <2>1. ASSUME NEW c \in {1},
               \/ Rpcs!Post(c) \/ Rpcs!Sign(c)
               \/ Rpcs!PollAnswer(c) \/ Rpcs!PollProposable(c)
        PROVE  RpcThm!Next
    BY <2>1, SameRpcPost, SameRpcSign, SameRpcPollAnswer, SameRpcPollProposable
       DEF RpcThm!Next
  <2>2. ASSUME NEW s \in {1, 2}, NEW c \in {1},
               \/ Rpcs!PollResponse(c, s) \/ Rpcs!PollReceived(s, c)
               \/ Rpcs!PollClientRequest(s, c)
               \/ Rpcs!PollClientSignedRequest(s, c)
               \/ Rpcs!Verify(s, c) \/ Rpcs!PollVerifiedSignature(s, c)
               \/ Rpcs!echoToLeader(s, c) \/ Rpcs!echoToFollower(s, c)
        PROVE  RpcThm!Next
    <3>1. \/ RpcThm!PollResponse(c, s) \/ RpcThm!PollReceived(s, c)
          \/ RpcThm!PollClientRequest(s, c)
          \/ RpcThm!PollClientSignedRequest(s, c)
          \/ RpcThm!Verify(s, c) \/ RpcThm!PollVerifiedSignature(s, c)
          \/ RpcThm!echoToLeader(s, c) \/ RpcThm!echoToFollower(s, c)
      BY <2>2, SameRpcPollResponse, SameRpcPollReceived, SameRpcPollClientRequest,
         SameRpcPollClientSignedRequest, SameRpcVerify,
         SameRpcPollVerifiedSignature, SameRpcEchoToLeader, SameRpcEchoToFollower
    <3> QED BY <3>1 DEF RpcThm!Next
  <2>3. ASSUME NEW s \in {1, 2}, NEW t \in {1, 2}, Rpcs!PollAck(s, t)
        PROVE  RpcThm!Next
    BY <2>3, SameRpcPollAck DEF RpcThm!Next
  <2>4. ASSUME NEW s \in {1, 2},
               \/ Rpcs!Execute(s) \/ Rpcs!pollFollowerEchoes(s)
               \/ Rpcs!pollLeaderSignedEchoes(s)
        PROVE  RpcThm!Next
    BY <2>4, SameRpcExecute, SameRpcPollFollowerEchoes,
       SameRpcPollLeaderSignedEchoes DEF RpcThm!Next
  <2> QED BY <1>3, <2>1, <2>2, <2>3, <2>4 DEF Rpcs!Next
<1> QED BY <1>1, <1>2, <1>3

(* Backpressure between the servers never loses an echo or a forwarded      *)
(* request (outstanding_requests of rpc::Server).                           *)
THEOREM CreditsAlwaysBalance == Spec => []CreditsBalance
<1>1. RpcThm!Spec => []RpcThm!CreditsBalance
  BY RpcAssumption, RpcThm!CreditsAreExact
<1>2. RpcThm!CreditsBalance => CreditsBalance
  BY SameCreditsBalance DEF CreditsBalance
<1> QED BY <1>1, <1>2, RpcInit, RpcNext, PTL DEF Spec, RpcThm!Spec

(* The leader proposes a client's requests in order and once, and on the   *)
(* fast path only what every server accepted (pollProposable of ingress.hpp).*)
THEOREM ProposalsAreAlwaysSound == Spec => []ProposalsAreSound
<1>1. RpcThm!Spec => []RpcThm!ProposedIsAcceptedByAll
  BY RpcAssumption, RpcThm!FastProposalsAreAccepted
<1>2. RpcThm!Spec => []RpcThm!OrderedOnce
  BY RpcAssumption, RpcThm!RequestsAreOrdered
<1>3. RpcThm!ProposedIsAcceptedByAll /\ RpcThm!OrderedOnce => ProposalsAreSound
  BY SameProposedIsAcceptedByAll, SameOrderedOnce DEF ProposalsAreSound
<1> QED BY <1>1, <1>2, <1>3, RpcInit, RpcNext, PTL DEF Spec, RpcThm!Spec

(* A client polls, in order, results that a majority computed (poll of     *)
(* rpc/client.hpp).                                                        *)
THEOREM AnswersAreAlwaysResults == Spec => []AnswersAreResults
<1>1. RpcThm!Spec => []RpcThm!AnswersAreResults
  BY RpcAssumption, RpcThm!ResultsAreAnswered
<1>2. RpcThm!AnswersAreResults => AnswersAreResults
  BY SameAnswersAreResults DEF AnswersAreResults
<1> QED BY <1>1, <1>2, RpcInit, RpcNext, PTL DEF Spec, RpcThm!Spec

-----------------------------------------------------------------------------
(* The register of one host *)

LEMMA RegAssumption == RegThm!RegisterAssumption
BY DEF RegThm!RegisterAssumption

LEMMA SameRegInit == Reg!Init <=> RegThm!Sw!Init
BY DEF Reg!Init, RegThm!Sw!Init, Reg!WriterInit, RegThm!Sw!WriterInit,
       Reg!None, RegThm!Sw!None, Reg!initializeRemoteRegisters,
       RegThm!Sw!initializeRemoteRegisters, Reg!ReaderInit,
       RegThm!Sw!ReaderInit

LEMMA SameRegPushWrites ==
  \A regs, queue, posted :
    Reg!PushWrites(regs, queue, posted) <=> RegThm!Sw!PushWrites(regs, queue, posted)
BY DEF Reg!PushWrites, RegThm!Sw!PushWrites, Reg!None, RegThm!Sw!None,
       Reg!Cooling, RegThm!Sw!Cooling

LEMMA SameRegPushReads ==
  \A queue, reads :
    Reg!PushReads(queue, reads) <=> RegThm!Sw!PushReads(queue, reads)
BY DEF Reg!PushReads, RegThm!Sw!PushReads, Reg!NotYet, RegThm!Sw!NotYet,
       Reg!None, RegThm!Sw!None

LEMMA SameRegClock == Reg!Clock <=> RegThm!Sw!Clock
BY DEF Reg!Clock, RegThm!Sw!Clock, Reg!writer, RegThm!Sw!writer, Reg!reader,
       RegThm!Sw!reader

LEMMA SameRegWrite == \A r, inc : Reg!Write(r, inc) <=> RegThm!Sw!Write(r, inc)
<1> SUFFICES ASSUME NEW r, NEW inc
             PROVE  Reg!Write(r, inc) <=> RegThm!Sw!Write(r, inc)
  OBVIOUS
<1> DEFINE regs == [subslots EXCEPT ![r].scheduled = TRUE,
                                    ![r].incarnation = inc + 2,
                                    ![r].remote_subslot = (@ + 1) % 2]
           queue == Append(queued_writes, r)
<1>1. Reg!PushWrites(regs, queue, posted_writes)
      <=> RegThm!Sw!PushWrites(regs, queue, posted_writes)
  BY SameRegPushWrites
<1> QED BY Zenon, <1>1 DEF Reg!Write, RegThm!Sw!Write, Reg!reader,
                           RegThm!Sw!reader

LEMMA SameRegWriterTick == Reg!WriterTick <=> RegThm!Sw!WriterTick
BY SameRegPushWrites DEF Reg!WriterTick, RegThm!Sw!WriterTick, Reg!Completed,
       RegThm!Sw!Completed, Reg!reader, RegThm!Sw!reader

LEMMA SameRegWriteMemory == Reg!WriteMemory <=> RegThm!Sw!WriteMemory
BY DEF Reg!WriteMemory, RegThm!Sw!WriteMemory, Reg!Damaged, RegThm!Sw!Damaged,
       Reg!reader, RegThm!Sw!reader

LEMMA SameRegRead == \A r : Reg!Read(r) <=> RegThm!Sw!Read(r)
BY SameRegPushReads DEF Reg!Read, RegThm!Sw!Read, Reg!None, RegThm!Sw!None,
       Reg!writer, RegThm!Sw!writer

LEMMA SameRegReadMemory == Reg!ReadMemory <=> RegThm!Sw!ReadMemory
BY DEF Reg!ReadMemory, RegThm!Sw!ReadMemory, Reg!writer, RegThm!Sw!writer

LEMMA SameRegReaderTick == Reg!ReaderTick <=> RegThm!Sw!ReaderTick
BY SameRegPushReads DEF Reg!ReaderTick, RegThm!Sw!ReaderTick, Reg!Best,
       RegThm!Sw!Best, Reg!Damaged, RegThm!Sw!Damaged, Reg!Quick,
       RegThm!Sw!Quick, Reg!writer, RegThm!Sw!writer

LEMMA SameRegRelease == \A h : Reg!Release(h) <=> RegThm!Sw!Release(h)
BY DEF Reg!Release, RegThm!Sw!Release, Reg!None, RegThm!Sw!None, Reg!writer,
       RegThm!Sw!writer

LEMMA SameRegNoFalseAlarm == Reg!NoFalseAlarm <=> RegThm!Sw!NoFalseAlarm
BY DEF Reg!NoFalseAlarm, RegThm!Sw!NoFalseAlarm

LEMMA SameRegQuickReadsAreFresh ==
  Reg!QuickReadsAreFresh <=> RegThm!Sw!QuickReadsAreFresh
BY DEF Reg!QuickReadsAreFresh, RegThm!Sw!QuickReadsAreFresh, Reg!None,
       RegThm!Sw!None

LEMMA RegNext == [Next]_vars => [RegThm!Sw!Next]_(RegThm!Sw!vars)
<1>1. RegThm!Sw!vars = Reg!vars /\ RegThm!Sw!vars' = Reg!vars'
  BY DEF Reg!vars, RegThm!Sw!vars, Reg!writer, RegThm!Sw!writer, Reg!reader,
         RegThm!Sw!reader
<1>2. ASSUME [Next]_vars, ~Reg!Next PROVE UNCHANGED Reg!vars
  BY <1>2 DEF Next, vars, register_vars, Reg!vars, Reg!writer, Reg!reader
<1>3. ASSUME Reg!Next PROVE RegThm!Sw!Next
  BY <1>3, SameRegClock, SameRegWrite, SameRegWriterTick, SameRegWriteMemory,
     SameRegRead, SameRegReadMemory, SameRegReaderTick, SameRegRelease
     DEF Reg!Next, RegThm!Sw!Next
<1> QED BY <1>1, <1>2, <1>3

(* The reader never declares a correct writer Byzantine, and misses no     *)
(* completed write within the cooldown (pollCompletion of swmr/reader.hpp). *)
THEOREM RegisterIsAlwaysSafe == Spec => []RegisterIsSafe
<1>1. RegThm!Sw!Spec => [](RegThm!Sw!NoFalseAlarm /\ RegThm!Sw!QuickReadsAreFresh)
  BY RegAssumption, RegThm!RegisterSafe
<1>2. RegThm!Sw!NoFalseAlarm /\ RegThm!Sw!QuickReadsAreFresh => RegisterIsSafe
  BY SameRegNoFalseAlarm, SameRegQuickReadsAreFresh DEF RegisterIsSafe
<1>3. Init => RegThm!Sw!Init
  BY SameRegInit DEF Init
<1> QED BY <1>1, <1>2, <1>3, RegNext, PTL DEF Spec, RegThm!Sw!Spec
===============================================================================
