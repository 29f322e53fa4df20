--------------------------- MODULE ConsensusProofs ---------------------------
(***************************************************************************)
(* Two invariants of Consensus for every value of its constants:           *)
(*   TypeCorrect: the type invariant;                                      *)
(*   FastCommitsAreSealed: fast commits survive in what a replica seals;   *)
(* and the lemmas about numbers, sequences and records that the proofs of  *)
(* the other invariants start from too.                                    *)
(***************************************************************************)
EXTENDS Consensus, TLAPS, WellFoundedInduction, SequenceTheorems

-----------------------------------------------------------------------------
(* Numbers and sequences *)

(* A set of naturals has a smallest element. *)
LEMMA NatMin ==
    ASSUME NEW S \in SUBSET Nat, S # {}
    PROVE  \E n \in S : \A m \in S : n <= m
<1> DEFINE R == {x \in Nat \X Nat : x[1] < x[2]}
<1>1. IsWellFoundedOn(R, Nat)
  BY NatLessThanWellFounded DEF OpToRel
<1>2. PICK n \in S : \A m \in S : <<m, n>> \notin R
  <2> HIDE DEF R
  <2> QED BY <1>1, WFMin
<1>3. ASSUME NEW m \in S PROVE n <= m
  <2>1. ~(m < n)
    BY <1>2
  <2> QED BY <2>1
<1> QED BY <1>3

(* A bounded set of naturals has a largest element. *)
LEMMA NatMax ==
    ASSUME NEW S \in SUBSET Nat, S # {}, NEW b \in Nat, \A n \in S : n <= b
    PROVE  \E n \in S : \A m \in S : m <= n
<1> DEFINE T == {b - n : n \in S}
<1>1. T \in SUBSET Nat /\ T # {}
  <2>1. \A n \in S : b - n \in Nat
    OBVIOUS
  <2> QED BY <2>1
<1>2. PICK t \in T : \A u \in T : t <= u
  <2> HIDE DEF T
  <2> QED BY <1>1, NatMin
<1>3. PICK n \in S : t = b - n
  OBVIOUS
<1>4. ASSUME NEW m \in S PROVE m <= n
  <2>1. b - m \in T
    OBVIOUS
  <2> QED BY <2>1, <1>2, <1>3
<1> QED BY <1>4

(* Every element of a sequence built with Append was there or is the new one. *)
LEMMA AppendElements ==
    ASSUME NEW S, NEW q \in Seq(S), NEW e \in S
    PROVE  /\ Append(q, e) \in Seq(S)
           /\ Len(Append(q, e)) = Len(q) + 1
           /\ \A k \in 1 .. Len(q) : Append(q, e)[k] = q[k]
           /\ Append(q, e)[Len(q) + 1] = e
OBVIOUS

(* Indices in the certifier are naturals, ordered by view. *)
LEMMA IndexType ==
    ASSUME NEW p \in Proposal
    PROVE  /\ Index(p) \in Nat
           /\ Index(p) = p.view * InstSpace + p.inst
<1>1. p.inst % InstSpace = p.inst
  BY ConstantsAssumption DEF Proposal, Instance
<1>2. p.view * InstSpace \in Nat
  BY ConstantsAssumption DEF Proposal
<1> QED BY <1>1, <1>2, ConstantsAssumption DEF Index, pack, Proposal, Instance

LEMMA ViewOrder ==
    ASSUME NEW p \in Proposal, NEW v \in Nat, p.view < v
    PROVE  Index(p) < v * InstSpace
<1> DEFINE w == p.view
<1>1. w \in Nat /\ p.inst < InstSpace /\ InstSpace \in Nat /\ p.inst \in Nat
  BY ConstantsAssumption DEF Proposal, Instance
<1>2. Index(p) < w * InstSpace + InstSpace
  BY <1>1, IndexType
<1>3. w * InstSpace + InstSpace <= v * InstSpace
  <2>1. PICK d \in Nat : v = w + 1 + d
    <3>1. v - w - 1 \in Nat
      BY <1>1
    <3> QED BY <3>1, <1>1
  <2>2. v * InstSpace = w * InstSpace + InstSpace + d * InstSpace
    BY <2>1, <1>1
  <2>3. d * InstSpace \in Nat
    BY <1>1
  <2>4. w * InstSpace \in Nat
    BY <1>1
  <2> QED BY <2>2, <2>3, <2>4, <1>1
<1>4. w * InstSpace \in Nat /\ v * InstSpace \in Nat
  BY <1>1
<1> QED BY <1>2, <1>3, <1>4, <1>1, IndexType

(* pack loses nothing of an instance that fits its bits. *)
LEMMA IndexInjective ==
    ASSUME NEW p \in Proposal, NEW q \in Proposal, Index(p) = Index(q)
    PROVE  p.view = q.view /\ p.inst = q.inst
<1>1. /\ p.view \in Nat /\ q.view \in Nat /\ InstSpace \in Nat
      /\ p.inst \in Nat /\ q.inst \in Nat
  BY ConstantsAssumption DEF Proposal, Instance
<1>2. p.view * InstSpace \in Nat /\ q.view * InstSpace \in Nat
  BY <1>1
<1>3. ~(p.view < q.view)
  BY ViewOrder, IndexType, <1>1, <1>2
<1>4. ~(q.view < p.view)
  BY ViewOrder, IndexType, <1>1, <1>2
<1>5. p.view = q.view
  BY <1>1, <1>3, <1>4
<1>6. PICK a \in Nat : Index(p) = a + p.inst /\ Index(q) = a + q.inst
  BY <1>2, <1>5, IndexType
<1>7. \A x, y \in Nat : a + x = a + y => x = y
  OBVIOUS
<1>8. p.inst = q.inst
  BY <1>6, <1>7, <1>1
<1> QED BY <1>5, <1>8

-----------------------------------------------------------------------------
(* Type correctness *)

(* DropBelow finds where to cut, and keeps a suffix. *)
LEMMA DropBelowType ==
    ASSUME NEW q \in Seq(Proposal), NEW index \in Nat
    PROVE  /\ DropBelow(q, index) \in Seq(Proposal)
           /\ \A k \in 1 .. Len(DropBelow(q, index)) :
                 \E j \in 1 .. Len(q) : DropBelow(q, index)[k] = q[j]
<1> DEFINE Cut(k) == /\ \A j \in 1 .. k : Index(q[j]) < index
                     /\ k = Len(q) \/ Index(q[k + 1]) >= index
           T == {k \in 0 .. Len(q) : k = Len(q) \/ Index(q[k + 1]) >= index}
<1>1. T \in SUBSET Nat /\ Len(q) \in T
  OBVIOUS
<1>2. PICK n \in T : \A m \in T : n <= m
  <2> HIDE DEF T
  <2> QED BY <1>1, NatMin
<1>3. ASSUME NEW j \in 1 .. n PROVE Index(q[j]) < index
  <2>1. j - 1 \in 0 .. Len(q) /\ j - 1 < n /\ j \in 1 .. Len(q) /\ (j - 1) + 1 = j
    OBVIOUS
  <2>2. j - 1 \notin T
    <3> HIDE DEF T
    <3> QED BY <1>2, <2>1, <1>1
  <2>3. ~(Index(q[j]) >= index)
    BY <2>1, <2>2
  <2>4. Index(q[j]) \in Nat
    BY <2>1, IndexType
  <2> QED BY <2>3, <2>4
<1>4. n \in 0 .. Len(q) /\ Cut(n)
  BY <1>3
<1> DEFINE c == CHOOSE k \in 0 .. Len(q) : Cut(k)
<1>5. c \in 0 .. Len(q)
  <2> HIDE DEF Cut
  <2> QED BY <1>4
<1>6. DropBelow(q, index) = SubSeq(q, c + 1, Len(q))
  BY DEF DropBelow
<1> HIDE DEF c
<1>7. /\ SubSeq(q, c + 1, Len(q)) \in Seq(Proposal)
      /\ Len(SubSeq(q, c + 1, Len(q))) = Len(q) - c
      /\ \A k \in 1 .. Len(q) - c : SubSeq(q, c + 1, Len(q))[k] = q[c + k]
  BY <1>5
<1>8. \A k \in 1 .. Len(q) - c : c + k \in 1 .. Len(q)
  BY <1>5
<1> QED BY <1>6, <1>7, <1>8

LEMMA ThrowType ==
    ASSUME TypeOK, NEW r \in Replica, NEW what \in Exception, Throw(r, what)
    PROVE  err' \in [Replica -> Exception \cup {"ok"}]
BY DEF TypeOK, Throw

LEMMA TryCertifyType ==
    ASSUME TypeOK, NEW r \in Replica, NEW p \in Proposal,
           tryCertifyPrepare(r, p)
    PROVE  /\ prepare_certifier' \in [Replica -> PrepareCertifier]
           /\ sent' \in [Replica -> Emitted]
           /\ err' \in [Replica -> Exception \cup {"ok"}]
<1>1. Index(p) \in Nat
  BY IndexType
<1>2. CASE /\ Throw(r, "Tried to emplace a past element")
           /\ UNCHANGED <<prepare_certifier, sent>>
  <2>1. err' \in [Replica -> Exception \cup {"ok"}]
    BY <1>2, ThrowType DEF Exception
  <2> QED BY <2>1, <1>2 DEF TypeOK
<1>3. CASE UNCHANGED <<prepare_certifier, sent, err>>
  BY <1>3 DEF TypeOK
<1>4. CASE /\ prepare_certifier' = [prepare_certifier EXCEPT
                ![r].tail = {q \in @ : InTail(Index(q), Index(p))} \cup {p},
                ![r].min = Index(p)]
           /\ sent' = [sent EXCEPT
                ![r].promises = IF leader(p.view) = r THEN @ ELSE @ \cup {Index(p)},
                ![r].prepares = @ \cup {p}]
           /\ UNCHANGED err
  <2>0. prepare_certifier \in [Replica -> PrepareCertifier] /\ sent \in [Replica -> Emitted]
    BY DEF TypeOK
  <2>1. prepare_certifier' \in [Replica -> PrepareCertifier]
    BY <2>0, <1>1, <1>4 DEF PrepareCertifier
  <2>2. sent' \in [Replica -> Emitted]
    BY ZenonT(30), <2>0, <1>1, <1>4 DEF Emitted
  <2> QED BY <1>4, <2>1, <2>2 DEF TypeOK
<1> QED BY <1>2, <1>3, <1>4 DEF tryCertifyPrepare

(* Replacing fields of a state by values of their types. *)
LEMMA StateUpdates ==
    ASSUME NEW st \in ReplicaState, NEW a \in Nat, NEW b \in Nat,
           NEW c \in SUBSET Proposal, NEW d \in Int, NEW h \in BOOLEAN
    PROVE  /\ [st EXCEPT !.next_cb = a, !.at_view = b] \in ReplicaState
           /\ [st EXCEPT !.next_cb = a, !.next_prepare = b, !.valid_values = c]
                 \in ReplicaState
           /\ [st EXCEPT !.next_cb = a, !.commits = c, !.outstanding = d]
                 \in ReplicaState
           /\ [st EXCEPT !.next_cb = a, !.low = b, !.commits = c] \in ReplicaState
           /\ [st EXCEPT !.next_cb = a, !.next_prepare = b, !.has_new_view = h,
                         !.valid_values = c] \in ReplicaState
BY DEF ReplicaState

(* What a message leaves in the state of its sender is a state. *)
LEMMA StateTypes ==
    ASSUME NEW st \in ReplicaState
    PROVE  /\ Received(st) \in ReplicaState
           /\ Verified(st) \in ReplicaState
           /\ Sealed(st) \in ReplicaState
           /\ \A p \in Proposal : Prepared(st, p) \in ReplicaState
           /\ \A c \in Proposal, n \in {0, 1} : Committed(st, c, n) \in ReplicaState
           /\ \A c \in Checkpoint : Checkpointed(st, c) \in ReplicaState
           /\ \A m \in NewView :
                 ViewStarted(st, m) \in ReplicaState
<1>0. /\ st.next_cb + 1 \in Nat /\ st.at_view + 1 \in Nat /\ st.low \in Nat
      /\ st.commits \in SUBSET Proposal /\ st.valid_values \in SUBSET Proposal
      /\ st.outstanding \in Int
  BY DEF ReplicaState
<1>1. Received(st) \in ReplicaState
  BY DEF Received, ReplicaState
<1>2. Verified(st) \in ReplicaState
  BY DEF Verified, ReplicaState
<1>3. Sealed(st) \in ReplicaState
  BY <1>0, StateUpdates DEF Sealed
<1>4. ASSUME NEW p \in Proposal PROVE Prepared(st, p) \in ReplicaState
  <2>1. p.inst \in Nat
    BY ConstantsAssumption DEF Proposal, Instance
  <2>2. {w \in st.valid_values : w.inst > p.inst} \in SUBSET Proposal
    BY <1>0
  <2> QED BY <1>0, <2>1, <2>2, StateUpdates DEF Prepared
<1>5. ASSUME NEW c \in Proposal, NEW n \in {0, 1}
      PROVE Committed(st, c, n) \in ReplicaState
  <2>1. /\ {d \in st.commits : d.inst # c.inst} \cup {c} \in SUBSET Proposal
        /\ st.outstanding + n \in Int
    BY <1>0
  <2> QED BY <1>0, <2>1, StateUpdates DEF Committed
<1>6. ASSUME NEW c \in Checkpoint PROVE Checkpointed(st, c) \in ReplicaState
  <2>1. PruneCommits(st.commits, c.low) \in SUBSET Proposal
    BY <1>0 DEF PruneCommits
  <2>2. c.low \in Nat
    BY DEF Checkpoint
  <2> QED BY <1>0, <2>1, <2>2, StateUpdates DEF Checkpointed
<1>7. ASSUME NEW m \in NewView
      PROVE ViewStarted(st, m) \in ReplicaState
  <2>1. validValues(m.commits) \in SUBSET Proposal
    BY DEF validValues, NewView
  <2> QED BY <1>0, <2>1, StateUpdates DEF ViewStarted
<1> QED BY <1>1, <1>2, <1>3, <1>4, <1>5, <1>6, <1>7

LEMMA CountCommitType ==
    ASSUME TypeOK, NEW r \in Replica, NEW s \in Replica, NEW c \in Proposal,
           countCommit(r, s, c)
    PROVE  /\ committed' \in [Replica -> SUBSET (Replica \X Nat)]
           /\ buffered_commits' \in [Replica -> [Replica -> Seq(Proposal)]]
           /\ err' \in [Replica -> Exception \cup {"ok"}]
<1>1. c.inst \in Nat
  BY ConstantsAssumption DEF Proposal, Instance
<1> DEFINE q == buffered_commits[r][s]
           q2 == Append(IF Len(q) = Window THEN Tail(q) ELSE q, c)
<1>2. q2 \in Seq(Proposal)
  <2>1. q \in Seq(Proposal)
    BY DEF TypeOK
  <2>2. CASE Len(q) = Window
    <3>1. Tail(q) \in Seq(Proposal)
      BY <2>1, <2>2, ConstantsAssumption
    <3> QED BY <3>1, <2>2
  <2>3. CASE Len(q) # Window
    BY <2>1, <2>3
  <2> QED BY <2>2, <2>3
<1>3. CASE buffered_commits' = [buffered_commits EXCEPT ![r][s] = q2]
           /\ UNCHANGED <<committed, err>>
  <2> HIDE DEF q2
  <2> QED BY <1>2, <1>3 DEF TypeOK
<1>4. CASE Throw(r, "Should have been detected before")
           /\ UNCHANGED <<committed, buffered_commits>>
  <2>1. err' \in [Replica -> Exception \cup {"ok"}]
    BY <1>4, ThrowType DEF Exception
  <2> QED BY <2>1, <1>4 DEF TypeOK
<1>5. CASE /\ committed' = [committed EXCEPT ![r] = @ \cup {<<s, c.inst>>}]
           /\ UNCHANGED <<buffered_commits, err>>
  BY SMTT(20), <1>1, <1>5 DEF TypeOK
<1> QED BY <1>3, <1>4, <1>5 DEF countCommit

(* The part of TypeOK that the handlers of CB messages touch. *)
HandlerTypeOK ==
    /\ states \in [Replica -> [Replica -> ReplicaState]]
    /\ instance_states \in [Replica -> SUBSET Proposal]
    /\ fast_committed \in [Replica -> SUBSET (Replica \X Nat)]
    /\ committed \in [Replica -> SUBSET (Replica \X Nat)]
    /\ prepare_certifier \in [Replica -> PrepareCertifier]
    /\ sent \in [Replica -> Emitted]
    /\ verifying \in [Replica -> SUBSET (Replica \X Proposal)]
    /\ buffered_commits \in [Replica -> [Replica -> Seq(Proposal)]]
    /\ fast_commits \in [Replica -> Seq([view: Nat, inst: Nat])]
    /\ polled_fast \in [Replica -> [Replica -> Nat]]
    /\ log \in [Replica -> Seq(Batch)]
    /\ request_log \in [Replica -> SUBSET Value]
    /\ checkpoints \in [Replica -> Checkpoints]
    /\ vc \in [Replica -> ViewChange]
    /\ err \in [Replica -> Exception \cup {"ok"}]

LEMMA TypeSplit ==
    TypeOK <=> /\ cb \in [Replica -> Seq(Message)]
               /\ proposer \in [Replica -> Proposer]
               /\ HandlerTypeOK
BY DEF TypeOK, HandlerTypeOK

LEMMA HandlePrepareType ==
    ASSUME TypeOK, NEW r \in Replica, NEW s \in Replica, NEW p \in Proposal,
           handlePrepare(r, s, p)
    PROVE  HandlerTypeOK'
<1> DEFINE useful == Index(p)
           left == [t \in Replica |-> DropBelow(buffered_commits[r][t], useful)]
           replay == {t \in Replica : left[t] # << >> /\ Index(left[t][1]) = useful}
           seen == [t \in Replica |->
                      IF t \in replay THEN Verified(states[r][t]) ELSE states[r][t]]
           next == [t \in Replica |->
                      IF t \in replay THEN Tail(left[t]) ELSE left[t]]
<1>1. /\ states \in [Replica -> [Replica -> ReplicaState]]
      /\ buffered_commits \in [Replica -> [Replica -> Seq(Proposal)]]
      /\ instance_states \in [Replica -> SUBSET Proposal]
      /\ fast_committed \in [Replica -> SUBSET (Replica \X Nat)]
      /\ committed \in [Replica -> SUBSET (Replica \X Nat)]
  BY DEF TypeOK
<1>2. useful \in Nat /\ p.inst \in Nat
  BY IndexType, ConstantsAssumption DEF Proposal, Instance
<1>3. left \in [Replica -> Seq(Proposal)]
  <2> HIDE DEF useful
  <2> QED BY <1>1, <1>2, DropBelowType
<1>4. next \in [Replica -> Seq(Proposal)]
  <2> HIDE DEF left
  <2> SUFFICES ASSUME NEW t \in Replica
               PROVE (IF t \in replay THEN Tail(left[t]) ELSE left[t]) \in Seq(Proposal)
    OBVIOUS
  <2>1. left[t] \in Seq(Proposal)
    BY <1>3
  <2>2. CASE t \in replay
    BY <2>1, <2>2
  <2> QED BY <2>1, <2>2
<1>5. replay \in SUBSET Replica
  OBVIOUS
<1>6. UNCHANGED <<verifying, fast_commits, polled_fast, log, request_log, checkpoints, vc>>
  BY DEF handlePrepare, fastVars
<1>7. CASE /\ Throw(r, "Byzantine prepare")
           /\ UNCHANGED <<states, instVars, prepare_certifier, sent, buffered_commits>>
  <2>1. err' \in [Replica -> Exception \cup {"ok"}]
    BY <1>7, ThrowType DEF Exception
  <2> QED BY <2>1, <1>6, <1>7 DEF TypeOK, HandlerTypeOK, instVars
<1>8. CASE /\ states' = [states EXCEPT ![r][s] = Received(@)]
           /\ UNCHANGED <<instVars, prepare_certifier, sent, buffered_commits, err>>
  <2>1. Received(states[r][s]) \in ReplicaState
    BY <1>1, StateTypes
  <2>2. states' \in [Replica -> [Replica -> ReplicaState]]
    BY <2>1, <1>1, <1>8
  <2> QED BY <2>2, <1>6, <1>8 DEF TypeOK, HandlerTypeOK, instVars
<1>9. CASE /\ states' = [states EXCEPT ![r] = [seen EXCEPT ![s] = Prepared(@, p)]]
           /\ instance_states' = [instance_states EXCEPT ![r] =
                 {q \in @ : InTail(q.inst, p.inst)} \cup {p}]
           /\ fast_committed' = [fast_committed EXCEPT ![r] =
                 {b \in @ : InTail(b[2], p.inst)}]
           /\ committed' = [committed EXCEPT ![r] =
                 {b \in @ : InTail(b[2], p.inst)} \cup (replay \X {p.inst})]
           /\ buffered_commits' = [buffered_commits EXCEPT ![r] = next]
           /\ tryCertifyPrepare(r, p)
  <2>1. seen \in [Replica -> ReplicaState]
    <3> HIDE DEF replay
    <3> QED BY <1>1, StateTypes
  <2>2. [seen EXCEPT ![s] = Prepared(@, p)] \in [Replica -> ReplicaState]
    <3>1. Prepared(seen[s], p) \in ReplicaState
      <4> HIDE DEF seen
      <4> QED BY <2>1, StateTypes
    <3> HIDE DEF seen
    <3> QED BY <2>1, <3>1
  <2>3. states' \in [Replica -> [Replica -> ReplicaState]]
    <3> HIDE DEF seen
    <3> QED BY <2>2, <1>1, <1>9
  <2>4. instance_states' \in [Replica -> SUBSET Proposal]
    BY <1>1, <1>9
  <2>5. fast_committed' \in [Replica -> SUBSET (Replica \X Nat)]
    BY <1>1, <1>9
  <2>6. committed' \in [Replica -> SUBSET (Replica \X Nat)]
    <3> DEFINE c == {b \in committed[r] : InTail(b[2], p.inst)} \cup (replay \X {p.inst})
    <3>1. c \in SUBSET (Replica \X Nat)
      <4> HIDE DEF replay
      <4> QED BY <1>1, <1>2, <1>5
    <3>2. committed' = [committed EXCEPT ![r] = c]
      BY <1>9
    <3> HIDE DEF c
    <3> QED BY <1>1, <3>1, <3>2
  <2>7. buffered_commits' \in [Replica -> [Replica -> Seq(Proposal)]]
    <3> HIDE DEF next
    <3> QED BY <1>1, <1>4, <1>9
  <2>8. /\ prepare_certifier' \in [Replica -> PrepareCertifier]
        /\ sent' \in [Replica -> Emitted]
        /\ err' \in [Replica -> Exception \cup {"ok"}]
    BY <1>9, TryCertifyType
  <2> QED BY <2>3, <2>4, <2>5, <2>6, <2>7, <2>8, <1>6 DEF TypeOK, HandlerTypeOK
<1> QED BY <1>7, <1>8, <1>9 DEF handlePrepare

LEMMA HandleCommitType ==
    ASSUME TypeOK, NEW r \in Replica, NEW s \in Replica, NEW c \in Proposal,
           handleCommit(r, s, c),
           prepare_certifier' \in [Replica -> PrepareCertifier]
    PROVE  HandlerTypeOK'
<1>1. UNCHANGED <<instance_states, fast_committed, fast_commits, polled_fast, log,
                  request_log, checkpoints, vc, sent>>
  BY DEF handleCommit, fastVars
<1>2. states \in [Replica -> [Replica -> ReplicaState]]
  BY DEF TypeOK
<1>3. CASE /\ Throw(r, IF ByzantineCommit(r, s, c) THEN "Byzantine commit"
                                                   ELSE "Committed twice")
           /\ UNCHANGED <<states, committed, verifying, buffered_commits>>
  <2>1. err' \in [Replica -> Exception \cup {"ok"}]
    <3>1. (IF ByzantineCommit(r, s, c) THEN "Byzantine commit"
                                       ELSE "Committed twice") \in Exception
      BY DEF Exception
    <3> QED BY <1>3, <3>1, ThrowType
  <2> QED BY <2>1, <1>1, <1>3 DEF TypeOK, HandlerTypeOK
<1>4. CASE /\ states' = [states EXCEPT ![r][s] =
                 Committed(@, c, IF s = r \/ ~LazyVerify THEN 0 ELSE 1)]
           /\ verifyCommit(r, s, c)
  <2> DEFINE n == IF s = r \/ ~LazyVerify THEN 0 ELSE 1
  <2>1. n \in {0, 1}
    OBVIOUS
  <2>2. states' \in [Replica -> [Replica -> ReplicaState]]
    <3> HIDE DEF n
    <3>1. Committed(states[r][s], c, n) \in ReplicaState
      BY <1>2, <2>1, StateTypes
    <3> QED BY <1>2, <1>4, <3>1 DEF n
  <2>3. CASE countCommit(r, s, c) /\ UNCHANGED verifying
    <3>1. /\ committed' \in [Replica -> SUBSET (Replica \X Nat)]
          /\ buffered_commits' \in [Replica -> [Replica -> Seq(Proposal)]]
          /\ err' \in [Replica -> Exception \cup {"ok"}]
      BY <2>3, CountCommitType
    <3> QED BY <2>2, <2>3, <3>1, <1>1 DEF TypeOK, HandlerTypeOK
  <2>4. CASE /\ verifying' = [verifying EXCEPT ![r] = @ \cup {<<s, c>>}]
             /\ UNCHANGED <<committed, buffered_commits, err>>
    <3>0. verifying \in [Replica -> SUBSET (Replica \X Proposal)]
      BY DEF TypeOK
    <3>1. verifying' \in [Replica -> SUBSET (Replica \X Proposal)]
      BY <2>4, <3>0
    <3> QED BY <2>2, <2>4, <3>1, <1>1 DEF TypeOK, HandlerTypeOK
  <2> QED BY <1>4, <2>3, <2>4 DEF verifyCommit
<1> QED BY <1>3, <1>4 DEF handleCommit

LEMMA HandleCheckpointType ==
    ASSUME TypeOK, NEW r \in Replica, NEW s \in Replica, NEW c \in Checkpoint,
           handleCheckpoint(r, s, c)
    PROVE  /\ states' \in [Replica -> [Replica -> ReplicaState]]
           /\ checkpoints' \in [Replica -> Checkpoints]
           /\ err' \in [Replica -> Exception \cup {"ok"}]
<1>1. /\ states \in [Replica -> [Replica -> ReplicaState]]
      /\ checkpoints \in [Replica -> Checkpoints]
  BY DEF TypeOK
<1>2. CASE Throw(r, "Byzantine checkpoint") /\ UNCHANGED <<states, checkpoints>>
  <2>1. err' \in [Replica -> Exception \cup {"ok"}]
    BY <1>2, ThrowType DEF Exception
  <2> QED BY <2>1, <1>1, <1>2
<1>3. CASE /\ states' = [states EXCEPT ![r][s] = Checkpointed(@, c)]
           /\ Adopt(r, c)
           /\ UNCHANGED err
  <2>1. Checkpointed(states[r][s], c) \in ReplicaState
    BY <1>1, StateTypes
  <2>2. states' \in [Replica -> [Replica -> ReplicaState]]
    BY <1>1, <1>3, <2>1
  <2>3. checkpoints' \in [Replica -> Checkpoints]
    BY <1>1, <1>3 DEF Adopt, Checkpoints
  <2> QED BY <1>3, <2>2, <2>3 DEF TypeOK
<1> QED BY <1>2, <1>3 DEF handleCheckpoint

(* Replacing fields of a view change record. *)
LEMMA ViewChangeUpdates ==
    ASSUME NEW x \in [Replica -> ViewChange], NEW r \in Replica, NEW s \in Replica,
           NEW a \in SUBSET SerializedState, NEW o \in SUBSET Nat,
           NEW c \in SUBSET StateCertificate, NEW m \in SUBSET NewView
    PROVE  /\ [x EXCEPT ![r].acked[s] = a, ![r].ongoing = o, ![r].certs = c]
                 \in [Replica -> ViewChange]
           /\ [x EXCEPT ![r].acked[s] = a, ![r].certs = c] \in [Replica -> ViewChange]
           /\ [x EXCEPT ![r].acked[s] = a, ![r].certs = c, ![r].ongoing = o,
                        ![r].pending = m] \in [Replica -> ViewChange]
           /\ [x EXCEPT ![r].pending = m] \in [Replica -> ViewChange]
<1> DEFINE e == [x[r].acked EXCEPT ![s] = a]
           y1 == [x[r] EXCEPT !.acked = e, !.ongoing = o, !.certs = c]
           y2 == [x[r] EXCEPT !.acked = e, !.certs = c]
           y3 == [x[r] EXCEPT !.acked = e, !.certs = c, !.ongoing = o, !.pending = m]
<1>0. x[r] \in ViewChange
  OBVIOUS
<1>1. e \in [Replica -> SUBSET SerializedState]
  BY <1>0 DEF ViewChange
<1>2. y1 \in ViewChange /\ y2 \in ViewChange /\ y3 \in ViewChange
  <2> HIDE DEF e
  <2> QED BY <1>0, <1>1 DEF ViewChange
<1>3. [x EXCEPT ![r].acked[s] = a, ![r].ongoing = o, ![r].certs = c]
        = [x EXCEPT ![r] = y1]
  BY <1>0 DEF ViewChange
<1>4. [x EXCEPT ![r].acked[s] = a, ![r].certs = c] = [x EXCEPT ![r] = y2]
  BY <1>0 DEF ViewChange
<1>5. [x EXCEPT ![r].acked[s] = a, ![r].certs = c, ![r].ongoing = o, ![r].pending = m]
        = [x EXCEPT ![r] = y3]
  BY <1>0 DEF ViewChange
<1>6. [x EXCEPT ![r].pending = m] \in [Replica -> ViewChange]
  BY DEF ViewChange
<1> HIDE DEF y1, y2, y3
<1> QED BY <1>2, <1>3, <1>4, <1>5, <1>6

LEMMA HandleSealViewType ==
    ASSUME TypeOK, NEW r \in Replica, NEW s \in Replica, handleSealView(r, s)
    PROVE  /\ states' \in [Replica -> [Replica -> ReplicaState]]
           /\ sent' \in [Replica -> Emitted]
           /\ vc' \in [Replica -> ViewChange]
<1>1. /\ states \in [Replica -> [Replica -> ReplicaState]]
      /\ sent \in [Replica -> Emitted]
      /\ vc \in [Replica -> ViewChange]
  BY DEF TypeOK
<1>2. states[r][s] \in ReplicaState
  BY <1>1
<1>3. states' \in [Replica -> [Replica -> ReplicaState]]
  <2>1. Sealed(states[r][s]) \in ReplicaState
    BY <1>2, StateTypes
  <2> QED BY <1>1, <2>1 DEF handleSealView
<1> DEFINE a == serializeState(r, s)
           v == states[r][s].at_view
<1>4. a \in SerializedState /\ v \in Nat
  BY <1>2 DEF serializeState, ReplicaState, SerializedState
<1>5. sent' \in [Replica -> Emitted]
  <2> DEFINE b == [owner |-> s, view |-> a.view, commits |-> a.commits]
  <2>1. b \in SealedState
    <3> HIDE DEF a
    <3> QED BY <1>4 DEF SealedState, SerializedState
  <2>2. sent' = [sent EXCEPT ![r].states = @ \cup {b}]
    BY DEF handleSealView
  <2> HIDE DEF b
  <2> QED BY <1>1, <2>1, <2>2 DEF Emitted
<1>6. vc' \in [Replica -> ViewChange]
  <2>1. PICK starts \in BOOLEAN :
           vc' = [vc EXCEPT ![r].acked[s] = {a},
                            ![r].ongoing = IF starts THEN {v} ELSE @,
                            ![r].certs = IF starts THEN {} ELSE @]
    BY DEF handleSealView
  <2> HIDE DEF a, v
  <2>2. CASE starts
    <3>1. vc' = [vc EXCEPT ![r].acked[s] = {a}, ![r].ongoing = {v}, ![r].certs = {}]
      BY <2>1, <2>2
    <3>2. {a} \in SUBSET SerializedState /\ {v} \in SUBSET Nat /\ {} \in SUBSET StateCertificate
      BY <1>4
    <3>3. [vc EXCEPT ![r].acked[s] = {a}, ![r].ongoing = {v}, ![r].certs = {}]
             \in [Replica -> ViewChange]
      BY ZenonT(30), <1>1, <3>2, ViewChangeUpdates
    <3> QED BY <3>1, <3>3
  <2>3. CASE ~starts
    <3>1. vc' = [vc EXCEPT ![r].acked[s] = {a}, ![r].ongoing = vc[r].ongoing,
                            ![r].certs = vc[r].certs]
      BY <2>1, <2>3
    <3>2. {a} \in SUBSET SerializedState
      BY <1>4
    <3>3. vc[r].ongoing \in SUBSET Nat /\ vc[r].certs \in SUBSET StateCertificate
      BY <1>1 DEF ViewChange
    <3>4. [vc EXCEPT ![r].acked[s] = {a}, ![r].ongoing = vc[r].ongoing,
                     ![r].certs = vc[r].certs] \in [Replica -> ViewChange]
      BY ZenonT(30), <1>1, <3>2, <3>3, ViewChangeUpdates
    <3> QED BY <3>1, <3>4
  <2> QED BY <2>1, <2>2, <2>3
<1> QED BY <1>3, <1>5, <1>6

LEMMA MessageParts ==
    ASSUME NEW m \in Message
    PROVE  /\ m.kind \in {"Prepare", "Commit"} => m.p \in Proposal
           /\ m.kind = "Checkpoint" => m.c \in Checkpoint
           /\ m.kind = "NewView" => m \in NewView
BY DEF Message, NewView

LEMMA MessageTypes ==
    /\ \A p \in Proposal : PrepareMessage(p) \in Message /\ CommitMessage(p) \in Message
    /\ \A c \in Checkpoint : CheckpointMessage(c) \in Message
    /\ SealViewMessage \in Message
    /\ \A v \in Nat, cs \in SUBSET Proposal :
          NewViewMessage(v, cs) \in NewView /\ NewViewMessage(v, cs) \in Message
BY DEF Message, NewView, PrepareMessage, CommitMessage, CheckpointMessage,
       SealViewMessage, NewViewMessage

LEMMA NextCbType ==
    ASSUME TypeOK, NEW r \in Replica, NEW s \in Replica,
           states[r][s].next_cb < Len(cb[s])
    PROVE  NextCb(r, s) \in Message
<1>1. states[r][s] \in ReplicaState /\ cb[s] \in Seq(Message)
  BY DEF TypeOK
<1>2. states[r][s].next_cb \in Nat
  BY <1>1 DEF ReplicaState
<1> QED BY <1>1, <1>2 DEF NextCb

LEMMA BroadcastType ==
    ASSUME TypeOK, NEW r \in Replica, NEW m \in Message, broadcast(r, m)
    PROVE  cb' \in [Replica -> Seq(Message)]
<1>1. cb \in [Replica -> Seq(Message)]
  BY DEF TypeOK
<1>2. Append(cb[r], m) \in Seq(Message)
  BY <1>1
<1> QED BY <1>1, <1>2 DEF broadcast

(* pollCbs *)
LEMMA PollTypes ==
    ASSUME TypeOK, NEW r \in Replica, NEW s \in Replica,
           \/ PollPrepare(r, s) \/ PollCommit(r, s) \/ PollCheckpoint(r, s)
           \/ PollSealView(r, s) \/ PollNewView(r, s)
    PROVE  TypeOK'
<1> DEFINE m == NextCb(r, s)
<1>1. m \in Message /\ UNCHANGED <<cb, proposer>>
  BY NextCbType DEF PollPrepare, PollCommit, PollCheckpoint, PollSealView,
                    PollNewView, PollCb
<1>2. cb' \in [Replica -> Seq(Message)] /\ proposer' \in [Replica -> Proposer]
  BY <1>1 DEF TypeOK
<1>3. SUFFICES HandlerTypeOK'
  BY <1>2, TypeSplit DEF TypeOK, HandlerTypeOK
<1> HIDE DEF m
<1>4. CASE PollPrepare(r, s)
  <2>1. m.p \in Proposal /\ handlePrepare(r, s, m.p)
    BY <1>1, <1>4, MessageParts DEF PollPrepare, PollCb, m
  <2> QED BY <2>1, HandlePrepareType
<1>5. CASE PollCommit(r, s)
  <2>1. m.p \in Proposal /\ handleCommit(r, s, m.p) /\ UNCHANGED prepare_certifier
    BY <1>1, <1>5, MessageParts DEF PollCommit, PollCb, m
  <2>2. prepare_certifier' \in [Replica -> PrepareCertifier]
    BY <2>1 DEF TypeOK
  <2> QED BY <2>1, <2>2, HandleCommitType
<1>6. CASE PollCheckpoint(r, s)
  <2>1. m.c \in Checkpoint /\ handleCheckpoint(r, s, m.c)
    BY <1>1, <1>6, MessageParts DEF PollCheckpoint, PollCb, m
  <2>2. /\ states' \in [Replica -> [Replica -> ReplicaState]]
        /\ checkpoints' \in [Replica -> Checkpoints]
        /\ err' \in [Replica -> Exception \cup {"ok"}]
    BY <2>1, HandleCheckpointType
  <2> QED BY <2>2, <1>6 DEF PollCheckpoint, TypeOK, HandlerTypeOK, instVars, fastVars
<1>7. CASE PollSealView(r, s)
  <2>1. /\ states' \in [Replica -> [Replica -> ReplicaState]]
        /\ sent' \in [Replica -> Emitted]
        /\ vc' \in [Replica -> ViewChange]
    BY <1>7, HandleSealViewType DEF PollSealView
  <2> QED BY <2>1, <1>7 DEF PollSealView, TypeOK, HandlerTypeOK, instVars, fastVars
<1>8. CASE PollNewView(r, s)
  <2>1. m \in NewView /\ states' = [states EXCEPT ![r][s] = ViewStarted(@, m)]
    BY <1>1, <1>8, MessageParts DEF PollNewView, PollCb, handleNewView, m
  <2>2. states \in [Replica -> [Replica -> ReplicaState]]
    BY DEF TypeOK
  <2>3. ViewStarted(states[r][s], m) \in ReplicaState
    BY <2>1, <2>2, StateTypes
  <2>4. states' \in [Replica -> [Replica -> ReplicaState]]
    BY <2>1, <2>2, <2>3
  <2> QED BY <2>4, <1>8 DEF PollNewView, TypeOK, HandlerTypeOK, instVars, fastVars
<1> QED BY <1>4, <1>5, <1>6, <1>7, <1>8

LEMMA ProposeTypes ==
    ASSUME TypeOK, NEW r \in Replica,
           Propose(r) \/ \E val \in Value : GetSlot(r, val)
    PROVE  TypeOK'
<1>1. /\ proposer \in [Replica -> Proposer] /\ proposer[r] \in Proposer
      /\ states[r][r] \in ReplicaState
  BY DEF TypeOK
<1> DEFINE pr == proposer[r]
<1>2. /\ pr.next_proposal \in Nat /\ pr.proposed \in Nat
      /\ pr.to_propose \in Seq(Proposal)
  BY <1>1 DEF Proposer
<1>3. ASSUME NEW val \in Value, GetSlot(r, val) PROVE TypeOK'
  <2> DEFINE p == [view |-> At(r), inst |-> pr.next_proposal, val |-> val]
  <2>1. p \in Proposal
    <3>1. At(r) \in Nat
      BY <1>1 DEF At, ReplicaState
    <3>2. pr.next_proposal \in Instance
      BY <1>2, <1>3, ConstantsAssumption DEF GetSlot, Instance
    <3> QED BY <3>1, <3>2 DEF Proposal, Batch
  <2>2. proposer' = [proposer EXCEPT ![r] = NextSlot(pr, p)]
    BY <1>3 DEF GetSlot
  <2> HIDE DEF p
  <2>3. NextSlot(pr, p) \in Proposer
    <3>1. Append(pr.to_propose, p) \in Seq(Proposal)
      BY <1>2, <2>1
    <3> DEFINE a == pr.next_proposal + 1
               b == Append(pr.to_propose, p)
    <3>2. a \in Nat
      BY <1>2
    <3>3. NextSlot(pr, p) = [pr EXCEPT !.next_proposal = a, !.to_propose = b]
      BY DEF NextSlot
    <3> HIDE DEF a, b
    <3> QED BY <1>1, <3>1, <3>2, <3>3 DEF Proposer, b
  <2>4. proposer' \in [Replica -> Proposer]
    BY <1>1, <2>2, <2>3
  <2>5. UNCHANGED <<cb, states, instVars, prepare_certifier, sent, verifying,
                    buffered_commits, fastVars, log, request_log, checkpoints, vc, err>>
    BY <1>3 DEF GetSlot
  <2> QED BY <2>4, <2>5 DEF TypeOK, instVars, fastVars
<1>4. CASE Propose(r)
  <2> DEFINE p == Head(pr.to_propose)
  <2>1. /\ p \in Proposal /\ Tail(pr.to_propose) \in Seq(Proposal)
    BY <1>2, <1>4 DEF Propose
  <2>2. proposer' = [proposer EXCEPT ![r].proposed = @ + 1, ![r].to_propose = Tail(@)]
    BY <1>4 DEF Propose
  <2>3. proposer' \in [Replica -> Proposer]
    <3> DEFINE y == [pr EXCEPT !.proposed = @ + 1, !.to_propose = Tail(@)]
    <3>1. y \in Proposer
      <4> DEFINE a == pr.proposed + 1
                 b == Tail(pr.to_propose)
      <4>1. a \in Nat /\ b \in Seq(Proposal)
        BY <1>2, <2>1
      <4>2. y = [pr EXCEPT !.proposed = a, !.to_propose = b]
        OBVIOUS
      <4> HIDE DEF a, b
      <4> QED BY <1>1, <4>1, <4>2 DEF Proposer
    <3>2. proposer' = [proposer EXCEPT ![r] = y]
      BY <1>1, <2>2 DEF Proposer
    <3> HIDE DEF y
    <3> QED BY <1>1, <3>1, <3>2
  <2>4. cb' \in [Replica -> Seq(Message)]
    <3>1. broadcast(r, PrepareMessage(p))
      BY <1>4 DEF Propose
    <3> HIDE DEF p
    <3> QED BY <2>1, <3>1, MessageTypes, BroadcastType
  <2>5. HandlerTypeOK'
    <3>1. handlePrepare(r, r, p)
      BY <1>4 DEF Propose
    <3> HIDE DEF p
    <3> QED BY <2>1, <3>1, HandlePrepareType
  <2> QED BY <2>3, <2>4, <2>5 DEF TypeOK, HandlerTypeOK
<1> QED BY <1>3, <1>4

LEMMA RequestTypes ==
    ASSUME TypeOK, NEW r \in Replica,
           CertifyPrepare(r) \/ \E val \in Value : AcceptRequest(r, val)
    PROVE  TypeOK'
<1>1. ASSUME NEW val \in Value, AcceptRequest(r, val) PROVE TypeOK'
  <2>1. request_log \in [Replica -> SUBSET Value]
    BY DEF TypeOK
  <2>2. request_log' \in [Replica -> SUBSET Value]
    BY <1>1, <2>1 DEF AcceptRequest
  <2> QED BY <1>1, <2>2 DEF TypeOK, AcceptRequest, instVars, fastVars
<1>2. CASE CertifyPrepare(r)
  <2>1. PICK p \in instance_states[r] : tryCertifyPrepare(r, p)
    BY <1>2 DEF CertifyPrepare
  <2>2. p \in Proposal
    BY DEF TypeOK
  <2>3. /\ prepare_certifier' \in [Replica -> PrepareCertifier]
        /\ sent' \in [Replica -> Emitted]
        /\ err' \in [Replica -> Exception \cup {"ok"}]
    BY <2>1, <2>2, TryCertifyType
  <2> QED BY <1>2, <2>3 DEF TypeOK, CertifyPrepare, instVars, fastVars
<1> QED BY <1>1, <1>2

LEMMA FastTypes ==
    ASSUME TypeOK, NEW r \in Replica,
           PollPromise(r) \/ \E s \in Replica : PollFastCommit(r, s)
    PROVE  TypeOK'
<1>1. /\ prepare_certifier \in [Replica -> PrepareCertifier]
      /\ fast_commits \in [Replica -> Seq([view: Nat, inst: Nat])]
      /\ polled_fast \in [Replica -> [Replica -> Nat]]
  BY DEF TypeOK
<1>0. fast_committed \in [Replica -> SUBSET (Replica \X Nat)]
  BY DEF TypeOK
<1>2. CASE PollPromise(r)
  <2>1. PICK p \in prepare_certifier[r].tail :
           /\ prepare_certifier' = [prepare_certifier EXCEPT ![r].next_promise = Index(p) + 1]
           /\ \/ /\ fast_commits' = [fast_commits EXCEPT ![r] =
                       Append(@, [view |-> p.view, inst |-> p.inst])]
                 /\ fast_committed' = [fast_committed EXCEPT ![r] = @ \cup {<<r, p.inst>>}]
              \/ UNCHANGED <<fast_commits, fast_committed>>
    BY <1>2 DEF PollPromise
  <2>2. p \in Proposal
    BY <1>1 DEF PrepareCertifier
  <2>3. Index(p) + 1 \in Nat /\ p.view \in Nat /\ p.inst \in Nat
    BY <2>2, IndexType, ConstantsAssumption DEF Proposal, Instance
  <2>4. prepare_certifier' \in [Replica -> PrepareCertifier]
    BY <1>1, <2>1, <2>3 DEF PrepareCertifier
  <2>5. fast_commits' \in [Replica -> Seq([view: Nat, inst: Nat])]
    <3> DEFINE f == [view |-> p.view, inst |-> p.inst]
    <3>1. f \in [view: Nat, inst: Nat]
      BY <2>3
    <3>2. \/ UNCHANGED fast_commits
          \/ fast_commits' = [fast_commits EXCEPT ![r] = Append(@, f)]
      BY <2>1
    <3>3. Append(fast_commits[r], f) \in Seq([view: Nat, inst: Nat])
      <4> HIDE DEF f
      <4> QED BY <1>1, <3>1
    <3> HIDE DEF f
    <3> QED BY <1>1, <3>2, <3>3
  <2>6. fast_committed' \in [Replica -> SUBSET (Replica \X Nat)]
    <3>1. \/ UNCHANGED fast_committed
          \/ fast_committed' = [fast_committed EXCEPT ![r] = @ \cup {<<r, p.inst>>}]
      BY <2>1
    <3> QED BY <1>0, <2>3, <3>1
  <2>7. UNCHANGED <<cb, states, instance_states, committed, sent, verifying,
                   buffered_commits, polled_fast, proposer, log, request_log,
                   checkpoints, vc, err>>
    BY <1>2 DEF PollPromise
  <2> QED BY <2>4, <2>5, <2>6, <2>7 DEF TypeOK
<1>3. ASSUME NEW s \in Replica, PollFastCommit(r, s) PROVE TypeOK'
  <2> DEFINE f == fast_commits[s][polled_fast[r][s] + 1]
  <2>0. /\ polled_fast[r][s] < Len(fast_commits[s])
        /\ polled_fast' = [polled_fast EXCEPT ![r][s] = @ + 1]
    BY <1>3 DEF PollFastCommit
  <2>1. f \in [view: Nat, inst: Nat]
    <3>1. polled_fast[r][s] \in Nat /\ fast_commits[s] \in Seq([view: Nat, inst: Nat])
      BY <1>1
    <3>2. polled_fast[r][s] + 1 \in 1 .. Len(fast_commits[s])
      BY SMTT(20), <2>0, <3>1
    <3>3. \A T : \A q \in Seq(T) : \A k \in 1 .. Len(q) : q[k] \in T
      OBVIOUS
    <3> QED BY <3>1, <3>2, <3>3
  <2>2. f.inst \in Nat
    <3> HIDE DEF f
    <3> QED BY <2>1
  <2>3. polled_fast' \in [Replica -> [Replica -> Nat]]
    BY SMTT(20), <1>1, <2>0
  <2>4. \/ UNCHANGED <<fast_committed, err>>
        \/ Throw(r, "Fast commit received twice") /\ UNCHANGED fast_committed
        \/ /\ fast_committed' = [fast_committed EXCEPT ![r] = @ \cup {<<s, f.inst>>}]
           /\ UNCHANGED err
    BY <1>3 DEF PollFastCommit
  <2>5. fast_committed' \in [Replica -> SUBSET (Replica \X Nat)]
    <3> HIDE DEF f
    <3>1. \/ UNCHANGED fast_committed
          \/ fast_committed' = [fast_committed EXCEPT ![r] = @ \cup {<<s, f.inst>>}]
      BY <2>4
    <3> QED BY <1>0, <2>2, <3>1
  <2>6. err' \in [Replica -> Exception \cup {"ok"}]
    <3>1. CASE UNCHANGED err
      BY <3>1 DEF TypeOK
    <3>2. CASE Throw(r, "Fast commit received twice")
      BY <3>2, ThrowType DEF Exception
    <3> QED BY <2>4, <3>1, <3>2
  <2>7. UNCHANGED <<cb, states, instance_states, committed, prepare_certifier,
                   sent, verifying, buffered_commits, fast_commits, proposer,
                   log, request_log, checkpoints, vc>>
    BY <1>3 DEF PollFastCommit
  <2> QED BY <2>3, <2>5, <2>6, <2>7 DEF TypeOK
<1> QED BY <1>2, <1>3

LEMMA SlowTypes ==
    ASSUME TypeOK, NEW r \in Replica,
           PollPrepareCertificate(r) \/ PollVerifiedCommit(r)
    PROVE  TypeOK'
<1>1. /\ prepare_certifier \in [Replica -> PrepareCertifier]
      /\ states \in [Replica -> [Replica -> ReplicaState]]
  BY DEF TypeOK
<1>2. CASE PollPrepareCertificate(r)
  <2>0. UNCHANGED proposer
    BY <1>2 DEF PollPrepareCertificate
  <2>1. PICK p \in prepare_certifier[r].tail :
           /\ prepare_certifier' = [prepare_certifier EXCEPT
                 ![r].next_certificate = Index(p) + 1]
           /\ \/ UNCHANGED <<cb, states, committed, verifying, buffered_commits,
                             err, instance_states, fast_committed, fastVars, log,
                             request_log, checkpoints, vc, sent>>
              \/ broadcast(r, CommitMessage(p)) /\ handleCommit(r, r, p)
    BY <1>2 DEF PollPrepareCertificate
  <2>2. p \in Proposal
    BY <1>1 DEF PrepareCertifier
  <2>3. Index(p) + 1 \in Nat
    BY <2>2, IndexType
  <2>4. prepare_certifier' \in [Replica -> PrepareCertifier]
    BY <1>1, <2>1, <2>3 DEF PrepareCertifier
  <2>5. CASE UNCHANGED <<cb, states, committed, verifying, buffered_commits,
                         err, instance_states, fast_committed, fastVars, log,
                         request_log, checkpoints, vc, sent>>
    BY <2>0, <2>4, <2>5 DEF TypeOK, fastVars
  <2>6. CASE broadcast(r, CommitMessage(p)) /\ handleCommit(r, r, p)
    <3>1. cb' \in [Replica -> Seq(Message)]
      BY <2>2, <2>6, MessageTypes, BroadcastType
    <3>2. HandlerTypeOK'
      BY <2>2, <2>4, <2>6, HandleCommitType
    <3> QED BY <2>0, <3>1, <3>2 DEF TypeOK, HandlerTypeOK
  <2> QED BY <2>1, <2>5, <2>6
<1>3. CASE PollVerifiedCommit(r)
  <2>1. PICK w \in verifying[r] :
           /\ verifying' = [verifying EXCEPT ![r] = @ \ {w}]
           /\ states' = [states EXCEPT ![r][w[1]] = Verified(@)]
           /\ countCommit(r, w[1], w[2])
    BY <1>3 DEF PollVerifiedCommit
  <2>2. w[1] \in Replica /\ w[2] \in Proposal
    BY SMTT(20) DEF TypeOK
  <2>3. /\ committed' \in [Replica -> SUBSET (Replica \X Nat)]
        /\ buffered_commits' \in [Replica -> [Replica -> Seq(Proposal)]]
        /\ err' \in [Replica -> Exception \cup {"ok"}]
    BY <2>1, <2>2, CountCommitType
  <2>4. states' \in [Replica -> [Replica -> ReplicaState]]
    <3>1. Verified(states[r][w[1]]) \in ReplicaState
      BY <1>1, <2>2, StateTypes
    <3> QED BY <1>1, <2>1, <2>2, <3>1
  <2>5. verifying' \in [Replica -> SUBSET (Replica \X Proposal)]
    <3>1. verifying \in [Replica -> SUBSET (Replica \X Proposal)]
      BY DEF TypeOK
    <3> QED BY <2>1, <3>1
  <2>6. UNCHANGED <<cb, instance_states, fast_committed, prepare_certifier, sent,
                    fastVars, proposer, log, request_log, checkpoints, vc>>
    BY <1>3 DEF PollVerifiedCommit
  <2> QED BY <2>3, <2>4, <2>5, <2>6 DEF TypeOK, fastVars
<1> QED BY <1>2, <1>3

LEMMA DecideTypes ==
    ASSUME TypeOK, NEW r \in Replica,
           Decide(r) \/ PollCheckpointCertificate(r)
    PROVE  TypeOK'
<1>1. /\ log \in [Replica -> Seq(Batch)]
      /\ checkpoints \in [Replica -> Checkpoints]
      /\ sent \in [Replica -> Emitted]
  BY DEF TypeOK
<1>2. CASE Decide(r)
  <2> DEFINE i == Len(log[r])
             c == AppCheckpoint(i, log'[r])
  <2>1. PICK p \in instance_states[r] : log' = [log EXCEPT ![r] = Append(@, p.val)]
    BY <1>2 DEF Decide
  <2>2. p.val \in Batch
    BY DEF TypeOK, Proposal
  <2>3. log' \in [Replica -> Seq(Batch)]
    <3>1. Append(log[r], p.val) \in Seq(Batch)
      BY <1>1, <2>2
    <3> QED BY <1>1, <2>1, <3>1
  <2>4. c \in Checkpoint
    <3>1. i \in Nat /\ log'[r] \in Seq(Batch)
      BY <1>1, <2>3
    <3> QED BY <3>1 DEF AppCheckpoint, Checkpoint
  <2>5. \/ UNCHANGED <<checkpoints, sent>>
        \/ /\ checkpoints' = [checkpoints EXCEPT ![r].local = {c}]
           /\ sent' = [sent EXCEPT ![r].checkpoints = @ \cup {c}]
    BY <1>2 DEF Decide
  <2> HIDE DEF c
  <2>6. checkpoints' \in [Replica -> Checkpoints]
    <3>1. [checkpoints EXCEPT ![r].local = {c}] \in [Replica -> Checkpoints]
      BY <1>1, <2>4 DEF Checkpoints
    <3> QED BY <1>1, <2>5, <3>1
  <2>7. sent' \in [Replica -> Emitted]
    <3>1. [sent EXCEPT ![r].checkpoints = @ \cup {c}] \in [Replica -> Emitted]
      BY <1>1, <2>4 DEF Emitted
    <3> QED BY <1>1, <2>5, <3>1
  <2>8. UNCHANGED <<cb, states, instVars, prepare_certifier, verifying,
                   buffered_commits, fastVars, proposer, request_log, vc, err>>
    BY <1>2 DEF Decide
  <2> QED BY <2>3, <2>6, <2>7, <2>8 DEF TypeOK, instVars, fastVars
<1>3. CASE PollCheckpointCertificate(r)
  <2>1. PICK c \in checkpoints[r].local : Adopt(r, c)
    BY <1>3 DEF PollCheckpointCertificate
  <2>2. c \in Checkpoint
    BY <1>1 DEF Checkpoints
  <2>3. checkpoints' \in [Replica -> Checkpoints]
    BY <1>1, <2>1, <2>2 DEF Adopt, Checkpoints
  <2>4. UNCHANGED <<cb, states, instVars, prepare_certifier, sent, verifying,
                   buffered_commits, fastVars, proposer, log, request_log, vc, err>>
    BY <1>3 DEF PollCheckpointCertificate
  <2> QED BY <2>3, <2>4 DEF TypeOK, instVars, fastVars
<1> QED BY <1>2, <1>3

LEMMA BroadcastCheckpointType ==
    ASSUME TypeOK, NEW r \in Replica, BroadcastCheckpoint(r)
    PROVE  TypeOK'
<1>1. /\ prepare_certifier \in [Replica -> PrepareCertifier]
      /\ instance_states \in [Replica -> SUBSET Proposal]
      /\ checkpoints \in [Replica -> Checkpoints]
  BY DEF TypeOK
<1>2. /\ fast_committed \in [Replica -> SUBSET (Replica \X Nat)]
      /\ committed \in [Replica -> SUBSET (Replica \X Nat)]
  BY DEF TypeOK
<1> DEFINE c == certifiedCheckpoint(r)
<1>3. c \in Checkpoint
  BY <1>1 DEF certifiedCheckpoint, Checkpoints
<1>4. /\ broadcast(r, CheckpointMessage(c)) /\ handleCheckpoint(r, r, c)
      /\ prepare_certifier' = [prepare_certifier EXCEPT ![r].tail =
            {p \in @ : Index(p) > pack(At(r), c.low - 1)}]
      /\ instance_states' = [instance_states EXCEPT ![r] = ForgetBelow(@, c.low)]
      /\ fast_committed' = [fast_committed EXCEPT ![r] = {b \in @ : b[2] >= c.low}]
      /\ committed' = [committed EXCEPT ![r] = {b \in @ : b[2] >= c.low}]
      /\ UNCHANGED <<sent, verifying, buffered_commits, fastVars, proposer, log,
                     request_log, vc>>
  BY DEF BroadcastCheckpoint
<1> HIDE DEF c
<1>5. cb' \in [Replica -> Seq(Message)]
  BY <1>3, <1>4, MessageTypes, BroadcastType
<1>6. /\ states' \in [Replica -> [Replica -> ReplicaState]]
      /\ checkpoints' \in [Replica -> Checkpoints]
      /\ err' \in [Replica -> Exception \cup {"ok"}]
  BY <1>3, <1>4, HandleCheckpointType
<1>7. prepare_certifier' \in [Replica -> PrepareCertifier]
  BY <1>1, <1>4 DEF PrepareCertifier
<1>8. instance_states' \in [Replica -> SUBSET Proposal]
  BY <1>1, <1>4 DEF ForgetBelow
<1>9. /\ fast_committed' \in [Replica -> SUBSET (Replica \X Nat)]
      /\ committed' \in [Replica -> SUBSET (Replica \X Nat)]
  BY <1>2, <1>4
<1> QED BY <1>4, <1>5, <1>6, <1>7, <1>8, <1>9 DEF TypeOK, fastVars

LEMMA ChangeViewType ==
    ASSUME TypeOK, NEW r \in Replica, ChangeView(r)
    PROVE  TypeOK'
<1>1. /\ prepare_certifier \in [Replica -> PrepareCertifier]
      /\ instance_states \in [Replica -> SUBSET Proposal]
      /\ fast_committed \in [Replica -> SUBSET (Replica \X Nat)]
      /\ committed \in [Replica -> SUBSET (Replica \X Nat)]
  BY DEF TypeOK
<1>2. /\ broadcast(r, SealViewMessage) /\ handleSealView(r, r)
      /\ prepare_certifier' = [prepare_certifier EXCEPT ![r].tail =
            {p \in @ : Index(p) > pack(At(r) + 1, 0)}]
      /\ instance_states' = [instance_states EXCEPT ![r] = {}]
      /\ fast_committed' = [fast_committed EXCEPT ![r] = {}]
      /\ committed' = [committed EXCEPT ![r] = {}]
      /\ UNCHANGED <<verifying, buffered_commits, fastVars, proposer, log,
                     request_log, checkpoints, err>>
  BY DEF ChangeView
<1>3. cb' \in [Replica -> Seq(Message)]
  BY <1>2, MessageTypes, BroadcastType
<1>4. /\ states' \in [Replica -> [Replica -> ReplicaState]]
      /\ sent' \in [Replica -> Emitted]
      /\ vc' \in [Replica -> ViewChange]
  BY <1>2, HandleSealViewType
<1>5. prepare_certifier' \in [Replica -> PrepareCertifier]
  BY <1>1, <1>2 DEF PrepareCertifier
<1>6. /\ instance_states' \in [Replica -> SUBSET Proposal]
      /\ fast_committed' \in [Replica -> SUBSET (Replica \X Nat)]
      /\ committed' \in [Replica -> SUBSET (Replica \X Nat)]
  BY <1>1, <1>2
<1> QED BY <1>2, <1>3, <1>4, <1>5, <1>6 DEF TypeOK, fastVars

LEMMA PollVcStateCertificateType ==
    ASSUME TypeOK, NEW r \in Replica, NEW s \in Replica,
           PollVcStateCertificate(r, s)
    PROVE  TypeOK'
<1>1. vc \in [Replica -> ViewChange] /\ vc[r] \in ViewChange
  BY DEF TypeOK
<1> DEFINE Certs(a) ==
              IF a.view \in vc[r].ongoing
              THEN vc[r].certs \cup {[owner |-> s, commits |-> a.commits]}
              ELSE vc[r].certs
           M(a) == NewViewMessage(a.view + 1, UNION {c.commits : c \in Certs(a)})
<1>2. PICK a \in vc[r].acked[s] :
         \/ /\ vc' = [vc EXCEPT ![r].acked[s] = {}, ![r].certs = Certs(a)]
            /\ UNCHANGED <<cb, states>>
         \/ /\ broadcast(r, M(a))
            /\ vc' = [vc EXCEPT ![r].acked[s] = {}, ![r].certs = {},
                                ![r].ongoing = {}, ![r].pending = {M(a)}]
            /\ UNCHANGED states
  BY DEF PollVcStateCertificate
<1>3. a \in SerializedState
  BY <1>1 DEF ViewChange
<1>4. a.view + 1 \in Nat /\ a.commits \in SUBSET Proposal
  BY <1>3 DEF SerializedState
<1>5. Certs(a) \in SUBSET StateCertificate
  <2>1. vc[r].certs \in SUBSET StateCertificate
    BY <1>1 DEF ViewChange
  <2>2. [owner |-> s, commits |-> a.commits] \in StateCertificate
    BY <1>4 DEF StateCertificate
  <2> QED BY <2>1, <2>2
<1>6. M(a) \in NewView /\ M(a) \in Message
  <2> HIDE DEF Certs
  <2>1. UNION {c.commits : c \in Certs(a)} \in SUBSET Proposal
    BY <1>5 DEF StateCertificate
  <2> QED BY <1>4, <2>1, MessageTypes
<1>7. {} \in SUBSET SerializedState /\ {} \in SUBSET Nat
      /\ {} \in SUBSET StateCertificate /\ {M(a)} \in SUBSET NewView
  BY <1>6
<1> HIDE DEF Certs, M
<1>8. vc' \in [Replica -> ViewChange]
  <2>1. [vc EXCEPT ![r].acked[s] = {}, ![r].certs = Certs(a)] \in [Replica -> ViewChange]
    BY <1>1, <1>5, <1>7, ViewChangeUpdates
  <2>2. [vc EXCEPT ![r].acked[s] = {}, ![r].certs = {}, ![r].ongoing = {},
                   ![r].pending = {M(a)}] \in [Replica -> ViewChange]
    BY ZenonT(30), <1>1, <1>7, ViewChangeUpdates
  <2> QED BY <1>2, <2>1, <2>2
<1>9. cb' \in [Replica -> Seq(Message)]
  <2>1. CASE broadcast(r, M(a))
    BY <2>1, <1>6, BroadcastType
  <2>2. CASE UNCHANGED cb
    BY <2>2 DEF TypeOK
  <2> QED BY <1>2, <2>1, <2>2
<1>10. UNCHANGED <<states, instVars, prepare_certifier, sent, verifying,
                  buffered_commits, fastVars, proposer, log, request_log,
                  checkpoints, err>>
  BY <1>2 DEF PollVcStateCertificate
<1> QED BY <1>8, <1>9, <1>10 DEF TypeOK, instVars, fastVars

LEMMA StartViewType ==
    ASSUME TypeOK, NEW r \in Replica, StartView(r)
    PROVE  TypeOK'
<1>1. /\ vc \in [Replica -> ViewChange] /\ vc[r] \in ViewChange
      /\ states \in [Replica -> [Replica -> ReplicaState]]
      /\ proposer \in [Replica -> Proposer]
      /\ checkpoints[r] \in Checkpoints
  BY DEF TypeOK
<1> DEFINE vv(m) == validValues(m.commits)
           first == certifiedCheckpoint(r).low
           last(m) == IF vv(m) = {} THEN first
                      ELSE CHOOSE i \in {w.inst : w \in vv(m)} :
                              \A x \in vv(m) : x.inst <= i
           value(m, i) == IF \E w \in vv(m) : w.inst = i
                          THEN (CHOOSE w \in vv(m) : w.inst = i).val ELSE NoOp
           slots(m) == [k \in 1 .. (last(m) - first + 1) |->
                          [view |-> At(r), inst |-> first + k - 1,
                           val |-> value(m, first + k - 1)]]
           np(m) == IF last(m) < first THEN first ELSE last(m) + 1
<1>2. PICK m \in vc[r].pending :
         /\ last(m) < InstSpace
         /\ handleNewView(r, r, m)
         /\ vc' = [vc EXCEPT ![r].pending = {}]
         /\ proposer' = [proposer EXCEPT ![r] =
               [proposed |-> first, next_proposal |-> np(m),
                to_propose |-> slots(m)]]
  BY DEF StartView, NextProposal
<1>3. m \in NewView
  BY <1>1 DEF ViewChange
<1>4. vv(m) \in SUBSET Proposal
  BY <1>3 DEF NewView, validValues
<1>5. first \in Nat /\ At(r) \in Nat
  BY <1>1 DEF certifiedCheckpoint, Checkpoints, Checkpoint, At, ReplicaState
<1>6. last(m) \in Nat
  <2>1. CASE vv(m) = {}
    BY <1>5, <2>1
  <2>2. CASE vv(m) # {}
    <3> DEFINE T == {w.inst : w \in vv(m)}
    <3>1. T \in SUBSET Nat /\ T # {}
      BY <1>4, <2>2, ConstantsAssumption DEF Proposal, Instance
    <3>2. \A n \in T : n <= InstSpace
      BY <1>4, ConstantsAssumption DEF Proposal, Instance
    <3>3. InstSpace \in Nat
      BY ConstantsAssumption
    <3>4. PICK n \in T : \A k \in T : k <= n
      <4> HIDE DEF T
      <4> QED BY <3>1, <3>2, <3>3, NatMax
    <3>5. \A x \in vv(m) : x.inst <= n
      BY <3>4
    <3>6. (CHOOSE i \in T : \A x \in vv(m) : x.inst <= i) \in T
      <4> HIDE DEF T, vv
      <4> QED BY <3>5
    <3>7. last(m) = CHOOSE i \in T : \A x \in vv(m) : x.inst <= i
      BY <2>2
    <3> HIDE DEF T, last, vv
    <3> QED BY <3>1, <3>6, <3>7
  <2> QED BY <2>1, <2>2
<1>7. ASSUME NEW i \in Nat PROVE value(m, i) \in Batch
  <2>1. CASE \E w \in vv(m) : w.inst = i
    <3>1. (CHOOSE w \in vv(m) : w.inst = i) \in vv(m)
      <4> HIDE DEF vv
      <4> QED BY <2>1
    <3> DEFINE w == CHOOSE w \in vv(m) : w.inst = i
    <3>2. w \in Proposal
      <4> HIDE DEF vv
      <4> QED BY <1>4, <3>1
    <3>3. w.val \in Batch
      <4> HIDE DEF w
      <4> QED BY <3>2 DEF Proposal
    <3> QED BY <2>1, <3>3
  <2>2. CASE ~\E w \in vv(m) : w.inst = i
    BY <2>2 DEF Batch
  <2> QED BY <2>1, <2>2
<1> HIDE DEF first, last, value
<1>8. slots(m) \in Seq(Proposal)
  <2>0. last(m) - first + 1 \in Int
    BY <1>5, <1>6
  <2>1. ASSUME NEW k \in 1 .. (last(m) - first + 1)
        PROVE [view |-> At(r), inst |-> first + k - 1, val |-> value(m, first + k - 1)]
                 \in Proposal
    <3>1. first + k - 1 \in Nat /\ first + k - 1 <= last(m)
      BY <1>5, <1>6
    <3>2. first + k - 1 \in Instance
      BY <1>2, <1>6, <3>1, ConstantsAssumption DEF Instance
    <3>3. value(m, first + k - 1) \in Batch
      BY <3>1, <1>7
    <3> QED BY <1>5, <3>2, <3>3 DEF Proposal
  <2>2. CASE last(m) - first + 1 >= 0
    <3>1. last(m) - first + 1 \in Nat
      BY <2>0, <2>2
    <3> DEFINE n == last(m) - first + 1
               E(k) == [view |-> At(r), inst |-> first + k - 1,
                        val |-> value(m, first + k - 1)]
    <3>2. slots(m) = [k \in 1 .. n |-> E(k)]
      OBVIOUS
    <3>3. \A k \in 1 .. n : E(k) \in Proposal
      BY <2>1
    <3> HIDE DEF n, E, slots
    <3>4. n \in Nat
      BY <3>1 DEF n
    <3> QED BY <3>2, <3>3, <3>4
  <2>3. CASE last(m) - first + 1 < 0
    <3>1. 1 .. (last(m) - first + 1) = 1 .. 0
      BY <2>0, <2>3
    <3> DEFINE E(k) == [view |-> At(r), inst |-> first + k - 1,
                        val |-> value(m, first + k - 1)]
    <3>2. slots(m) = [k \in 1 .. 0 |-> E(k)]
      BY <3>1
    <3>3. \A k \in 1 .. 0 : E(k) \in Proposal
      OBVIOUS
    <3> HIDE DEF E, slots
    <3> QED BY <3>2, <3>3
  <2> QED BY <2>0, <2>2, <2>3
<1>9. proposer' \in [Replica -> Proposer]
  <2>1. np(m) \in Nat
    BY <1>5, <1>6
  <2> HIDE DEF np, slots
  <2>2. [proposed |-> first, next_proposal |-> np(m), to_propose |-> slots(m)] \in Proposer
    BY <1>5, <1>8, <2>1 DEF Proposer
  <2> QED BY <1>1, <1>2, <2>2
<1>10. vc' \in [Replica -> ViewChange]
  <2>1. {} \in SUBSET NewView
    OBVIOUS
  <2>2. [vc EXCEPT ![r].pending = {}] \in [Replica -> ViewChange]
    BY <1>1 DEF ViewChange
  <2> QED BY <1>2, <2>2
<1>11. states' \in [Replica -> [Replica -> ReplicaState]]
  <2>1. ViewStarted(states[r][r], m) \in ReplicaState
    BY <1>1, <1>3, StateTypes
  <2> QED BY <1>1, <1>2, <2>1 DEF handleNewView
<1>12. UNCHANGED <<cb, instVars, prepare_certifier, sent, verifying,
                   buffered_commits, fastVars, log, request_log, checkpoints, err>>
  BY DEF StartView
<1> QED BY <1>9, <1>10, <1>11, <1>12 DEF TypeOK, instVars, fastVars

LEMMA InitType == Init => TypeOK
<1> SUFFICES ASSUME Init PROVE TypeOK
  OBVIOUS
<1>1. states \in [Replica -> [Replica -> ReplicaState]]
  <2>1. InitState \in ReplicaState
    BY DEF InitState, ReplicaState
  <2> QED BY <2>1 DEF Init
<1>2. prepare_certifier \in [Replica -> PrepareCertifier]
  BY DEF Init, PrepareCertifier
<1>3. sent \in [Replica -> Emitted]
  BY DEF Init, Emitted
<1>4. proposer \in [Replica -> Proposer]
  BY DEF Init, Proposer
<1>5. checkpoints \in [Replica -> Checkpoints]
  BY DEF Init, Checkpoints, Checkpoint, Genesis
<1>6. vc \in [Replica -> ViewChange]
  BY DEF Init, ViewChange
<1>7. request_log \in [Replica -> SUBSET Value]
  BY ConstantsAssumption DEF Init
<1>8. /\ cb \in [Replica -> Seq(Message)]
      /\ instance_states \in [Replica -> SUBSET Proposal]
      /\ fast_committed \in [Replica -> SUBSET (Replica \X Nat)]
      /\ committed \in [Replica -> SUBSET (Replica \X Nat)]
      /\ verifying \in [Replica -> SUBSET (Replica \X Proposal)]
      /\ buffered_commits \in [Replica -> [Replica -> Seq(Proposal)]]
      /\ fast_commits \in [Replica -> Seq([view: Nat, inst: Nat])]
      /\ polled_fast \in [Replica -> [Replica -> Nat]]
      /\ log \in [Replica -> Seq(Batch)]
      /\ err \in [Replica -> Exception \cup {"ok"}]
  BY DEF Init
<1> QED BY <1>1, <1>2, <1>3, <1>4, <1>5, <1>6, <1>7, <1>8 DEF TypeOK

LEMMA NextType == TypeOK /\ [Next]_vars => TypeOK'
<1> SUFFICES ASSUME TypeOK, [Next]_vars PROVE TypeOK'
  OBVIOUS
<1>1. CASE UNCHANGED vars
  BY <1>1 DEF vars, TypeOK
<1>2. ASSUME NEW r \in Replica, Step(r) PROVE TypeOK'
  BY <1>2, PollTypes, ProposeTypes, RequestTypes, FastTypes, SlowTypes, DecideTypes,
     BroadcastCheckpointType, ChangeViewType, PollVcStateCertificateType,
     StartViewType DEF Step
<1> QED BY <1>1, <1>2 DEF Next

(* Every reachable state is well typed: no handler or poller of class       *)
(* Consensus produces an ill-formed record, message, sequence or counter,   *)
(* whatever the number of replicas, the window and the interleaving.        *)
THEOREM TypeCorrect == Spec => []TypeOK
BY InitType, NextType, PTL DEF Spec

-----------------------------------------------------------------------------
(***************************************************************************)
(* FastCommitsAreSealed, for every value of Consensus's constants: what a  *)
(* replica fast committed in a view it also committed before it sealed the *)
(* view, unless a certified checkpoint covers the instance.                *)
(*                                                                         *)
(* FastCommitsSealed is not inductive: changeView only inspects            *)
(* instance_states.  SealInv adds why that is enough, replica by replica:  *)
(* a fast commit of the current view stays in instance_states until a      *)
(* checkpoint covers it, and what is marked there as committed by the      *)
(* replica itself was broadcast in this view.                              *)
(***************************************************************************)

(* No replica's window starts above the checkpoint we hold. *)
WindowsCertified(r) ==
    \A s \in Replica : states[r][s].low <= certifiedCheckpoint(r).low

(* changeView leaves no prepare of an older view behind. *)
InCurrentView(r) ==
    /\ \A p \in prepare_certifier[r].tail : p.view = At(r)
    /\ \A p \in instance_states[r] : p.view = At(r)

(* An instance marked as committed by ourselves was, in this view. *)
OwnCommitsSent(r) ==
    \A i \in Nat : <<r, i>> \in committed[r] =>
        \E c \in Commits(r) : c.view = At(r) /\ c.inst = i

BufferedWereSent(r) ==
    \A k \in 1 .. Len(buffered_commits[r][r]) :
        buffered_commits[r][r][k] \in Commits(r)

VerifyingOthers(r) == \A w \in verifying[r] : w[1] # r

(* A fast commit of the current view is marked until a checkpoint covers it. *)
Marked(r, i) == <<r, i>> \in fast_committed[r] /\ i \in Instances(r)
FastCommitsMarked(r) ==
    \A f \in FastCommits(r) :
        /\ f.view <= At(r)
        /\ f.view = At(r) =>
              f.inst < certifiedCheckpoint(r).low \/ Marked(r, f.inst)

EarlierSealed(r) ==
    \A f \in FastCommits(r) : f.view < At(r) =>
        \/ f.inst < certifiedCheckpoint(r).low
        \/ \E p \in Commits(r) : p.view = f.view /\ p.inst = f.inst

SealInvAt(r) ==
    /\ WindowsCertified(r)
    /\ InCurrentView(r)
    /\ OwnCommitsSent(r)
    /\ BufferedWereSent(r)
    /\ VerifyingOthers(r)
    /\ FastCommitsMarked(r)
    /\ EarlierSealed(r)

SealInv == \A r \in Replica : SealInvAt(r)

-----------------------------------------------------------------------------
(* What the other replicas keep *)

(* The part of the state of q that SealInvAt(q) is about. *)
Untouched(q) ==
    /\ cb'[q] = cb[q]
    /\ states'[q] = states[q]
    /\ instance_states'[q] = instance_states[q]
    /\ fast_committed'[q] = fast_committed[q]
    /\ committed'[q] = committed[q]
    /\ prepare_certifier'[q] = prepare_certifier[q]
    /\ verifying'[q] = verifying[q]
    /\ buffered_commits'[q] = buffered_commits[q]
    /\ fast_commits'[q] = fast_commits[q]
    /\ checkpoints'[q] = checkpoints[q]

LEMMA UntouchedSealed ==
    ASSUME NEW q, SealInvAt(q), Untouched(q)
    PROVE  SealInvAt(q)'
<1>1. /\ Commits(q)' = Commits(q) /\ FastCommits(q)' = FastCommits(q)
      /\ At(q)' = At(q) /\ Instances(q)' = Instances(q)
      /\ certifiedCheckpoint(q)' = certifiedCheckpoint(q)
  BY DEF Untouched, Commits, FastCommits, Broadcast, At, Instances,
         certifiedCheckpoint
<1>2. WindowsCertified(q)'
  BY <1>1 DEF SealInvAt, WindowsCertified, Untouched
<1>3. InCurrentView(q)'
  BY <1>1 DEF SealInvAt, InCurrentView, Untouched
<1>4. OwnCommitsSent(q)'
  BY <1>1 DEF SealInvAt, OwnCommitsSent, Untouched
<1>5. BufferedWereSent(q)'
  BY <1>1 DEF SealInvAt, BufferedWereSent, Untouched
<1>6. VerifyingOthers(q)'
  BY <1>1 DEF SealInvAt, VerifyingOthers, Untouched
<1>7. FastCommitsMarked(q)'
  BY <1>1 DEF SealInvAt, FastCommitsMarked, Marked, Untouched
<1>8. EarlierSealed(q)'
  BY <1>1 DEF SealInvAt, EarlierSealed, Untouched
<1> QED BY <1>2, <1>3, <1>4, <1>5, <1>6, <1>7, <1>8 DEF SealInvAt

(* The handlers and the steps of r touch only what belongs to r. *)
LEMMA HandlersLocal ==
    ASSUME TypeOK, NEW r \in Replica, NEW q \in Replica \ {r}, NEW s \in Replica,
           NEW x
    PROVE  /\ handlePrepare(r, s, x) =>
                 Untouched(q) \/ cb'[q] # cb[q]
           /\ handleCommit(r, s, x) /\ UNCHANGED prepare_certifier =>
                 Untouched(q) \/ cb'[q] # cb[q]
           /\ handleCheckpoint(r, s, x) =>
                 states'[q] = states[q] /\ checkpoints'[q] = checkpoints[q]
           /\ handleSealView(r, s) => states'[q] = states[q]
           /\ handleNewView(r, s, x) => states'[q] = states[q]
           /\ broadcast(r, x) => cb'[q] = cb[q]
<1>1. handlePrepare(r, s, x) => Untouched(q) \/ cb'[q] # cb[q]
  BY ZenonT(30) DEF handlePrepare, Untouched, TypeOK, instVars, fastVars, tryCertifyPrepare
<1>2. handleCommit(r, s, x) /\ UNCHANGED prepare_certifier =>
         Untouched(q) \/ cb'[q] # cb[q]
  BY DEF handleCommit, Untouched, TypeOK, instVars, fastVars, verifyCommit, countCommit
<1>3. handleCheckpoint(r, s, x) =>
         states'[q] = states[q] /\ checkpoints'[q] = checkpoints[q]
  BY DEF handleCheckpoint, Adopt, TypeOK
<1>4. handleSealView(r, s) => states'[q] = states[q]
  BY DEF handleSealView, TypeOK
<1>5. handleNewView(r, s, x) => states'[q] = states[q]
  BY DEF handleNewView, TypeOK
<1>6. broadcast(r, x) => cb'[q] = cb[q]
  BY DEF broadcast, TypeOK
<1> QED BY <1>1, <1>2, <1>3, <1>4, <1>5, <1>6

LEMMA StepLocal ==
    ASSUME TypeOK, NEW r \in Replica, Step(r), NEW q \in Replica \ {r}
    PROVE  Untouched(q)
<1> USE DEF instVars, fastVars
<1>1. ASSUME NEW val \in Value, GetSlot(r, val) PROVE Untouched(q)
  BY <1>1 DEF GetSlot, Untouched
<1>2. ASSUME NEW val \in Value, AcceptRequest(r, val) PROVE Untouched(q)
  BY <1>2 DEF AcceptRequest, Untouched
<1>3. CASE Propose(r)
  BY <1>3, HandlersLocal DEF Propose
<1>4. CASE CertifyPrepare(r)
  <2>1. prepare_certifier'[q] = prepare_certifier[q]
    BY <1>4 DEF CertifyPrepare, tryCertifyPrepare, TypeOK
  <2> QED BY <1>4, <2>1 DEF CertifyPrepare, Untouched
<1>5. CASE PollPromise(r)
  <2>1. /\ prepare_certifier'[q] = prepare_certifier[q]
        /\ fast_commits'[q] = fast_commits[q]
        /\ fast_committed'[q] = fast_committed[q]
    BY SMTT(20), <1>5 DEF PollPromise, TypeOK
  <2> QED BY <1>5, <2>1 DEF PollPromise, Untouched
<1>6. CASE PollPrepareCertificate(r)
  <2>1. PICK p \in prepare_certifier[r].tail :
           /\ prepare_certifier' = [prepare_certifier EXCEPT
                 ![r].next_certificate = Index(p) + 1]
           /\ \/ UNCHANGED <<cb, states, committed, verifying, buffered_commits,
                             instance_states, fast_committed, fastVars, checkpoints>>
              \/ broadcast(r, CommitMessage(p)) /\ handleCommit(r, r, p)
    BY <1>6 DEF PollPrepareCertificate
  <2>2. prepare_certifier'[q] = prepare_certifier[q]
    BY <2>1 DEF TypeOK
  <2>3. CASE UNCHANGED <<cb, states, committed, verifying, buffered_commits,
                         instance_states, fast_committed, fastVars, checkpoints>>
    BY <2>2, <2>3 DEF Untouched
  <2>4. CASE broadcast(r, CommitMessage(p)) /\ handleCommit(r, r, p)
    <3>1. cb'[q] = cb[q]
      BY <2>4, HandlersLocal
    <3>2. /\ states'[q] = states[q] /\ committed'[q] = committed[q]
          /\ verifying'[q] = verifying[q]
          /\ buffered_commits'[q] = buffered_commits[q]
          /\ UNCHANGED <<instance_states, fast_committed, fastVars, checkpoints>>
      BY <2>4 DEF handleCommit, TypeOK, verifyCommit, countCommit
    <3> QED BY <3>1, <3>2, <2>2 DEF Untouched
  <2> QED BY <2>1, <2>3, <2>4
<1>7. CASE PollVerifiedCommit(r)
  <2>1. states'[q] = states[q]
    BY <1>7 DEF PollVerifiedCommit, TypeOK
  <2>2. verifying'[q] = verifying[q]
    BY <1>7 DEF PollVerifiedCommit, TypeOK
  <2>3. committed'[q] = committed[q]
    BY ZenonT(30), <1>7 DEF PollVerifiedCommit, countCommit, TypeOK
  <2>4. buffered_commits'[q] = buffered_commits[q]
    BY <1>7 DEF PollVerifiedCommit, countCommit, TypeOK
  <2> QED BY <1>7, <2>1, <2>2, <2>3, <2>4 DEF PollVerifiedCommit, Untouched
<1>8. CASE Decide(r)
  <2>1. checkpoints'[q] = checkpoints[q]
    BY SMTT(20), <1>8 DEF Decide, TypeOK
  <2> QED BY <1>8, <2>1 DEF Decide, Untouched
<1>9. CASE PollCheckpointCertificate(r)
  <2>1. checkpoints'[q] = checkpoints[q]
    BY <1>9 DEF PollCheckpointCertificate, Adopt, TypeOK
  <2> QED BY <1>9, <2>1 DEF PollCheckpointCertificate, Untouched
<1>10. CASE BroadcastCheckpoint(r)
  <2>1. /\ cb'[q] = cb[q] /\ states'[q] = states[q]
        /\ checkpoints'[q] = checkpoints[q]
    BY <1>10, HandlersLocal DEF BroadcastCheckpoint
  <2>2. /\ prepare_certifier'[q] = prepare_certifier[q]
        /\ instance_states'[q] = instance_states[q]
        /\ fast_committed'[q] = fast_committed[q]
        /\ committed'[q] = committed[q]
    BY <1>10 DEF BroadcastCheckpoint, TypeOK
  <2> QED BY <1>10, <2>1, <2>2 DEF BroadcastCheckpoint, Untouched
<1>11. CASE ChangeView(r)
  <2>1. cb'[q] = cb[q] /\ states'[q] = states[q]
    BY <1>11, HandlersLocal DEF ChangeView
  <2>2. /\ prepare_certifier'[q] = prepare_certifier[q]
        /\ instance_states'[q] = instance_states[q]
        /\ fast_committed'[q] = fast_committed[q]
        /\ committed'[q] = committed[q]
    BY <1>11 DEF ChangeView, TypeOK
  <2> QED BY <1>11, <2>1, <2>2 DEF ChangeView, Untouched
<1>12. CASE StartView(r)
  <2>1. states'[q] = states[q]
    BY <1>12, HandlersLocal DEF StartView
  <2> QED BY <1>12, <2>1 DEF StartView, Untouched
<1>13. ASSUME NEW s \in Replica, PollPrepare(r, s) PROVE Untouched(q)
  BY <1>13, HandlersLocal DEF PollPrepare, PollCb
<1>14. ASSUME NEW s \in Replica, PollCommit(r, s) PROVE Untouched(q)
  BY <1>14, HandlersLocal DEF PollCommit, PollCb
<1>15. ASSUME NEW s \in Replica, PollCheckpoint(r, s) PROVE Untouched(q)
  <2>1. states'[q] = states[q] /\ checkpoints'[q] = checkpoints[q]
    BY <1>15, HandlersLocal DEF PollCheckpoint
  <2> QED BY <1>15, <2>1 DEF PollCheckpoint, PollCb, Untouched
<1>16. ASSUME NEW s \in Replica, PollSealView(r, s) PROVE Untouched(q)
  <2>1. states'[q] = states[q]
    BY <1>16, HandlersLocal DEF PollSealView
  <2> QED BY <1>16, <2>1 DEF PollSealView, PollCb, Untouched
<1>17. ASSUME NEW s \in Replica, PollNewView(r, s) PROVE Untouched(q)
  <2>1. states'[q] = states[q]
    BY <1>17, HandlersLocal DEF PollNewView
  <2> QED BY <1>17, <2>1 DEF PollNewView, PollCb, Untouched
<1>18. ASSUME NEW s \in Replica, PollFastCommit(r, s) PROVE Untouched(q)
  <2>1. fast_committed'[q] = fast_committed[q]
    BY <1>18 DEF PollFastCommit, TypeOK
  <2> QED BY <1>18, <2>1 DEF PollFastCommit, Untouched
<1>19. ASSUME NEW s \in Replica, PollVcStateCertificate(r, s) PROVE Untouched(q)
  <2>1. cb'[q] = cb[q]
    BY <1>19, HandlersLocal DEF PollVcStateCertificate
  <2> QED BY <1>19, <2>1 DEF PollVcStateCertificate, Untouched
<1> QED BY <1>1, <1>2, <1>3, <1>4, <1>5, <1>6, <1>7, <1>8, <1>9, <1>10, <1>11,
           <1>12, <1>13, <1>14, <1>15, <1>16, <1>17, <1>18, <1>19 DEF Step

-----------------------------------------------------------------------------
(* Steps of r within a view *)

(* What a step of r inside a view may do: move the checkpoint up, broadcast,  *)
(* hold prepares of the view, mark its own commits once they are broadcast,  *)
(* and unmark a fast commit only below the checkpoint.                       *)
WithinView(r) ==
    LET low == certifiedCheckpoint(r)'.low IN
    /\ At(r)' = At(r)
    /\ certifiedCheckpoint(r).low <= low
    /\ \A s \in Replica : states'[r][s].low <= low
    /\ Commits(r) \subseteq Commits(r)'
    /\ \A p \in prepare_certifier'[r].tail : p.view = At(r)
    /\ \A p \in instance_states'[r] : p.view = At(r)
    /\ \A i \in Nat : <<r, i>> \in committed'[r] =>
          \/ <<r, i>> \in committed[r]
          \/ \E c \in Commits(r)' : c.view = At(r) /\ c.inst = i
    /\ BufferedWereSent(r)'
    /\ VerifyingOthers(r)'
    /\ \A f \in FastCommits(r)' :
          \/ f \in FastCommits(r)
          \/ f.view = At(r) /\ Marked(r, f.inst)'
    /\ \A i \in Nat : Marked(r, i) => i < low \/ Marked(r, i)'

FastCommit == [view: Nat, inst: Nat]

LEMMA FastCommitType ==
    ASSUME NEW r \in Replica
    PROVE  /\ TypeOK => \A f \in FastCommits(r) : f.view \in Nat /\ f.inst \in Nat
           /\ TypeOK' => \A f \in FastCommits(r)' : f.view \in Nat /\ f.inst \in Nat
<1>1. ASSUME NEW S, NEW q \in Seq(S) PROVE \A k \in 1 .. Len(q) : q[k] \in S
  OBVIOUS
<1>2. TypeOK => fast_commits[r] \in Seq(FastCommit)
  BY DEF TypeOK, FastCommit
<1>3. TypeOK' => fast_commits'[r] \in Seq(FastCommit)
  BY DEF TypeOK, FastCommit
<1>4. \A f \in FastCommit : f.view \in Nat /\ f.inst \in Nat
  BY DEF FastCommit
<1>5. TypeOK => \A f \in FastCommits(r) : f \in FastCommit
  BY <1>1, <1>2 DEF FastCommits
<1>6. TypeOK' => \A f \in FastCommits(r)' : f \in FastCommit
  BY <1>1, <1>3 DEF FastCommits
<1> QED BY <1>4, <1>5, <1>6

LEMMA CheckpointLowType ==
    ASSUME NEW r \in Replica
    PROVE  /\ TypeOK => certifiedCheckpoint(r).low \in Nat /\ At(r) \in Nat
           /\ TypeOK' => certifiedCheckpoint(r)'.low \in Nat /\ At(r)' \in Nat
<1>1. TypeOK => checkpoints[r] \in Checkpoints /\ states[r][r] \in ReplicaState
  BY DEF TypeOK
<1>2. TypeOK' => checkpoints'[r] \in Checkpoints /\ states'[r][r] \in ReplicaState
  BY DEF TypeOK
<1>3. /\ \A c \in Checkpoints : c.certified.low \in Nat
      /\ \A st \in ReplicaState : st.at_view \in Nat
  BY DEF Checkpoints, Checkpoint, ReplicaState
<1> QED BY <1>1, <1>2, <1>3 DEF certifiedCheckpoint, At

LEMMA WithinViewSealed ==
    ASSUME TypeOK, TypeOK', NEW r \in Replica, SealInvAt(r), WithinView(r)
    PROVE  SealInvAt(r)'
<1> DEFINE low == certifiedCheckpoint(r).low
           low2 == certifiedCheckpoint(r)'.low
<1>1. low \in Nat /\ low2 \in Nat /\ low <= low2 /\ At(r) \in Nat /\ At(r)' = At(r)
  BY CheckpointLowType DEF WithinView
<1>2. WindowsCertified(r)'
  BY DEF WithinView, WindowsCertified
<1>3. InCurrentView(r)'
  BY <1>1 DEF WithinView, InCurrentView
<1>4. OwnCommitsSent(r)'
  BY <1>1 DEF WithinView, OwnCommitsSent, SealInvAt
<1>5. BufferedWereSent(r)' /\ VerifyingOthers(r)'
  BY DEF WithinView
<1>6. FastCommitsMarked(r)'
  <2> SUFFICES ASSUME NEW f \in FastCommits(r)'
               PROVE  /\ f.view <= At(r)
                      /\ f.view = At(r) => f.inst < low2 \/ Marked(r, f.inst)'
    BY <1>1 DEF FastCommitsMarked
  <2>0. f.view \in Nat /\ f.inst \in Nat
    BY FastCommitType
  <2>1. CASE f \in FastCommits(r)
    <3>1. /\ f.view <= At(r)
          /\ f.view = At(r) => f.inst < low \/ Marked(r, f.inst)
      BY <2>1 DEF SealInvAt, FastCommitsMarked
    <3>2. Marked(r, f.inst) => f.inst < low2 \/ Marked(r, f.inst)'
      BY <2>0 DEF WithinView
    <3> QED BY <3>1, <3>2, <2>0, <1>1
  <2>2. CASE f.view = At(r) /\ Marked(r, f.inst)'
    BY <2>2, <1>1
  <2> QED BY <2>1, <2>2 DEF WithinView
<1>7. EarlierSealed(r)'
  <2> SUFFICES ASSUME NEW f \in FastCommits(r)', f.view < At(r)
               PROVE  \/ f.inst < low2
                      \/ \E p \in Commits(r)' : p.view = f.view /\ p.inst = f.inst
    BY <1>1 DEF EarlierSealed
  <2>1. f \in FastCommits(r)
    BY <1>1 DEF WithinView
  <2>2. f.inst \in Nat
    BY <2>1, FastCommitType
  <2>3. \/ f.inst < low
        \/ \E p \in Commits(r) : p.view = f.view /\ p.inst = f.inst
    BY <2>1 DEF SealInvAt, EarlierSealed
  <2> QED BY <2>2, <2>3, <1>1 DEF WithinView
<1> QED BY <1>2, <1>3, <1>4, <1>5, <1>6, <1>7 DEF SealInvAt

(* The broadcast log only grows. *)
LEMMA BroadcastGrows ==
    ASSUME TypeOK, NEW r \in Replica, NEW m \in Message, broadcast(r, m)
    PROVE  /\ Commits(r) \subseteq Commits(r)'
           /\ \A p : m = CommitMessage(p) => p \in Commits(r)'
<1> DEFINE q == cb[r]
           q2 == Append(q, m)
<1>1. q \in Seq(Message) /\ cb'[r] = q2
  BY DEF TypeOK, broadcast
<1>2. /\ Len(q2) = Len(q) + 1 /\ Len(q) \in Nat
      /\ \A k \in 1 .. Len(q) : q2[k] = q[k]
      /\ q2[Len(q) + 1] = m
  BY <1>1, AppendElements
<1> HIDE DEF q2
<1>3. ASSUME NEW c \in Commits(r) PROVE c \in Commits(r)'
  <2>1. PICK k \in 1 .. Len(q) : q[k].kind = "Commit" /\ c = q[k].p
    BY DEF Commits, Broadcast
  <2>2. k \in 1 .. Len(q2) /\ q2[k] = q[k]
    BY <1>2
  <2> QED BY <2>1, <2>2, <1>1 DEF Commits, Broadcast
<1>4. ASSUME NEW p, m = CommitMessage(p) PROVE p \in Commits(r)'
  <2>1. m.kind = "Commit" /\ m.p = p
    BY <1>4 DEF CommitMessage
  <2>2. Len(q2) \in 1 .. Len(q2) /\ q2[Len(q2)] = m
    BY <1>2
  <2> QED BY <2>1, <2>2, <1>1 DEF Commits, Broadcast
<1> QED BY <1>3, <1>4

LEMMA CommitsKept ==
    ASSUME NEW r
    PROVE  /\ cb' = cb => Commits(r)' = Commits(r)
           /\ fast_commits' = fast_commits => FastCommits(r)' = FastCommits(r)
BY DEF Commits, Broadcast, FastCommits

(* What the handlers do to the view and the window of a sender. *)
LEMMA StateParts ==
    ASSUME NEW st \in ReplicaState
    PROVE  /\ Received(st).at_view = st.at_view /\ Received(st).low = st.low
           /\ Verified(st).at_view = st.at_view /\ Verified(st).low = st.low
           /\ Sealed(st).at_view = st.at_view + 1 /\ Sealed(st).low = st.low
           /\ \A p : /\ Prepared(st, p).at_view = st.at_view
                     /\ Prepared(st, p).low = st.low
           /\ \A c, n : /\ Committed(st, c, n).at_view = st.at_view
                        /\ Committed(st, c, n).low = st.low
           /\ \A c : /\ Checkpointed(st, c).at_view = st.at_view
                     /\ Checkpointed(st, c).low = c.low
           /\ \A m : /\ ViewStarted(st, m).at_view = st.at_view
                     /\ ViewStarted(st, m).low = st.low
BY DEF ReplicaState, Received, Verified, Sealed, Prepared, Committed, Checkpointed,
       ViewStarted

(* The steps that leave the instances and the commits of r alone. *)
LEMMA SteadyWithinView ==
    ASSUME TypeOK, NEW r \in Replica, SealInvAt(r),
           At(r)' = At(r),
           certifiedCheckpoint(r).low <= certifiedCheckpoint(r)'.low,
           \A s \in Replica : states'[r][s].low <= certifiedCheckpoint(r)'.low,
           Commits(r) \subseteq Commits(r)',
           \A p \in prepare_certifier'[r].tail :
              p \in prepare_certifier[r].tail \cup instance_states[r],
           instance_states'[r] = instance_states[r],
           committed'[r] = committed[r],
           buffered_commits'[r] = buffered_commits[r],
           verifying'[r] = verifying[r],
           fast_commits'[r] = fast_commits[r],
           fast_committed[r] \subseteq fast_committed'[r]
    PROVE  WithinView(r)
<1>1. FastCommits(r)' = FastCommits(r)
  BY DEF FastCommits
<1>2. /\ \A p \in prepare_certifier'[r].tail : p.view = At(r)
      /\ \A p \in instance_states'[r] : p.view = At(r)
  BY DEF SealInvAt, InCurrentView
<1>3. BufferedWereSent(r)'
  BY DEF SealInvAt, BufferedWereSent
<1>4. VerifyingOthers(r)'
  BY DEF SealInvAt, VerifyingOthers
<1>5. \A i \in Nat : Marked(r, i) => Marked(r, i)'
  BY DEF Marked, Instances
<1> QED BY <1>1, <1>2, <1>3, <1>4, <1>5 DEF WithinView

(* Replacing the state of one sender. *)
LEMMA OneState ==
    ASSUME TypeOK, NEW r \in Replica, NEW s \in Replica, NEW st,
           states' = [states EXCEPT ![r][s] = st]
    PROVE  /\ states'[r][s] = st
           /\ \A t \in Replica \ {s} : states'[r][t] = states[r][t]
BY DEF TypeOK

LEMMA WindowKept ==
    ASSUME TypeOK, NEW r \in Replica, NEW s \in Replica, NEW st, SealInvAt(r),
           st.at_view = states[r][s].at_view, st.low = states[r][s].low,
           states' = [states EXCEPT ![r][s] = st]
    PROVE  /\ At(r)' = At(r)
           /\ \A t \in Replica : states'[r][t].low <= certifiedCheckpoint(r).low
<1>1. \A t \in Replica : /\ states'[r][t].low = states[r][t].low
                         /\ states'[r][t].at_view = states[r][t].at_view
  BY OneState
<1> QED BY <1>1 DEF At, SealInvAt, WindowsCertified

(* Nothing happened to the checkpoint and the windows. *)
LEMMA CheckpointKept ==
    ASSUME TypeOK, NEW r \in Replica, SealInvAt(r), checkpoints' = checkpoints
    PROVE  /\ certifiedCheckpoint(r)' = certifiedCheckpoint(r)
           /\ certifiedCheckpoint(r).low <= certifiedCheckpoint(r)'.low
           /\ states' = states =>
                 /\ At(r)' = At(r)
                 /\ \A s \in Replica :
                       states'[r][s].low <= certifiedCheckpoint(r)'.low
<1>1. certifiedCheckpoint(r)' = certifiedCheckpoint(r)
  BY DEF certifiedCheckpoint
<1>2. certifiedCheckpoint(r).low <= certifiedCheckpoint(r).low
  BY CheckpointLowType
<1> QED BY <1>1, <1>2 DEF At, SealInvAt, WindowsCertified

(* The certified checkpoint only moves up. *)
LEMMA AdoptGrows ==
    ASSUME TypeOK, NEW r \in Replica, NEW c \in Checkpoint, Adopt(r, c)
    PROVE  /\ certifiedCheckpoint(r).low <= certifiedCheckpoint(r)'.low
           /\ c.low <= certifiedCheckpoint(r)'.low
           /\ c = certifiedCheckpoint(r) =>
                 certifiedCheckpoint(r)' = certifiedCheckpoint(r)
<1>1. certifiedCheckpoint(r).low \in Nat /\ c.low \in Nat
  BY CheckpointLowType DEF Checkpoint
<1>2. checkpoints \in [Replica -> Checkpoints]
  BY DEF TypeOK
<1>3. certifiedCheckpoint(r)' =
         IF c.low <= certifiedCheckpoint(r).low THEN certifiedCheckpoint(r) ELSE c
  BY <1>2 DEF Adopt, certifiedCheckpoint, Checkpoints
<1> QED BY <1>1, <1>3

LEMMA HandleCheckpointGrows ==
    ASSUME TypeOK, NEW r \in Replica, NEW s \in Replica, NEW c \in Checkpoint,
           SealInvAt(r), handleCheckpoint(r, s, c)
    PROVE  /\ At(r)' = At(r)
           /\ certifiedCheckpoint(r).low <= certifiedCheckpoint(r)'.low
           /\ \A t \in Replica : states'[r][t].low <= certifiedCheckpoint(r)'.low
           /\ c = certifiedCheckpoint(r) =>
                 certifiedCheckpoint(r)' = certifiedCheckpoint(r)
<1>1. CASE UNCHANGED <<states, checkpoints>>
  BY <1>1, CheckpointKept
<1>2. CASE /\ states' = [states EXCEPT ![r][s] = Checkpointed(states[r][s], c)]
           /\ Adopt(r, c)
  <2>1. states[r][s] \in ReplicaState
    BY DEF TypeOK
  <2>2. /\ states'[r][s].low = c.low /\ states'[r][s].at_view = states[r][s].at_view
        /\ \A t \in Replica \ {s} : states'[r][t] = states[r][t]
    <3> DEFINE st == Checkpointed(states[r][s], c)
    <3>1. st.low = c.low /\ st.at_view = states[r][s].at_view
      BY <2>1, StateParts
    <3>2. states' = [states EXCEPT ![r][s] = st]
      BY <1>2
    <3> HIDE DEF st
    <3>3. /\ states'[r][s] = st
          /\ \A t \in Replica \ {s} : states'[r][t] = states[r][t]
      BY <3>2, OneState
    <3> QED BY <3>1, <3>3
  <2>3. At(r)' = At(r)
    BY <2>2 DEF At
  <2>4. /\ certifiedCheckpoint(r).low <= certifiedCheckpoint(r)'.low
        /\ c.low <= certifiedCheckpoint(r)'.low
        /\ c = certifiedCheckpoint(r) =>
              certifiedCheckpoint(r)' = certifiedCheckpoint(r)
        /\ certifiedCheckpoint(r).low \in Nat /\ c.low \in Nat
    BY <1>2, AdoptGrows, CheckpointLowType DEF Checkpoint
  <2>5. checkpoints' \in [Replica -> Checkpoints]
    BY HandleCheckpointType
  <2>6. certifiedCheckpoint(r)'.low \in Nat
    BY <2>5 DEF certifiedCheckpoint, Checkpoints, Checkpoint
  <2>7. ASSUME NEW t \in Replica \ {s}
        PROVE  states'[r][t].low <= certifiedCheckpoint(r)'.low
    <3>0. states[r][t] \in ReplicaState
      BY DEF TypeOK
    <3>1. states[r][t].low <= certifiedCheckpoint(r).low /\ states[r][t].low \in Nat
      BY <3>0 DEF SealInvAt, WindowsCertified, ReplicaState
    <3> QED BY <3>1, <2>2, <2>4, <2>6
  <2> QED BY <2>2, <2>3, <2>4, <2>7
<1> QED BY <1>1, <1>2 DEF handleCheckpoint

(* The application's calls, decisions, checkpoints and the view change      *)
(* messages of others.                                                      *)
LEMMA ApplicationSteady ==
    ASSUME TypeOK, TypeOK', NEW r \in Replica, SealInvAt(r),
           \/ \E val \in Value : GetSlot(r, val) \/ AcceptRequest(r, val)
           \/ CertifyPrepare(r)
           \/ Decide(r)
           \/ PollCheckpointCertificate(r)
    PROVE  WithinView(r)
<1> USE DEF instVars, fastVars
<1>0. /\ states' = states /\ cb' = cb
      /\ UNCHANGED <<instance_states, committed, buffered_commits, verifying,
                     fast_commits, fast_committed>>
  BY DEF GetSlot, AcceptRequest, CertifyPrepare, Decide, PollCheckpointCertificate
<1>1. Commits(r)' = Commits(r)
  BY <1>0, CommitsKept
<1>2. \A p \in prepare_certifier'[r].tail :
         p \in prepare_certifier[r].tail \cup instance_states[r]
  <2>1. CASE CertifyPrepare(r)
    <3>1. prepare_certifier \in [Replica -> PrepareCertifier]
      BY DEF TypeOK
    <3>2. PICK p \in instance_states[r] : tryCertifyPrepare(r, p)
      BY <2>1 DEF CertifyPrepare
    <3>3. \/ prepare_certifier' = prepare_certifier
          \/ prepare_certifier'[r].tail =
                {q \in prepare_certifier[r].tail : InTail(Index(q), Index(p))}
                  \cup {p}
      <4>1. prepare_certifier[r] \in PrepareCertifier
        BY <3>1
      <4> QED BY ZenonT(30), <3>1, <3>2, <4>1 DEF tryCertifyPrepare, PrepareCertifier
    <3> QED BY <3>2, <3>3
  <2>2. CASE prepare_certifier' = prepare_certifier
    BY <2>2
  <2> QED BY <2>1, <2>2 DEF GetSlot, AcceptRequest, Decide,
                            PollCheckpointCertificate
<1>3. /\ certifiedCheckpoint(r).low <= certifiedCheckpoint(r)'.low
  <2>1. CASE checkpoints' = checkpoints
    BY <2>1, CheckpointKept
  <2>2. CASE Decide(r)
    <3>1. certifiedCheckpoint(r)' = certifiedCheckpoint(r)
      <4>1. checkpoints \in [Replica -> Checkpoints]
        BY DEF TypeOK
      <4>2. \/ checkpoints' = checkpoints
            \/ \E c : checkpoints' = [checkpoints EXCEPT ![r].local = {c}]
        BY <2>2 DEF Decide
      <4> QED BY <4>1, <4>2 DEF certifiedCheckpoint, Checkpoints
    <3> QED BY <3>1, CheckpointLowType
  <2>3. CASE PollCheckpointCertificate(r)
    <3>1. PICK c \in checkpoints[r].local : Adopt(r, c)
      BY <2>3 DEF PollCheckpointCertificate
    <3>2. c \in Checkpoint
      BY <3>1 DEF TypeOK, Checkpoints
    <3> QED BY <3>1, <3>2, AdoptGrows
  <2> QED BY <2>1, <2>2, <2>3 DEF GetSlot, AcceptRequest, CertifyPrepare
<1>4. /\ At(r)' = At(r)
      /\ \A s \in Replica : states'[r][s].low <= certifiedCheckpoint(r)'.low
  <2>1. At(r)' = At(r)
    BY <1>0 DEF At
  <2>2. certifiedCheckpoint(r).low \in Nat /\ certifiedCheckpoint(r)'.low \in Nat
    BY CheckpointLowType
  <2>3. ASSUME NEW s \in Replica
        PROVE states'[r][s].low <= certifiedCheckpoint(r)'.low
    <3>1. states[r][s] \in ReplicaState
      BY DEF TypeOK
    <3>2. /\ states[r][s].low \in Nat
          /\ states[r][s].low <= certifiedCheckpoint(r).low
      BY <3>1 DEF ReplicaState, SealInvAt, WindowsCertified
    <3> QED BY <3>2, <2>2, <1>3, <1>0
  <2> QED BY <2>1, <2>3
<1> QED BY <1>0, <1>1, <1>2, <1>3, <1>4, SteadyWithinView

LEMMA MessagesSteady ==
    ASSUME TypeOK, TypeOK', NEW r \in Replica, NEW s \in Replica, SealInvAt(r),
           \/ PollCheckpoint(r, s) \/ PollSealView(r, s) \/ PollNewView(r, s)
           \/ PollFastCommit(r, s) \/ PollVcStateCertificate(r, s)
           \/ StartView(r)
    PROVE  WithinView(r)
<1> USE DEF instVars, fastVars
<1>0. UNCHANGED <<instance_states, committed, buffered_commits, verifying,
                  fast_commits, prepare_certifier>>
  BY DEF PollCheckpoint, PollSealView, PollNewView, PollFastCommit,
         PollVcStateCertificate, StartView, PollCb
<1>1. Commits(r) \subseteq Commits(r)'
  <2>1. CASE cb' = cb
    BY <2>1, CommitsKept
  <2>2. CASE PollVcStateCertificate(r, s) /\ cb' # cb
    <3> DEFINE Sends(a, m) ==
                  /\ m.view = a.view + 1 /\ broadcast(r, m)
                  /\ \E cs : /\ m = NewViewMessage(a.view + 1, UNION {c.commits : c \in cs})
                             /\ \/ cs = vc[r].certs
                                \/ cs = vc[r].certs \cup
                                     {[owner |-> s, commits |-> a.commits]}
    <3>0. PICK a \in vc[r].acked[s] : \E m : Sends(a, m)
      BY <2>2 DEF PollVcStateCertificate, NewViewMessage
    <3>1. PICK m : Sends(a, m)
      BY <3>0
    <3>2. vc[r].certs \in SUBSET StateCertificate /\ a \in SerializedState
      <4>1. vc[r] \in ViewChange
        BY DEF TypeOK
      <4> QED BY <4>1 DEF ViewChange
    <3>3. m \in Message
      <4>1. PICK cs : /\ m = NewViewMessage(a.view + 1, UNION {c.commits : c \in cs})
                      /\ \/ cs = vc[r].certs
                         \/ cs = vc[r].certs \cup
                              {[owner |-> s, commits |-> a.commits]}
        BY <3>1
      <4>2. cs \in SUBSET StateCertificate
        BY <4>1, <3>2 DEF StateCertificate, SerializedState
      <4>3. UNION {c.commits : c \in cs} \in SUBSET Proposal
        BY <4>2 DEF StateCertificate
      <4>4. a.view + 1 \in Nat
        BY <3>2 DEF SerializedState
      <4> QED BY <4>1, <4>3, <4>4, MessageTypes
    <3> QED BY <3>1, <3>3, BroadcastGrows
  <2> QED BY <2>1, <2>2 DEF PollCheckpoint, PollSealView, PollNewView,
                            PollFastCommit, StartView, PollCb
<1>2. fast_committed[r] \subseteq fast_committed'[r]
  <2>1. CASE PollFastCommit(r, s)
    <3>1. fast_committed \in [Replica -> SUBSET (Replica \X Nat)]
      BY DEF TypeOK
    <3> QED BY <2>1, <3>1 DEF PollFastCommit
  <2> QED BY <2>1 DEF PollCheckpoint, PollSealView, PollNewView,
                      PollVcStateCertificate, StartView, PollCb
<1>3. /\ At(r)' = At(r)
      /\ certifiedCheckpoint(r).low <= certifiedCheckpoint(r)'.low
      /\ \A t \in Replica : states'[r][t].low <= certifiedCheckpoint(r)'.low
  <2>0. states[r][s] \in ReplicaState /\ states[r][r] \in ReplicaState
    BY DEF TypeOK
  <2>1. CASE PollCheckpoint(r, s)
    <3>1. NextCb(r, s) \in Message /\ NextCb(r, s).kind = "Checkpoint"
          /\ handleCheckpoint(r, s, NextCb(r, s).c)
      BY <2>1, NextCbType DEF PollCheckpoint, PollCb
    <3>2. NextCb(r, s).c \in Checkpoint
      BY <3>1, MessageParts
    <3> QED BY <3>1, <3>2, HandleCheckpointGrows
  <2>2. CASE PollSealView(r, s)
    <3>1. s # r /\ states' = [states EXCEPT ![r][s] = Sealed(states[r][s])]
          /\ checkpoints' = checkpoints
      BY <2>2 DEF PollSealView, PollCb, handleSealView
    <3>2. /\ states'[r][r] = states[r][r]
          /\ states'[r][s].low = states[r][s].low
          /\ \A t \in Replica \ {s} : states'[r][t] = states[r][t]
      <4>1. Sealed(states[r][s]).low = states[r][s].low
        BY <2>0, StateParts
      <4>2. /\ states'[r][s] = Sealed(states[r][s])
            /\ \A t \in Replica \ {s} : states'[r][t] = states[r][t]
        BY <3>1, OneState
      <4> QED BY <3>1, <4>1, <4>2
    <3>3. At(r)' = At(r)
      BY <3>2 DEF At
    <3>4. \A t \in Replica : states'[r][t].low = states[r][t].low
      BY <3>2
    <3> QED BY <3>1, <3>3, <3>4, CheckpointKept DEF SealInvAt, WindowsCertified
  <2>3. ASSUME NEW m, NEW t \in Replica, checkpoints' = checkpoints,
               states' = [states EXCEPT ![r][t] = ViewStarted(states[r][t], m)]
        PROVE  /\ At(r)' = At(r)
               /\ certifiedCheckpoint(r).low <= certifiedCheckpoint(r)'.low
               /\ \A u \in Replica : states'[r][u].low <= certifiedCheckpoint(r)'.low
    <3> DEFINE st == ViewStarted(states[r][t], m)
    <3>1. states[r][t] \in ReplicaState
      BY DEF TypeOK
    <3>2. st.at_view = states[r][t].at_view /\ st.low = states[r][t].low
      BY <3>1, StateParts
    <3>3. states' = [states EXCEPT ![r][t] = st]
      BY <2>3
    <3> HIDE DEF st
    <3>4. /\ At(r)' = At(r)
          /\ \A u \in Replica : states'[r][u].low <= certifiedCheckpoint(r).low
      BY <3>2, <3>3, WindowKept
    <3> QED BY <3>4, <2>3, CheckpointKept
  <2>4. CASE PollNewView(r, s)
    BY <2>3, <2>4 DEF PollNewView, handleNewView
  <2>5. CASE StartView(r)
    BY <2>3, <2>5 DEF StartView, handleNewView
  <2>6. CASE PollFastCommit(r, s) \/ PollVcStateCertificate(r, s)
    <3>1. states' = states /\ checkpoints' = checkpoints
      BY <2>6 DEF PollFastCommit, PollVcStateCertificate
    <3> QED BY <3>1, CheckpointKept
  <2> QED BY <2>1, <2>2, <2>4, <2>5, <2>6
<1> QED BY <1>0, <1>1, <1>2, <1>3, SteadyWithinView

-----------------------------------------------------------------------------
(* Prepares *)

(* What the prepare handler replays comes from our own broadcasts: the      *)
(* commits left in the buffer, and those that match the prepare.            *)
LEMMA ReplayedWereSent ==
    ASSUME TypeOK, NEW r \in Replica, SealInvAt(r), NEW p \in Proposal
    PROVE  LET left == DropBelow(buffered_commits[r][r], Index(p)) IN
           /\ left \in Seq(Proposal)
           /\ \A k \in 1 .. Len(left) : left[k] \in Commits(r)
           /\ left # << >> =>
                 /\ \A k \in 1 .. Len(Tail(left)) : Tail(left)[k] \in Commits(r)
                 /\ Index(left[1]) = Index(p) =>
                       \E c \in Commits(r) : c.view = p.view /\ c.inst = p.inst
<1> DEFINE q == buffered_commits[r][r]
           left == DropBelow(q, Index(p))
<1>1. q \in Seq(Proposal)
  BY DEF TypeOK
<1>2. \A k \in 1 .. Len(q) : q[k] \in Commits(r)
  BY DEF SealInvAt, BufferedWereSent
<1>3. Index(p) \in Nat
  BY IndexType
<1>4. /\ left \in Seq(Proposal)
      /\ \A k \in 1 .. Len(left) : \E j \in 1 .. Len(q) : left[k] = q[j]
  BY <1>1, <1>3, DropBelowType
<1> HIDE DEF left, q
<1>5. \A k \in 1 .. Len(left) : left[k] \in Commits(r)
  BY <1>2, <1>4
<1>6. ASSUME left # << >>
      PROVE  \A k \in 1 .. Len(Tail(left)) : Tail(left)[k] \in Commits(r)
  <2>1. /\ Len(Tail(left)) = Len(left) - 1 /\ Len(left) \in Nat \ {0}
        /\ \A k \in 1 .. Len(Tail(left)) : Tail(left)[k] = left[k + 1]
    BY <1>4, <1>6
  <2> QED BY <2>1, <1>5
<1>7. ASSUME left # << >>, Index(left[1]) = Index(p)
      PROVE  \E c \in Commits(r) : c.view = p.view /\ c.inst = p.inst
  <2>1. 1 \in 1 .. Len(left) /\ left[1] \in Proposal
    BY <1>4, <1>7
  <2>2. left[1].view = p.view /\ left[1].inst = p.inst
    BY <2>1, <1>7, IndexInjective
  <2> QED BY <2>1, <2>2, <1>5
<1> QED BY <1>4, <1>5, <1>6, <1>7 DEF left, q

(* handlePrepare forgets only instances that a checkpoint covers: its       *)
(* sender's window ends no higher than ours.                                *)
LEMMA PrepareWithinView ==
    ASSUME TypeOK, NEW r \in Replica, SealInvAt(r), NEW s \in Replica,
           NEW p \in Proposal, handlePrepare(r, s, p),
           Commits(r) \subseteq Commits(r)'
    PROVE  WithinView(r)
<1> DEFINE useful == Index(p)
           left == [t \in Replica |-> DropBelow(buffered_commits[r][t], useful)]
           replay == {t \in Replica : left[t] # << >> /\ Index(left[t][1]) = useful}
           ignored == p.view # At(r) \/ p.inst < certifiedCheckpoint(r).low
           seen == [t \in Replica |->
                      IF t \in replay THEN Verified(states[r][t]) ELSE states[r][t]]
<1>1. UNCHANGED <<verifying, fast_commits, checkpoints>>
  BY DEF handlePrepare, fastVars
<1>2. /\ certifiedCheckpoint(r)' = certifiedCheckpoint(r)
      /\ certifiedCheckpoint(r).low <= certifiedCheckpoint(r)'.low
  BY <1>1, CheckpointKept
<1>3. FastCommits(r)' = FastCommits(r)
  BY <1>1, CommitsKept
<1>4. CASE UNCHANGED <<states, instVars, prepare_certifier, buffered_commits>>
  <2>1. /\ At(r)' = At(r)
        /\ \A t \in Replica : states'[r][t].low <= certifiedCheckpoint(r)'.low
    BY <1>1, <1>4, CheckpointKept
  <2> QED BY <1>1, <1>2, <1>4, <2>1, SteadyWithinView DEF instVars
<1>5. CASE /\ states' = [states EXCEPT ![r][s] = Received(states[r][s])]
           /\ UNCHANGED <<instVars, prepare_certifier, buffered_commits>>
  <2> DEFINE st == Received(states[r][s])
  <2>1. states[r][s] \in ReplicaState
    BY DEF TypeOK
  <2>2. st.at_view = states[r][s].at_view /\ st.low = states[r][s].low
    BY <2>1, StateParts
  <2>3. states' = [states EXCEPT ![r][s] = st]
    BY <1>5
  <2> HIDE DEF st
  <2>4. /\ At(r)' = At(r)
        /\ \A t \in Replica : states'[r][t].low <= certifiedCheckpoint(r).low
    BY <2>2, <2>3, WindowKept
  <2> QED BY <1>1, <1>2, <1>5, <2>4, SteadyWithinView DEF instVars
<1>6. CASE /\ ~ByzantinePrepare(r, s, p) /\ ~ignored
           /\ states' = [states EXCEPT ![r] = [seen EXCEPT ![s] = Prepared(seen[s], p)]]
           /\ instance_states' = [instance_states EXCEPT ![r] =
                 {q \in instance_states[r] : InTail(q.inst, p.inst)} \cup {p}]
           /\ fast_committed' = [fast_committed EXCEPT ![r] =
                 {b \in fast_committed[r] : InTail(b[2], p.inst)}]
           /\ committed' = [committed EXCEPT ![r] =
                 {b \in committed[r] : InTail(b[2], p.inst)} \cup (replay \X {p.inst})]
           /\ buffered_commits' = [buffered_commits EXCEPT ![r] =
                 [t \in Replica |-> IF t \in replay THEN Tail(left[t]) ELSE left[t]]]
           /\ tryCertifyPrepare(r, p)
  <2>0. /\ p.view = At(r) /\ p.inst \in Nat /\ p.view \in Nat
        /\ p.inst < states[r][s].low + Window
    <3>1. p.inst \in Nat /\ p.view \in Nat
      BY ConstantsAssumption DEF Proposal, Instance
    <3>2. states[r][s] \in ReplicaState
      BY DEF TypeOK
    <3>3. states[r][s].low \in Nat
      BY <3>2 DEF ReplicaState
    <3>4. p.view = At(r) /\ ~(p.inst >= High(states[r][s].low))
      BY <1>6 DEF ByzantinePrepare
    <3> QED BY <3>1, <3>3, <3>4, ConstantsAssumption DEF High
  <2>1. \A t \in Replica : /\ states'[r][t].low = states[r][t].low
                           /\ states'[r][t].at_view = states[r][t].at_view
    <3>1. \A t \in Replica : states[r][t] \in ReplicaState
      BY DEF TypeOK
    <3>2. \A t \in Replica : /\ seen[t] \in ReplicaState
                             /\ seen[t].low = states[r][t].low
                             /\ seen[t].at_view = states[r][t].at_view
      BY <3>1, StateParts, StateTypes
    <3>3. /\ Prepared(seen[s], p).low = seen[s].low
          /\ Prepared(seen[s], p).at_view = seen[s].at_view
      BY <3>2, StateParts
    <3>4. \A t \in Replica :
             states'[r][t] = IF t = s THEN Prepared(seen[s], p) ELSE seen[t]
      BY <1>6 DEF TypeOK
    <3> QED BY <3>2, <3>3, <3>4
  <2>2. At(r)' = At(r)
    BY <2>1 DEF At
  <2>3. \A t \in Replica : states'[r][t].low <= certifiedCheckpoint(r)'.low
    BY <2>1, <1>2 DEF SealInvAt, WindowsCertified
  <2>4. \A q \in prepare_certifier'[r].tail : q.view = At(r)
    <3>1. prepare_certifier \in [Replica -> PrepareCertifier]
      BY DEF TypeOK
    <3>2. prepare_certifier[r] \in PrepareCertifier
      BY <3>1
    <3>3. \/ prepare_certifier' = prepare_certifier
          \/ prepare_certifier'[r].tail =
                {q \in prepare_certifier[r].tail : InTail(Index(q), Index(p))}
                  \cup {p}
      BY ZenonT(30), <1>6, <3>1, <3>2 DEF tryCertifyPrepare, PrepareCertifier
    <3> QED BY <3>3, <2>0 DEF SealInvAt, InCurrentView
  <2>5. /\ instance_states'[r] =
              {q \in instance_states[r] : InTail(q.inst, p.inst)} \cup {p}
        /\ fast_committed'[r] = {b \in fast_committed[r] : InTail(b[2], p.inst)}
        /\ committed'[r] = {b \in committed[r] : InTail(b[2], p.inst)}
                              \cup (replay \X {p.inst})
        /\ buffered_commits'[r][r] = IF r \in replay THEN Tail(left[r]) ELSE left[r]
    BY <1>6 DEF TypeOK
  <2>6. \A q \in instance_states'[r] : q.view = At(r)
    BY <2>0, <2>5 DEF SealInvAt, InCurrentView
  <2>7. left[r] = DropBelow(buffered_commits[r][r], Index(p))
    OBVIOUS
  <2>8. /\ \A k \in 1 .. Len(left[r]) : left[r][k] \in Commits(r)
        /\ left[r] # << >> =>
              /\ \A k \in 1 .. Len(Tail(left[r])) : Tail(left[r])[k] \in Commits(r)
              /\ Index(left[r][1]) = Index(p) =>
                    \E c \in Commits(r) : c.view = p.view /\ c.inst = p.inst
    BY <2>7, ReplayedWereSent
  <2>9. r \in replay => left[r] # << >> /\ Index(left[r][1]) = Index(p)
    OBVIOUS
  <2> HIDE DEF left, replay
  <2>10. \A i \in Nat : <<r, i>> \in committed'[r] =>
            \/ <<r, i>> \in committed[r]
            \/ \E c \in Commits(r)' : c.view = At(r) /\ c.inst = i
    BY <2>0, <2>5, <2>8, <2>9
  <2>11. BufferedWereSent(r)'
    BY <2>5, <2>8, <2>9 DEF BufferedWereSent
  <2>12. VerifyingOthers(r)'
    BY <1>1 DEF SealInvAt, VerifyingOthers
  <2>13. ASSUME NEW i \in Nat, Marked(r, i)
         PROVE  i < certifiedCheckpoint(r)'.low \/ Marked(r, i)'
    <3>1. /\ states[r][s].low \in Nat /\ certifiedCheckpoint(r).low \in Nat
          /\ states[r][s].low <= certifiedCheckpoint(r).low
      <4>1. states[r][s] \in ReplicaState
        BY DEF TypeOK
      <4> QED BY <4>1, CheckpointLowType DEF ReplicaState, SealInvAt, WindowsCertified
    <3>2. CASE p.inst < i + Window
      <4>1. <<r, i>> \in fast_committed'[r]
        BY <2>5, <2>13, <3>2 DEF Marked, InTail
      <4>2. PICK q \in instance_states[r] : q.inst = i
        BY <2>13 DEF Marked, Instances
      <4>3. q \in instance_states'[r]
        BY <2>5, <4>2, <3>2 DEF InTail
      <4> QED BY <4>1, <4>2, <4>3 DEF Marked, Instances
    <3>3. CASE ~(p.inst < i + Window)
      BY <3>1, <3>3, <2>0, <1>2, ConstantsAssumption
    <3> QED BY <3>2, <3>3
  <2> QED BY <1>2, <1>3, <2>2, <2>3, <2>4, <2>6, <2>10, <2>11, <2>12, <2>13
          DEF WithinView
<1> QED BY <1>4, <1>5, <1>6 DEF handlePrepare

-----------------------------------------------------------------------------
(* Commits *)

(* Counting or buffering a commit of r's own needs it to be broadcast in    *)
(* this view; the commits of others do not matter to r.                     *)
LEMMA CountedWereSent ==
    ASSUME TypeOK, NEW r \in Replica, SealInvAt(r), NEW s \in Replica,
           NEW c \in Proposal, countCommit(r, s, c),
           Commits(r) \subseteq Commits(r)',
           s = r => c.view = At(r) /\ c \in Commits(r)'
    PROVE  /\ \A i \in Nat : <<r, i>> \in committed'[r] =>
                 \/ <<r, i>> \in committed[r]
                 \/ \E d \in Commits(r)' : d.view = At(r) /\ d.inst = i
           /\ BufferedWereSent(r)'
<1> DEFINE q == buffered_commits[r][s]
           q1 == IF Len(q) = Window THEN Tail(q) ELSE q
           q2 == Append(q1, c)
<1>0. /\ committed \in [Replica -> SUBSET (Replica \X Nat)]
      /\ buffered_commits \in [Replica -> [Replica -> Seq(Proposal)]]
  BY DEF TypeOK
<1>1. CASE /\ buffered_commits' = [buffered_commits EXCEPT ![r][s] = q2]
           /\ committed' = committed
  <2>1. q \in Seq(Proposal)
    BY <1>0
  <2>2. /\ q1 \in Seq(Proposal)
        /\ \A k \in 1 .. Len(q1) : \E j \in 1 .. Len(q) : q1[k] = q[j]
    <3>1. CASE Len(q) = Window
      <4>1. q # << >>
        BY <3>1, <2>1, ConstantsAssumption
      <4>2. /\ Tail(q) \in Seq(Proposal) /\ Len(Tail(q)) = Len(q) - 1
            /\ Len(q) \in Nat
            /\ \A k \in 1 .. Len(Tail(q)) : Tail(q)[k] = q[k + 1]
        BY <2>1, <4>1
      <4> QED BY <3>1, <4>2
    <3> QED BY <3>1, <2>1
  <2> HIDE DEF q1
  <2>3. /\ Len(q2) = Len(q1) + 1 /\ Len(q1) \in Nat
        /\ \A k \in 1 .. Len(q1) : q2[k] = q1[k]
        /\ q2[Len(q1) + 1] = c
    BY <2>2, AppendElements
  <2> HIDE DEF q2
  <2>4. BufferedWereSent(r)'
    <3>1. CASE s = r
      <4>1. buffered_commits'[r][r] = q2
        BY <1>0, <1>1, <3>1
      <4>2. \A k \in 1 .. Len(q) : q[k] \in Commits(r)'
        BY <3>1 DEF SealInvAt, BufferedWereSent
      <4>3. ASSUME NEW k \in 1 .. Len(q2) PROVE q2[k] \in Commits(r)'
        <5>1. CASE k \in 1 .. Len(q1)
          BY <5>1, <2>2, <2>3, <4>2
        <5>2. CASE k = Len(q1) + 1
          BY <5>2, <2>3, <3>1
        <5> QED BY <5>1, <5>2, <2>3
      <4> QED BY <4>1, <4>3 DEF BufferedWereSent
    <3>2. CASE s # r
      <4>1. buffered_commits'[r][r] = buffered_commits[r][r]
        BY <1>0, <1>1, <3>2
      <4> QED BY <4>1 DEF SealInvAt, BufferedWereSent
    <3> QED BY <3>1, <3>2
  <2> QED BY <1>1, <2>4
<1>2. CASE UNCHANGED <<buffered_commits, committed>>
  BY <1>2 DEF SealInvAt, BufferedWereSent
<1>3. CASE /\ committed' = [committed EXCEPT ![r] = committed[r] \cup {<<s, c.inst>>}]
           /\ UNCHANGED buffered_commits
  <2>1. committed'[r] = committed[r] \cup {<<s, c.inst>>}
    BY <1>0, <1>3
  <2>2. BufferedWereSent(r)'
    BY <1>3 DEF SealInvAt, BufferedWereSent
  <2> QED BY <2>1, <2>2
<1> QED BY <1>1, <1>2, <1>3 DEF countCommit

(* A step that only counts, buffers or verifies commits. *)
LEMMA CommitsWithinView ==
    ASSUME TypeOK, NEW r \in Replica, SealInvAt(r), NEW s \in Replica, NEW st,
           st.at_view = states[r][s].at_view, st.low = states[r][s].low,
           states' = [states EXCEPT ![r][s] = st],
           Commits(r) \subseteq Commits(r)',
           \A i \in Nat : <<r, i>> \in committed'[r] =>
                 \/ <<r, i>> \in committed[r]
                 \/ \E d \in Commits(r)' : d.view = At(r) /\ d.inst = i,
           BufferedWereSent(r)', VerifyingOthers(r)',
           UNCHANGED <<instance_states, fast_committed, fast_commits, checkpoints>>,
           prepare_certifier'[r].tail = prepare_certifier[r].tail
    PROVE  WithinView(r)
<1>1. /\ At(r)' = At(r)
      /\ \A t \in Replica : states'[r][t].low <= certifiedCheckpoint(r).low
  BY WindowKept
<1>2. /\ certifiedCheckpoint(r)' = certifiedCheckpoint(r)
      /\ certifiedCheckpoint(r).low <= certifiedCheckpoint(r)'.low
  BY CheckpointKept
<1>3. FastCommits(r)' = FastCommits(r)
  BY CommitsKept
<1>4. /\ \A p \in prepare_certifier'[r].tail : p.view = At(r)
      /\ \A p \in instance_states'[r] : p.view = At(r)
  BY DEF SealInvAt, InCurrentView
<1>5. \A i \in Nat : Marked(r, i) => Marked(r, i)'
  BY DEF Marked, Instances
<1> QED BY <1>1, <1>2, <1>3, <1>4, <1>5 DEF WithinView

(* handleCommit, for the commits of others and for our own. *)
LEMMA CommitWithinView ==
    ASSUME TypeOK, NEW r \in Replica, SealInvAt(r), NEW s \in Replica,
           NEW c \in Proposal, handleCommit(r, s, c),
           Commits(r) \subseteq Commits(r)',
           s = r => c.view = At(r) /\ c \in Commits(r)',
           prepare_certifier'[r].tail = prepare_certifier[r].tail
    PROVE  WithinView(r)
<1> DEFINE n == IF s = r \/ ~LazyVerify THEN 0 ELSE 1
           st == Committed(states[r][s], c, n)
<1>0. UNCHANGED <<instance_states, fast_committed, fast_commits, checkpoints>>
  BY DEF handleCommit, fastVars
<1>1. CASE UNCHANGED <<states, committed, verifying, buffered_commits>>
  <2>1. /\ At(r)' = At(r)
        /\ certifiedCheckpoint(r).low <= certifiedCheckpoint(r)'.low
        /\ \A t \in Replica : states'[r][t].low <= certifiedCheckpoint(r)'.low
    BY <1>0, <1>1, CheckpointKept
  <2> QED BY <1>0, <1>1, <2>1, SteadyWithinView
<1>2. CASE states' = [states EXCEPT ![r][s] = st] /\ verifyCommit(r, s, c)
  <2>1. states[r][s] \in ReplicaState
    BY DEF TypeOK
  <2>2. st.at_view = states[r][s].at_view /\ st.low = states[r][s].low
    BY <2>1, StateParts
  <2>3. states' = [states EXCEPT ![r][s] = st]
    BY <1>2
  <2> HIDE DEF st
  <2>4. CASE countCommit(r, s, c) /\ UNCHANGED verifying
    <3>1. /\ \A i \in Nat : <<r, i>> \in committed'[r] =>
                \/ <<r, i>> \in committed[r]
                \/ \E d \in Commits(r)' : d.view = At(r) /\ d.inst = i
          /\ BufferedWereSent(r)'
      BY <2>4, CountedWereSent
    <3>2. VerifyingOthers(r)'
      BY <2>4 DEF SealInvAt, VerifyingOthers
    <3> QED BY <3>1, <3>2, <2>2, <2>3, <1>0, CommitsWithinView
  <2>5. CASE /\ s # r
             /\ verifying' = [verifying EXCEPT ![r] = verifying[r] \cup {<<s, c>>}]
             /\ UNCHANGED <<committed, buffered_commits>>
    <3>1. VerifyingOthers(r)'
      BY <2>5 DEF TypeOK, SealInvAt, VerifyingOthers
    <3>2. BufferedWereSent(r)'
      BY <2>5 DEF SealInvAt, BufferedWereSent
    <3> QED BY <2>5, <3>1, <3>2, <2>2, <2>3, <1>0, CommitsWithinView
  <2> QED BY <1>2, <2>4, <2>5 DEF verifyCommit
<1> QED BY <1>1, <1>2 DEF handleCommit

(* The steps of r that prepare, commit or fast commit. *)
LEMMA ProtocolWithinView ==
    ASSUME TypeOK, NEW r \in Replica, SealInvAt(r), NEW s \in Replica,
           \/ Propose(r)
           \/ PollPrepare(r, s)
           \/ PollCommit(r, s)
           \/ PollPrepareCertificate(r)
           \/ PollVerifiedCommit(r)
    PROVE  WithinView(r)
<1>1. CASE Propose(r)
  <2> DEFINE p == Head(proposer[r].to_propose)
  <2>1. proposer[r] \in Proposer
    BY DEF TypeOK
  <2>2. proposer[r].to_propose \in Seq(Proposal)
    BY <2>1 DEF Proposer
  <2>3. p \in Proposal
    BY <1>1, <2>2 DEF Propose
  <2>4. broadcast(r, PrepareMessage(p)) /\ handlePrepare(r, r, p)
    BY <1>1 DEF Propose
  <2> HIDE DEF p
  <2>5. PrepareMessage(p) \in Message
    BY <2>3, MessageTypes
  <2>6. Commits(r) \subseteq Commits(r)'
    BY <2>4, <2>5, BroadcastGrows
  <2> QED BY <2>3, <2>4, <2>6, PrepareWithinView
<1>2. CASE PollPrepare(r, s)
  <2>1. NextCb(r, s) \in Message /\ NextCb(r, s).kind = "Prepare" /\ cb' = cb
    BY <1>2, NextCbType DEF PollPrepare, PollCb
  <2>2. NextCb(r, s).p \in Proposal
    BY <2>1, MessageParts
  <2>3. handlePrepare(r, s, NextCb(r, s).p)
    BY <1>2 DEF PollPrepare
  <2>4. Commits(r)' = Commits(r)
    BY <2>1, CommitsKept
  <2> QED BY <2>2, <2>3, <2>4, PrepareWithinView
<1>3. CASE PollCommit(r, s)
  <2>1. NextCb(r, s) \in Message /\ NextCb(r, s).kind = "Commit" /\ cb' = cb
    BY <1>3, NextCbType DEF PollCommit, PollCb
  <2>2. NextCb(r, s).p \in Proposal
    BY <2>1, MessageParts
  <2>3. /\ handleCommit(r, s, NextCb(r, s).p) /\ s # r
        /\ prepare_certifier'[r].tail = prepare_certifier[r].tail
    BY <1>3 DEF PollCommit, PollCb
  <2>4. Commits(r)' = Commits(r)
    BY <2>1, CommitsKept
  <2> QED BY <2>2, <2>3, <2>4, CommitWithinView
<1>4. CASE PollPrepareCertificate(r)
  <2>0. /\ prepare_certifier \in [Replica -> PrepareCertifier]
        /\ prepare_certifier[r] \in PrepareCertifier
    BY DEF TypeOK
  <2>1. PICK p \in prepare_certifier[r].tail :
           /\ prepare_certifier' = [prepare_certifier EXCEPT
                 ![r].next_certificate = Index(p) + 1]
           /\ \/ UNCHANGED <<cb, states, committed, verifying, buffered_commits,
                             instance_states, fast_committed, fastVars, checkpoints>>
              \/ broadcast(r, CommitMessage(p)) /\ handleCommit(r, r, p)
    BY <1>4 DEF PollPrepareCertificate
  <2>2. prepare_certifier'[r].tail = prepare_certifier[r].tail
    BY <2>0, <2>1 DEF PrepareCertifier
  <2>3. CASE UNCHANGED <<cb, states, committed, verifying, buffered_commits,
                         instance_states, fast_committed, fastVars, checkpoints>>
    <3>1. Commits(r)' = Commits(r)
      BY <2>3, CommitsKept
    <3>2. /\ At(r)' = At(r)
          /\ certifiedCheckpoint(r).low <= certifiedCheckpoint(r)'.low
          /\ \A t \in Replica : states'[r][t].low <= certifiedCheckpoint(r)'.low
      BY <2>3, CheckpointKept
    <3> QED BY <2>2, <2>3, <3>1, <3>2, SteadyWithinView DEF fastVars
  <2>4. CASE broadcast(r, CommitMessage(p)) /\ handleCommit(r, r, p)
    <3>1. p \in Proposal
      BY <2>0 DEF PrepareCertifier
    <3>2. CommitMessage(p) \in Message
      BY <3>1, MessageTypes
    <3>3. Commits(r) \subseteq Commits(r)' /\ p \in Commits(r)'
      BY <2>4, <3>2, BroadcastGrows
    <3>4. p.view = At(r)
      BY DEF SealInvAt, InCurrentView
    <3> QED BY <2>2, <2>4, <3>1, <3>3, <3>4, CommitWithinView
  <2> QED BY <2>1, <2>3, <2>4
<1>5. CASE PollVerifiedCommit(r)
  <2>1. verifying[r] \in SUBSET (Replica \X Proposal)
    BY DEF TypeOK
  <2>2. PICK w \in verifying[r] :
           /\ verifying' = [verifying EXCEPT ![r] = verifying[r] \ {w}]
           /\ states' = [states EXCEPT ![r][w[1]] = Verified(states[r][w[1]])]
           /\ countCommit(r, w[1], w[2])
    BY <1>5 DEF PollVerifiedCommit
  <2>3. w[1] \in Replica /\ w[2] \in Proposal
    BY <2>1
  <2>4. w[1] # r
    BY DEF SealInvAt, VerifyingOthers
  <2> DEFINE t == w[1]
             st == Verified(states[r][t])
  <2>5. states[r][t] \in ReplicaState
    BY <2>3 DEF TypeOK
  <2>6. st.at_view = states[r][t].at_view /\ st.low = states[r][t].low
    BY <2>5, StateParts
  <2>7. states' = [states EXCEPT ![r][t] = st] /\ countCommit(r, t, w[2])
    BY <2>2
  <2>8. /\ cb' = cb
        /\ UNCHANGED <<instance_states, fast_committed, fast_commits, checkpoints,
                       prepare_certifier>>
    BY <1>5 DEF PollVerifiedCommit, fastVars
  <2>9. Commits(r)' = Commits(r)
    BY <2>8, CommitsKept
  <2> HIDE DEF st, t
  <2>10. t \in Replica /\ t # r
    BY <2>3, <2>4 DEF t
  <2>11. /\ \A i \in Nat : <<r, i>> \in committed'[r] =>
               \/ <<r, i>> \in committed[r]
               \/ \E d \in Commits(r)' : d.view = At(r) /\ d.inst = i
         /\ BufferedWereSent(r)'
    BY <2>3, <2>7, <2>9, <2>10, CountedWereSent
  <2>12. VerifyingOthers(r)'
    BY <2>2 DEF TypeOK, SealInvAt, VerifyingOthers
  <2> QED BY <2>6, <2>7, <2>8, <2>9, <2>10, <2>11, <2>12, CommitsWithinView
<1> QED BY <1>1, <1>2, <1>3, <1>4, <1>5

(* A fast commit is marked when it is sent. *)
LEMMA PollPromiseWithinView ==
    ASSUME TypeOK, NEW r \in Replica, SealInvAt(r), PollPromise(r)
    PROVE  WithinView(r)
<1>0. /\ prepare_certifier \in [Replica -> PrepareCertifier]
      /\ prepare_certifier[r] \in PrepareCertifier
      /\ fast_commits \in [Replica -> Seq(FastCommit)]
      /\ fast_committed \in [Replica -> SUBSET (Replica \X Nat)]
  BY DEF TypeOK, FastCommit
<1>1. PICK p \in prepare_certifier[r].tail :
         /\ prepare_certifier' = [prepare_certifier EXCEPT
               ![r].next_promise = Index(p) + 1]
         /\ \/ /\ p.inst \in Instances(r)
               /\ fast_commits' = [fast_commits EXCEPT ![r] =
                     Append(fast_commits[r], [view |-> p.view, inst |-> p.inst])]
               /\ fast_committed' = [fast_committed EXCEPT ![r] =
                     fast_committed[r] \cup {<<r, p.inst>>}]
            \/ UNCHANGED <<fast_commits, fast_committed>>
  BY DEF PollPromise
<1>2. /\ cb' = cb
      /\ UNCHANGED <<states, instance_states, committed, verifying,
                     buffered_commits, checkpoints>>
  BY DEF PollPromise
<1>3. prepare_certifier'[r].tail = prepare_certifier[r].tail
  BY <1>0, <1>1 DEF PrepareCertifier
<1>4. Commits(r)' = Commits(r)
  BY <1>2, CommitsKept
<1>5. /\ At(r)' = At(r)
      /\ certifiedCheckpoint(r).low <= certifiedCheckpoint(r)'.low
      /\ \A t \in Replica : states'[r][t].low <= certifiedCheckpoint(r)'.low
  BY <1>2, CheckpointKept
<1>6. CASE UNCHANGED <<fast_commits, fast_committed>>
  BY <1>2, <1>3, <1>4, <1>5, <1>6, SteadyWithinView
<1>7. CASE /\ p.inst \in Instances(r)
           /\ fast_commits' = [fast_commits EXCEPT ![r] =
                 Append(fast_commits[r], [view |-> p.view, inst |-> p.inst])]
           /\ fast_committed' = [fast_committed EXCEPT ![r] =
                 fast_committed[r] \cup {<<r, p.inst>>}]
  <2> DEFINE q == fast_commits[r]
             f == [view |-> p.view, inst |-> p.inst]
             q2 == Append(q, f)
  <2>1. fast_commits'[r] = q2 /\ fast_committed'[r] = fast_committed[r] \cup {<<r, p.inst>>}
    BY <1>0, <1>7
  <2>2. p \in Proposal /\ p.view = At(r)
    BY <1>0 DEF PrepareCertifier, SealInvAt, InCurrentView
  <2>3. q \in Seq(FastCommit)
    BY <1>0
  <2>4. f \in FastCommit
    BY <2>2, ConstantsAssumption DEF FastCommit, Proposal, Instance
  <2>5. /\ Len(q2) = Len(q) + 1 /\ Len(q) \in Nat
        /\ \A k \in 1 .. Len(q) : q2[k] = q[k]
        /\ q2[Len(q) + 1] = f
    BY <2>3, <2>4, AppendElements
  <2> HIDE DEF q2
  <2>6. \A g \in FastCommits(r)' : g \in FastCommits(r) \/ g = f
    <3>1. ASSUME NEW k \in 1 .. Len(q2)
          PROVE  q2[k] = f \/ \E j \in 1 .. Len(q) : q2[k] = q[j]
      <4>1. k \in 1 .. Len(q) \/ k = Len(q) + 1
        BY <2>5
      <4> QED BY <4>1, <2>5
    <3> QED BY <3>1, <2>1 DEF FastCommits
  <2>7. Marked(r, p.inst)'
    BY <1>2, <1>7, <2>1 DEF Marked, Instances
  <2>8. \A g \in FastCommits(r)' :
           \/ g \in FastCommits(r)
           \/ g.view = At(r) /\ Marked(r, g.inst)'
    BY <2>2, <2>6, <2>7
  <2>9. \A i \in Nat : Marked(r, i) => Marked(r, i)'
    BY <1>2, <2>1 DEF Marked, Instances
  <2>10. /\ \A g \in prepare_certifier'[r].tail : g.view = At(r)
         /\ \A g \in instance_states'[r] : g.view = At(r)
    BY <1>2, <1>3 DEF SealInvAt, InCurrentView
  <2>11. BufferedWereSent(r)' /\ VerifyingOthers(r)'
    BY <1>2, <1>4 DEF SealInvAt, BufferedWereSent, VerifyingOthers
  <2> QED BY <1>2, <1>4, <1>5, <2>8, <2>9, <2>10, <2>11 DEF WithinView
<1> QED BY <1>1, <1>6, <1>7

(* broadcastCheckpointCertificate forgets what the checkpoint covers. *)
LEMMA BroadcastCheckpointWithinView ==
    ASSUME TypeOK, NEW r \in Replica, SealInvAt(r), BroadcastCheckpoint(r)
    PROVE  WithinView(r)
<1> DEFINE c == certifiedCheckpoint(r)
<1>0. /\ prepare_certifier \in [Replica -> PrepareCertifier]
      /\ instance_states \in [Replica -> SUBSET Proposal]
      /\ fast_committed \in [Replica -> SUBSET (Replica \X Nat)]
      /\ committed \in [Replica -> SUBSET (Replica \X Nat)]
      /\ checkpoints[r] \in Checkpoints
  BY DEF TypeOK
<1>1. /\ broadcast(r, CheckpointMessage(c)) /\ handleCheckpoint(r, r, c)
      /\ prepare_certifier' = [prepare_certifier EXCEPT ![r].tail =
            {p \in @ : Index(p) > pack(At(r), c.low - 1)}]
      /\ instance_states' = [instance_states EXCEPT ![r] = ForgetBelow(@, c.low)]
      /\ fast_committed' = [fast_committed EXCEPT ![r] = {b \in @ : b[2] >= c.low}]
      /\ committed' = [committed EXCEPT ![r] = {b \in @ : b[2] >= c.low}]
      /\ UNCHANGED <<verifying, buffered_commits, fast_commits>>
  BY DEF BroadcastCheckpoint, fastVars
<1>2. c \in Checkpoint /\ c.low \in Nat
  BY <1>0 DEF certifiedCheckpoint, Checkpoints, Checkpoint
<1>3. CheckpointMessage(c) \in Message
  BY <1>2, MessageTypes
<1>4. Commits(r) \subseteq Commits(r)'
  BY <1>1, <1>3, BroadcastGrows
<1>5. /\ At(r)' = At(r)
      /\ c.low <= certifiedCheckpoint(r)'.low
      /\ \A t \in Replica : states'[r][t].low <= certifiedCheckpoint(r)'.low
      /\ certifiedCheckpoint(r)' = c
  BY <1>1, <1>2, HandleCheckpointGrows
<1>6. prepare_certifier'[r].tail \subseteq prepare_certifier[r].tail
  <2>1. prepare_certifier[r] \in PrepareCertifier
    BY <1>0
  <2> QED BY <1>0, <1>1, <2>1 DEF PrepareCertifier
<1>7. /\ instance_states'[r] = {p \in instance_states[r] : p.inst >= c.low}
      /\ fast_committed'[r] = {b \in fast_committed[r] : b[2] >= c.low}
      /\ committed'[r] = {b \in committed[r] : b[2] >= c.low}
  BY <1>0, <1>1 DEF ForgetBelow
<1> HIDE DEF c
<1>8. FastCommits(r)' = FastCommits(r)
  BY <1>1, CommitsKept
<1>9. /\ \A p \in prepare_certifier'[r].tail : p.view = At(r)
      /\ \A p \in instance_states'[r] : p.view = At(r)
  BY <1>6, <1>7 DEF SealInvAt, InCurrentView
<1>10. BufferedWereSent(r)' /\ VerifyingOthers(r)'
  BY <1>1, <1>4 DEF SealInvAt, BufferedWereSent, VerifyingOthers
<1>11. ASSUME NEW i \in Nat, Marked(r, i)
       PROVE  i < certifiedCheckpoint(r)'.low \/ Marked(r, i)'
  <2>1. CASE i >= c.low
    <3>1. PICK p \in instance_states[r] : p.inst = i
      BY <1>11 DEF Marked, Instances
    <3>2. p \in instance_states'[r] /\ <<r, i>> \in fast_committed'[r]
      BY <1>7, <1>11, <2>1, <3>1 DEF Marked
    <3> QED BY <3>1, <3>2 DEF Marked, Instances
  <2> QED BY <2>1, <1>2, <1>5
<1>12. \A i \in Nat : <<r, i>> \in committed'[r] => <<r, i>> \in committed[r]
  BY <1>7
<1> QED BY <1>4, <1>5, <1>8, <1>9, <1>10, <1>11, <1>12 DEF WithinView, c

-----------------------------------------------------------------------------
(* Changing view *)

(* changeView waits until every marked instance is committed, so the fast   *)
(* commits of the view it leaves are sealed, and it starts the next view    *)
(* with nothing.                                                            *)
LEMMA ChangeViewSealed ==
    ASSUME TypeOK, NEW r \in Replica, SealInvAt(r), ChangeView(r)
    PROVE  SealInvAt(r)'
<1> DEFINE v == At(r)
<1>0. /\ prepare_certifier \in [Replica -> PrepareCertifier]
      /\ prepare_certifier[r] \in PrepareCertifier
      /\ states[r][r] \in ReplicaState
  BY DEF TypeOK
<1>1. /\ committed_all(r)
      /\ broadcast(r, SealViewMessage)
      /\ handleSealView(r, r)
      /\ prepare_certifier' = [prepare_certifier EXCEPT ![r].tail =
            {p \in @ : Index(p) > pack(At(r) + 1, 0)}]
      /\ instance_states'[r] = {}
      /\ committed'[r] = {}
      /\ UNCHANGED <<verifying, buffered_commits, fast_commits, checkpoints>>
  BY DEF ChangeView, fastVars, TypeOK
<1>2. v \in Nat /\ certifiedCheckpoint(r).low \in Nat
  BY CheckpointLowType
<1>3. Commits(r) \subseteq Commits(r)'
  BY <1>1, MessageTypes, BroadcastGrows
<1>4. FastCommits(r)' = FastCommits(r)
      /\ certifiedCheckpoint(r)' = certifiedCheckpoint(r)
  BY <1>1, CommitsKept DEF certifiedCheckpoint
<1>5. /\ At(r)' = v + 1
      /\ \A t \in Replica : states'[r][t].low = states[r][t].low
  <2> DEFINE st == Sealed(states[r][r])
  <2>1. st.at_view = v + 1 /\ st.low = states[r][r].low
    BY <1>0, StateParts DEF At
  <2>2. states' = [states EXCEPT ![r][r] = st]
    BY <1>1 DEF handleSealView
  <2> HIDE DEF st
  <2>3. /\ states'[r][r] = st
        /\ \A t \in Replica \ {r} : states'[r][t] = states[r][t]
    BY <2>2, OneState
  <2> QED BY <2>1, <2>3 DEF At
<1>6. prepare_certifier'[r].tail = {}
  <2>1. prepare_certifier'[r].tail =
           {p \in prepare_certifier[r].tail : Index(p) > pack(v + 1, 0)}
    BY <1>0, <1>1 DEF PrepareCertifier
  <2>2. pack(v + 1, 0) = (v + 1) * InstSpace
    <3>1. 0 % InstSpace = 0 /\ (v + 1) * InstSpace \in Nat
      BY <1>2, ConstantsAssumption
    <3> QED BY <3>1 DEF pack
  <2>3. ASSUME NEW p \in prepare_certifier[r].tail
        PROVE  ~(Index(p) > pack(v + 1, 0))
    <3>1. p \in Proposal /\ p.view = v
      BY <1>0 DEF PrepareCertifier, SealInvAt, InCurrentView
    <3>2. v + 1 \in Nat /\ p.view < v + 1
      BY <1>2, <3>1
    <3>3. Index(p) < (v + 1) * InstSpace /\ Index(p) \in Nat
      BY <3>1, <3>2, ViewOrder, IndexType
    <3>4. (v + 1) * InstSpace \in Nat
      BY <3>2, ConstantsAssumption
    <3> QED BY <3>3, <3>4, <2>2
  <2> QED BY <2>1, <2>3
<1>7. WindowsCertified(r)'
  BY <1>4, <1>5 DEF SealInvAt, WindowsCertified
<1>8. InCurrentView(r)' /\ OwnCommitsSent(r)'
  BY <1>1, <1>6 DEF InCurrentView, OwnCommitsSent
<1>9. BufferedWereSent(r)' /\ VerifyingOthers(r)'
  BY <1>1, <1>3 DEF SealInvAt, BufferedWereSent, VerifyingOthers
<1>10. \A f \in FastCommits(r) : f.view \in Nat /\ f.inst \in Nat /\ f.view <= v
  BY FastCommitType DEF SealInvAt, FastCommitsMarked
<1>11. FastCommitsMarked(r)'
  <2> SUFFICES ASSUME NEW f \in FastCommits(r)
               PROVE  f.view <= v + 1 /\ f.view # v + 1
    BY <1>4, <1>5 DEF FastCommitsMarked
  <2> QED BY <1>2, <1>10
<1>12. EarlierSealed(r)'
  <2> SUFFICES ASSUME NEW f \in FastCommits(r)
               PROVE  \/ f.inst < certifiedCheckpoint(r).low
                      \/ \E p \in Commits(r)' : p.view = f.view /\ p.inst = f.inst
    BY <1>4 DEF EarlierSealed
  <2>1. CASE f.view < v
    BY <2>1, <1>3 DEF SealInvAt, EarlierSealed
  <2>2. CASE f.view = v
    <3>1. f.inst < certifiedCheckpoint(r).low \/ Marked(r, f.inst)
      BY <2>2 DEF SealInvAt, FastCommitsMarked
    <3>2. Marked(r, f.inst) => <<r, f.inst>> \in committed[r]
      BY <1>1 DEF Marked, committed_all
    <3>3. <<r, f.inst>> \in committed[r] =>
             \E p \in Commits(r) : p.view = v /\ p.inst = f.inst
      BY <1>10 DEF SealInvAt, OwnCommitsSent
    <3> QED BY <2>2, <3>1, <3>2, <3>3, <1>3
  <2> QED BY <2>1, <2>2, <1>2, <1>10
<1> QED BY <1>7, <1>8, <1>9, <1>11, <1>12 DEF SealInvAt

-----------------------------------------------------------------------------
(* The invariant *)

LEMMA InitSealed == Init => SealInv
<1> SUFFICES ASSUME Init, NEW r \in Replica PROVE SealInvAt(r)
  BY DEF SealInv
<1>1. /\ states[r] = [s \in Replica |-> InitState]
      /\ cb[r] = << >> /\ fast_commits[r] = << >>
      /\ instance_states[r] = {} /\ committed[r] = {} /\ verifying[r] = {}
      /\ buffered_commits[r][r] = << >>
      /\ certifiedCheckpoint(r).low = 0
      /\ prepare_certifier[r].tail = {}
  BY DEF Init, certifiedCheckpoint, Genesis
<1>2. FastCommits(r) = {}
  BY <1>1 DEF FastCommits
<1>3. \A s \in Replica : states[r][s].low = 0
  BY <1>1 DEF InitState
<1>4. WindowsCertified(r)
  BY <1>1, <1>3 DEF WindowsCertified
<1>5. BufferedWereSent(r)
  BY <1>1 DEF BufferedWereSent
<1> QED BY <1>1, <1>2, <1>4, <1>5
        DEF SealInvAt, InCurrentView, OwnCommitsSent, VerifyingOthers,
            FastCommitsMarked, EarlierSealed

LEMMA NextSealed ==
    ASSUME TypeOK, TypeOK', SealInv, Next
    PROVE  SealInv'
<1>1. PICK r \in Replica : Step(r)
  BY DEF Next
<1>2. ASSUME NEW q \in Replica \ {r} PROVE SealInvAt(q)'
  <2>1. SealInvAt(q)
    BY DEF SealInv
  <2> QED BY <1>1, <1>2, <2>1, StepLocal, UntouchedSealed
<1>3. SealInvAt(r)'
  <2>0. SealInvAt(r)
    BY DEF SealInv
  <2>1. CASE \/ \E val \in Value : GetSlot(r, val) \/ AcceptRequest(r, val)
             \/ CertifyPrepare(r) \/ Decide(r) \/ PollCheckpointCertificate(r)
    BY <2>0, <2>1, ApplicationSteady, WithinViewSealed
  <2>2. ASSUME NEW s \in Replica,
               \/ PollCheckpoint(r, s) \/ PollSealView(r, s) \/ PollNewView(r, s)
               \/ PollFastCommit(r, s) \/ PollVcStateCertificate(r, s)
               \/ StartView(r)
        PROVE  SealInvAt(r)'
    BY <2>0, <2>2, MessagesSteady, WithinViewSealed
  <2>3. ASSUME NEW s \in Replica,
               \/ Propose(r) \/ PollPrepare(r, s) \/ PollCommit(r, s)
               \/ PollPrepareCertificate(r) \/ PollVerifiedCommit(r)
        PROVE  SealInvAt(r)'
    BY <2>0, <2>3, ProtocolWithinView, WithinViewSealed
  <2>4. CASE PollPromise(r)
    BY <2>0, <2>4, PollPromiseWithinView, WithinViewSealed
  <2>5. CASE BroadcastCheckpoint(r)
    BY <2>0, <2>5, BroadcastCheckpointWithinView, WithinViewSealed
  <2>6. CASE ChangeView(r)
    BY <2>0, <2>6, ChangeViewSealed
  <2> QED BY <1>1, <2>1, <2>2, <2>3, <2>4, <2>5, <2>6 DEF Step
<1> QED BY <1>2, <1>3 DEF SealInv

LEMMA AlwaysSealed == Spec => []SealInv
<1>1. Init => SealInv
  BY InitSealed
<1>2. TypeOK /\ TypeOK' /\ SealInv /\ [Next]_vars => SealInv'
  <2>1. ASSUME TypeOK, TypeOK', SealInv, Next PROVE SealInv'
    BY <2>1, NextSealed
  <2>2. ASSUME SealInv, UNCHANGED vars PROVE SealInv'
    <3>1. \A q \in Replica : Untouched(q)
      BY <2>2 DEF vars, Untouched
    <3> QED BY <2>2, <3>1, UntouchedSealed DEF SealInv
  <2> QED BY <2>1, <2>2
<1> QED BY <1>1, <1>2, TypeCorrect, PTL DEF Spec

LEMMA SealInvSuffices == SealInv => FastCommitsSealed
BY DEF SealInv, SealInvAt, EarlierSealed, FastCommitsSealed

(* In every view, with any number of replicas and any window: what a        *)
(* replica fast committed (pollPrepareCertificatePromises) in a view that   *)
(* it has left it also committed in that view, or a certified checkpoint    *)
(* covers it.  So the state that the other replicas certify when they       *)
(* handle its SealView shows the next leader everything it fast committed.  *)
THEOREM FastCommitsAreSealed == Spec => []FastCommitsSealed
BY AlwaysSealed, SealInvSuffices, PTL
=============================================================================
