--------------------------- MODULE DecisionProofs ---------------------------
(***************************************************************************)
(* What view changes keep and what replicas decide, for every value of     *)
(* Consensus's constants, in four parts, each of which uses those before:  *)
(* a leader proposes once per instance and view; replicas that handled the *)
(* same broadcasts of a sender keep the same of it; chosen values survive; *)
(* and the decisions implement the replicated log.                         *)
(***************************************************************************)
EXTENDS ConsensusProofs, FiniteSetTheorems, MCConsensus


(***************************************************************************)
(* OneProposalPerView, for every value of Consensus's constants: no leader *)
(* ever broadcasts two prepares for an instance of its view.               *)
(*                                                                         *)
(* OneProposal is not inductive: StartView starts again at the certified   *)
(* checkpoint, so it must not run twice for a view, although a SealView    *)
(* that arrives late makes the leader collect certificates for a view that *)
(* it started already.  LeaderInv says why it cannot: a NewView consumes   *)
(* the certified states of a quorum, none of which is ever acknowledged    *)
(* again for that view, and the replicas left are no quorum.               *)
(***************************************************************************)

(* The replicas whose state at the end of view v (or of an earlier one) r   *)
(* will never poll again: they sealed v, and nothing of v waits.            *)
Consumed(r, v) ==
    {s \in Replica : /\ states[r][s].at_view > v
                     /\ \A a \in vc[r].acked[s] : a.view > v}

(* No NewView for view v + 1 or an earlier one can be sent any more. *)
Closed(r, v) ==
    \E Q \in SUBSET Consumed(r, v) :
        /\ Cardinality(Q) >= Quorum
        /\ \A w \in vc[r].ongoing : w <= v => \A c \in vc[r].certs : c.owner \notin Q

(* What r acknowledged of s was sealed by s. *)
AckedSealed(r) ==
    \A s \in Replica : \A a \in vc[r].acked[s] : a.view < states[r][s].at_view

(* At most one view change at a time, with one certificate per replica,     *)
(* which is consumed by it.                                                 *)
Collecting(r) ==
    /\ Cardinality(vc[r].certs) < Quorum
    /\ \A v, w \in vc[r].ongoing : v = w
    /\ \A c, d \in vc[r].certs : c.owner = d.owner => c = d
    /\ \A v \in vc[r].ongoing : /\ leader(v + 1) = r
                                /\ \A c \in vc[r].certs : c.owner \in Consumed(r, v)

(* A NewView that waits for r to reach its view is the only one, and later  *)
(* than all that r prepared.                                                *)
Announced(r) ==
    \A m \in vc[r].pending :
        /\ \A n \in vc[r].pending : m = n
        /\ \A p \in Prepares(r) : p.view < m.view
        /\ m.view > 0 /\ Closed(r, m.view - 1)

(* What r holds to propose is of its view, when it leads the view and no    *)
(* view change is under way.                                                *)
Leading(r) ==
    leader(At(r)) = r =>
        \/ \E v \in vc[r].ongoing : v + 1 >= At(r)
        \/ \E m \in vc[r].pending : m.view >= At(r)
        \/ /\ At(r) = 0 \/ Closed(r, At(r) - 1)
           /\ \A k \in 1 .. Len(proposer[r].to_propose) :
                 proposer[r].to_propose[k].view = At(r)

(* Slots are consecutive, above what r prepared in its view. *)
Slots(r) ==
    LET pr == proposer[r] IN
    /\ pr.next_proposal = pr.proposed + Len(pr.to_propose)
    /\ \A k \in 1 .. Len(pr.to_propose) : pr.to_propose[k].inst = pr.proposed + k - 1
    /\ \A p \in Prepares(r) : p.view = At(r) => p.inst < pr.proposed

(* What r prepared: one batch per instance, in views it led and closed. *)
Prepared1(r) ==
    /\ \A p \in Prepares(r) : /\ leader(p.view) = r /\ p.view <= At(r)
                              /\ p.view = 0 \/ Closed(r, p.view - 1)
    /\ \A p, q \in Prepares(r) : p.view = q.view /\ p.inst = q.inst => p = q

LeaderInvAt(r) ==
    /\ AckedSealed(r) /\ Collecting(r) /\ Announced(r) /\ Leading(r)
    /\ Slots(r) /\ Prepared1(r)
LeaderInv == \A r \in Replica : LeaderInvAt(r)

-----------------------------------------------------------------------------
(* Quorums and broadcasts *)

LEMMA ReplicasFinite ==
    /\ IsFiniteSet(Replica) /\ Cardinality(Replica) = N
    /\ Quorum \in Nat /\ 2 * Quorum > N /\ N \in Nat
<1>1. N \in Nat /\ 0 \in Int /\ N - 1 \in Int
  BY ConstantsAssumption
<1>2. /\ IsFiniteSet(0 .. N - 1)
      /\ Cardinality(0 .. N - 1) = IF 0 > N - 1 THEN 0 ELSE (N - 1) - 0 + 1
  BY <1>1, FS_Interval
<1>3. N > 0
  BY ConstantsAssumption
<1> QED BY <1>1, <1>2, <1>3 DEF Replica, Quorum

LEMMA NoneIsNoQuorum == Cardinality({}) < Quorum
<1>1. Cardinality({}) = 0
  BY FS_EmptySet
<1> QED BY <1>1, ConstantsAssumption DEF Quorum

(* Two sets of replicas with a quorum each have one in common. *)
LEMMA QuorumsMeet ==
    ASSUME NEW P \in SUBSET Replica, NEW Q \in SUBSET Replica,
           Cardinality(P) >= Quorum, Cardinality(Q) >= Quorum
    PROVE  P \cap Q # {}
<1>1. /\ IsFiniteSet(P) /\ IsFiniteSet(Q)
      /\ Cardinality(P) \in Nat /\ Cardinality(Q) \in Nat
  BY ReplicasFinite, FS_Subset, FS_CardinalityType
<1>2. Cardinality(P) + Cardinality(Q) > Cardinality(Replica)
  BY <1>1, ReplicasFinite
<1> QED BY <1>1, <1>2, ReplicasFinite, FS_MajoritiesIntersect

(* What r broadcast of a kind grows by what it broadcasts. *)
LEMMA BroadcastAdds ==
    ASSUME TypeOK, NEW r \in Replica, NEW m \in Message, broadcast(r, m), NEW kind
    PROVE  Broadcast(r, kind)' =
              IF m.kind = kind THEN Broadcast(r, kind) \cup {m} ELSE Broadcast(r, kind)
<1> DEFINE q == cb[r]
           q2 == Append(q, m)
<1>1. q \in Seq(Message) /\ cb'[r] = q2
  BY DEF TypeOK, broadcast
<1>2. /\ Len(q2) = Len(q) + 1 /\ Len(q) \in Nat
      /\ \A k \in 1 .. Len(q) : q2[k] = q[k]
      /\ q2[Len(q) + 1] = m
  BY <1>1, AppendElements
<1> HIDE DEF q2
<1>3. {q2[k] : k \in 1 .. Len(q2)} = {q[k] : k \in 1 .. Len(q)} \cup {m}
  <2>1. ASSUME NEW k \in 1 .. Len(q2) PROVE q2[k] \in {q[j] : j \in 1 .. Len(q)} \cup {m}
    <3>1. k \in 1 .. Len(q) \/ k = Len(q) + 1
      BY <1>2
    <3> QED BY <3>1, <1>2
  <2>2. ASSUME NEW k \in 1 .. Len(q) PROVE q[k] \in {q2[j] : j \in 1 .. Len(q2)}
    <3>1. k \in 1 .. Len(q2)
      BY <1>2
    <3> QED BY <3>1, <1>2
  <2>3. m \in {q2[j] : j \in 1 .. Len(q2)}
    <3>1. Len(q2) \in 1 .. Len(q2) /\ q2[Len(q2)] = m
      BY <1>2
    <3> QED BY <3>1
  <2> QED BY <2>1, <2>2, <2>3
<1> QED BY <1>1, <1>3 DEF Broadcast

LEMMA PreparesAdd ==
    ASSUME TypeOK, NEW r \in Replica, NEW m \in Message, broadcast(r, m)
    PROVE  /\ m.kind # "Prepare" => Prepares(r)' = Prepares(r)
           /\ \A p : m = PrepareMessage(p) => Prepares(r)' = Prepares(r) \cup {p}
<1>1. Broadcast(r, "Prepare")' = IF m.kind = "Prepare"
                                 THEN Broadcast(r, "Prepare") \cup {m}
                                 ELSE Broadcast(r, "Prepare")
  BY BroadcastAdds
<1>2. \A p : PrepareMessage(p).kind = "Prepare" /\ PrepareMessage(p).p = p
  BY DEF PrepareMessage
<1>3. m.kind # "Prepare" => Prepares(r)' = Prepares(r)
  BY <1>1 DEF Prepares
<1>4. ASSUME NEW p, m = PrepareMessage(p)
      PROVE  Prepares(r)' = Prepares(r) \cup {p}
  <2>1. Broadcast(r, "Prepare")' = Broadcast(r, "Prepare") \cup {m} /\ m.p = p
    BY <1>1, <1>2, <1>4
  <2> QED BY <2>1 DEF Prepares
<1> QED BY <1>3, <1>4

LEMMA PreparesType ==
    ASSUME NEW r \in Replica
    PROVE  TypeOK => Prepares(r) \in SUBSET Proposal
<1> SUFFICES ASSUME TypeOK, NEW p \in Prepares(r) PROVE p \in Proposal
  OBVIOUS
<1>1. PICK k \in 1 .. Len(cb[r]) : cb[r][k].kind = "Prepare" /\ p = cb[r][k].p
  BY DEF Prepares, Broadcast
<1>2. cb[r] \in Seq(Message)
  BY DEF TypeOK
<1>3. cb[r][k] \in Message
  BY <1>2
<1> QED BY <1>1, <1>3, MessageParts

-----------------------------------------------------------------------------
(* What the leader's part of the state may do in a step *)

Views(r) == [s \in Replica |-> states[r][s].at_view]

LeaderSame(r) ==
    /\ Prepares(r)' = Prepares(r)
    /\ proposer'[r] = proposer[r]
    /\ vc'[r] = vc[r]
    /\ Views(r)' = Views(r)

(* The proofs below see the leader's part only through these facts. *)
LEMMA LeaderTypes ==
    ASSUME TypeOK, NEW r \in Replica
    PROVE  /\ \A s \in Replica : states[r][s].at_view \in Nat
           /\ At(r) \in Nat
           /\ \A s \in Replica : vc[r].acked[s] \in SUBSET SerializedState
           /\ \A s \in Replica : \A a \in vc[r].acked[s] : a.view \in Nat
           /\ vc[r].ongoing \in SUBSET Nat
           /\ vc[r].certs \in SUBSET StateCertificate
           /\ vc[r].pending \in SUBSET NewView
           /\ \A m \in vc[r].pending : m.view \in Nat
           /\ \A c \in vc[r].certs : c.owner \in Replica
           /\ proposer[r].proposed \in Nat /\ proposer[r].next_proposal \in Nat
           /\ proposer[r].to_propose \in Seq(Proposal)
<1>1. /\ \A s \in Replica : states[r][s] \in ReplicaState
      /\ vc[r] \in ViewChange /\ proposer[r] \in Proposer
  BY DEF TypeOK
<1>2. \A s \in Replica : states[r][s].at_view \in Nat
  BY <1>1 DEF ReplicaState
<1>3. /\ \A s \in Replica : vc[r].acked[s] \in SUBSET SerializedState
      /\ vc[r].ongoing \in SUBSET Nat /\ vc[r].certs \in SUBSET StateCertificate
      /\ vc[r].pending \in SUBSET NewView
  BY <1>1 DEF ViewChange
<1>4. /\ \A s \in Replica : \A a \in vc[r].acked[s] : a.view \in Nat
      /\ \A m \in vc[r].pending : m.view \in Nat
      /\ \A c \in vc[r].certs : c.owner \in Replica
  BY <1>3 DEF SerializedState, NewView, StateCertificate
<1>5. /\ proposer[r].proposed \in Nat /\ proposer[r].next_proposal \in Nat
      /\ proposer[r].to_propose \in Seq(Proposal)
  BY <1>1 DEF Proposer
<1> QED BY <1>2, <1>3, <1>4, <1>5 DEF At

LEMMA SameKept ==
    ASSUME NEW r \in Replica, LeaderInvAt(r), LeaderSame(r)
    PROVE  LeaderInvAt(r)'
<1>1. /\ \A s \in Replica : states'[r][s].at_view = states[r][s].at_view
      /\ At(r)' = At(r)
  <2>1. \A s \in Replica : Views(r)'[s] = Views(r)[s]
    BY DEF LeaderSame
  <2> QED BY <2>1 DEF Views, At
<1>2. \A v : Consumed(r, v)' = Consumed(r, v)
  BY <1>1 DEF Consumed, LeaderSame
<1>3. \A v : Closed(r, v)' = Closed(r, v)
  BY <1>2 DEF Closed, LeaderSame
<1>4. AckedSealed(r)' /\ Collecting(r)'
  BY <1>1, <1>2 DEF LeaderInvAt, LeaderSame, AckedSealed, Collecting
<1>5. Announced(r)' /\ Prepared1(r)'
  BY <1>1, <1>3 DEF LeaderInvAt, LeaderSame, Announced, Prepared1
<1>6. Leading(r)' /\ Slots(r)'
  BY <1>1, <1>3 DEF LeaderInvAt, LeaderSame, Leading, Slots
<1> QED BY <1>4, <1>5, <1>6 DEF LeaderInvAt

(* What stays when nothing is prepared, slotted or announced, and views and *)
(* closed views only grow.                                                  *)
LEMMA GrowthKept ==
    ASSUME TypeOK, NEW r \in Replica, LeaderInvAt(r),
           Prepares(r)' = Prepares(r), proposer'[r] = proposer[r],
           vc'[r].pending = vc[r].pending,
           At(r)' \in Nat, At(r)' >= At(r),
           \A v \in Nat : Closed(r, v) => Closed(r, v)'
    PROVE  Announced(r)' /\ Prepared1(r)' /\ Slots(r)'
<1>1. At(r) \in Nat /\ \A m \in vc[r].pending : m.view \in Nat
  BY LeaderTypes
<1>2. ASSUME NEW m \in vc[r].pending
      PROVE  Closed(r, m.view - 1)' /\ m.view > 0
  <2>1. m.view > 0 /\ Closed(r, m.view - 1) /\ m.view \in Nat
    BY <1>1 DEF LeaderInvAt, Announced
  <2>2. m.view - 1 \in Nat
    BY <2>1
  <2> QED BY <2>1, <2>2
<1>3. Announced(r)'
  BY <1>2 DEF LeaderInvAt, Announced
<1>4. ASSUME NEW p \in Prepares(r)
      PROVE  /\ leader(p.view) = r /\ p.view <= At(r)' /\ p.view <= At(r)
             /\ p.view = 0 \/ Closed(r, p.view - 1)'
             /\ p.view \in Nat
  <2>1. /\ leader(p.view) = r /\ p.view <= At(r)
        /\ p.view = 0 \/ Closed(r, p.view - 1)
    BY DEF LeaderInvAt, Prepared1
  <2>2. p.view \in Nat
    BY PreparesType DEF Proposal
  <2>3. p.view # 0 => p.view - 1 \in Nat
    BY <2>2
  <2>4. p.view <= At(r)'
    BY <2>1, <2>2, <1>1
  <2> QED BY <2>1, <2>2, <2>3, <2>4
<1>5. Prepared1(r)'
  BY <1>4 DEF LeaderInvAt, Prepared1
<1>6. \A p \in Prepares(r) : p.view = At(r)' => p.inst < proposer[r].proposed
  <2>1. ASSUME NEW p \in Prepares(r), p.view = At(r)' PROVE p.view = At(r)
    BY <2>1, <1>4, <1>1
  <2> QED BY <2>1 DEF LeaderInvAt, Slots
<1>7. Slots(r)'
  BY <1>6 DEF LeaderInvAt, Slots
<1> QED BY <1>3, <1>5, <1>7

(* handleSealView, as far as the leader's part goes. *)
Starts(r, v) == leader(v + 1) = r /\ \A w \in vc[r].ongoing : w < v
SealStep(r, s, a) ==
    LET v == states[r][s].at_view IN
    /\ Prepares(r)' = Prepares(r)
    /\ proposer'[r] = proposer[r]
    /\ states'[r][s].at_view = v + 1
    /\ \A t \in Replica \ {s} : states'[r][t].at_view = states[r][t].at_view
    /\ a.view = v
    /\ vc'[r].acked[s] = {a}
    /\ \A t \in Replica \ {s} : vc'[r].acked[t] = vc[r].acked[t]
    /\ vc'[r].pending = vc[r].pending
    /\ vc'[r].ongoing = IF Starts(r, v) THEN {v} ELSE vc[r].ongoing
    /\ vc'[r].certs = IF Starts(r, v) THEN {} ELSE vc[r].certs

LEMMA SealKept ==
    ASSUME TypeOK, NEW r \in Replica, NEW s \in Replica, NEW a, LeaderInvAt(r),
           SealStep(r, s, a)
    PROVE  LeaderInvAt(r)'
<1> DEFINE v == states[r][s].at_view
<1>1. /\ v \in Nat /\ At(r) \in Nat /\ vc[r].ongoing \in SUBSET Nat
      /\ \A t \in Replica : states[r][t].at_view \in Nat
  BY LeaderTypes
<1>2. /\ Prepares(r)' = Prepares(r)
      /\ proposer'[r] = proposer[r]
      /\ states'[r][s].at_view = v + 1
      /\ \A t \in Replica \ {s} : states'[r][t].at_view = states[r][t].at_view
      /\ a.view = v
      /\ vc'[r].acked[s] = {a}
      /\ \A t \in Replica \ {s} : vc'[r].acked[t] = vc[r].acked[t]
      /\ vc'[r].pending = vc[r].pending
  BY DEF SealStep
<1>3. /\ Starts(r, v) => vc'[r].ongoing = {v} /\ vc'[r].certs = {}
      /\ ~Starts(r, v) => vc'[r].ongoing = vc[r].ongoing /\ vc'[r].certs = vc[r].certs
  BY DEF SealStep
<1>4. ASSUME NEW w \in Nat PROVE Consumed(r, w) \subseteq Consumed(r, w)'
  <2>1. ASSUME NEW t \in Consumed(r, w) PROVE t \in Consumed(r, w)'
    <3>1. t \in Replica /\ states[r][t].at_view > w
      BY DEF Consumed
    <3>2. CASE t # s
      BY <3>2, <1>2 DEF Consumed
    <3>3. CASE t = s
      BY <3>1, <3>3, <1>1, <1>2 DEF Consumed
    <3> QED BY <3>2, <3>3
  <2> QED BY <2>1
<1>5. ASSUME NEW w \in Nat, Closed(r, w) PROVE Closed(r, w)'
  <2>1. PICK Q \in SUBSET Consumed(r, w) :
           /\ Cardinality(Q) >= Quorum
           /\ \A u \in vc[r].ongoing : u <= w => \A c \in vc[r].certs : c.owner \notin Q
    BY <1>5 DEF Closed
  <2>2. \A u \in vc'[r].ongoing : u <= w => \A c \in vc'[r].certs : c.owner \notin Q
    BY <1>3, <2>1
  <2>3. Q \in SUBSET Consumed(r, w)'
    BY <1>4
  <2> QED BY <2>1, <2>2, <2>3 DEF Closed
<1>6. AckedSealed(r)'
  <2>1. ASSUME NEW t \in Replica, NEW b \in vc'[r].acked[t]
        PROVE  b.view < states'[r][t].at_view
    <3>1. CASE t = s
      BY <3>1, <1>1, <1>2
    <3>2. CASE t # s
      BY <3>2, <1>2 DEF LeaderInvAt, AckedSealed
    <3> QED BY <3>1, <3>2
  <2> QED BY <2>1 DEF AckedSealed
<1>7. Collecting(r)'
  <2>1. CASE Starts(r, v)
    BY <2>1, <1>3, NoneIsNoQuorum DEF Collecting, Starts
  <2>2. CASE ~Starts(r, v)
    BY <2>2, <1>1, <1>3, <1>4 DEF Collecting, LeaderInvAt
  <2> QED BY <2>1, <2>2
<1>8. At(r)' \in Nat /\ At(r)' >= At(r)
  BY <1>1, <1>2 DEF At
<1>9. Announced(r)' /\ Prepared1(r)' /\ Slots(r)'
  BY <1>2, <1>5, <1>8, GrowthKept
<1>10. Leading(r)'
  <2>1. CASE s = r
    <3>1. At(r)' = v + 1
      BY <2>1, <1>2 DEF At
    <3>2. leader(v + 1) = r => \E w \in vc'[r].ongoing : w + 1 >= v + 1
      BY <1>1, <1>3 DEF Starts
    <3> QED BY <3>1, <3>2 DEF Leading
  <2>2. CASE s # r
    <3>1. At(r)' = At(r)
      BY <2>2, <1>2 DEF At
    <3>2. ASSUME NEW w \in vc[r].ongoing, w + 1 >= At(r)
          PROVE  \E u \in vc'[r].ongoing : u + 1 >= At(r)
      BY <3>2, <1>1, <1>3 DEF Starts
    <3>3. At(r) # 0 /\ Closed(r, At(r) - 1) => Closed(r, At(r) - 1)'
      <4>1. At(r) # 0 => At(r) - 1 \in Nat
        BY <1>1
      <4> QED BY <4>1, <3>1, <1>5
    <3>4. leader(At(r)) = r =>
            \/ \E w \in vc[r].ongoing : w + 1 >= At(r)
            \/ \E m \in vc[r].pending : m.view >= At(r)
            \/ /\ At(r) = 0 \/ Closed(r, At(r) - 1)
               /\ \A k \in 1 .. Len(proposer[r].to_propose) :
                     proposer[r].to_propose[k].view = At(r)
      BY DEF LeaderInvAt, Leading
    <3> QED BY <3>1, <3>2, <3>3, <3>4, <1>2 DEF Leading
  <2> QED BY <2>1, <2>2
<1> QED BY <1>6, <1>7, <1>9, <1>10 DEF LeaderInvAt

(* The certificates of a view change under way. *)
Collected(r, s, a) ==
    IF a.view \in vc[r].ongoing
    THEN vc[r].certs \cup {[owner |-> s, commits |-> a.commits]}
    ELSE vc[r].certs

(* pollVcStateCertificates without a quorum yet. *)
CollectStep(r, s, a) ==
    /\ Prepares(r)' = Prepares(r)
    /\ proposer'[r] = proposer[r]
    /\ Views(r)' = Views(r)
    /\ a \in vc[r].acked[s]
    /\ vc'[r].acked[s] = {}
    /\ \A t \in Replica \ {s} : vc'[r].acked[t] = vc[r].acked[t]
    /\ vc'[r].certs = Collected(r, s, a)
    /\ Cardinality(Collected(r, s, a)) < Quorum
    /\ vc'[r].pending = vc[r].pending
    /\ vc'[r].ongoing = vc[r].ongoing

(* Polling the state of s consumes it. *)
LEMMA PollConsumes ==
    ASSUME TypeOK, NEW r \in Replica, NEW s \in Replica, NEW a \in vc[r].acked[s],
           LeaderInvAt(r), Views(r)' = Views(r),
           vc'[r].acked[s] = {},
           \A t \in Replica \ {s} : vc'[r].acked[t] = vc[r].acked[t]
    PROVE  /\ At(r)' = At(r)
           /\ \A v \in Nat : Consumed(r, v) \subseteq Consumed(r, v)'
           /\ \A v \in Nat : v <= a.view => s \in Consumed(r, v)'
           /\ \A v \in Nat : a.view <= v => s \notin Consumed(r, v)
           /\ AckedSealed(r)'
           /\ \A c \in Collected(r, s, a), d \in Collected(r, s, a) :
                 c.owner = d.owner => c = d
           /\ \A v \in vc[r].ongoing : \A c \in Collected(r, s, a) :
                 c.owner \in Consumed(r, v)'
<1>1. \A t \in Replica : states'[r][t].at_view = states[r][t].at_view
  <2>1. \A t \in Replica : Views(r)'[t] = Views(r)[t]
    OBVIOUS
  <2> QED BY <2>1 DEF Views
<1>2. /\ \A t \in Replica : states[r][t].at_view \in Nat
      /\ a.view \in Nat /\ vc[r].ongoing \in SUBSET Nat
  BY LeaderTypes
<1>3. a.view < states[r][s].at_view
  BY DEF LeaderInvAt, AckedSealed
<1>4. ASSUME NEW v \in Nat PROVE Consumed(r, v) \subseteq Consumed(r, v)'
  <2>1. ASSUME NEW t \in Consumed(r, v) PROVE t \in Consumed(r, v)'
    BY <2>1, <1>1 DEF Consumed
  <2> QED BY <2>1
<1>5. ASSUME NEW v \in Nat, v <= a.view PROVE s \in Consumed(r, v)'
  <2>1. states'[r][s].at_view > v
    BY <1>1, <1>2, <1>3, <1>5
  <2> QED BY <2>1 DEF Consumed
<1>6. ASSUME NEW v \in Nat, a.view <= v PROVE s \notin Consumed(r, v)
  BY <1>2, <1>6 DEF Consumed
<1>7. AckedSealed(r)'
  BY <1>1 DEF AckedSealed, LeaderInvAt
<1> DEFINE new == [owner |-> s, commits |-> a.commits]
<1>8. ASSUME a.view \in vc[r].ongoing
      PROVE  /\ \A c \in vc[r].certs : c.owner # s
             /\ \A v \in vc[r].ongoing : v = a.view
  <2>1. /\ \A v \in vc[r].ongoing : v = a.view
        /\ \A c \in vc[r].certs : c.owner \in Consumed(r, a.view)
    BY <1>8 DEF LeaderInvAt, Collecting
  <2>2. s \notin Consumed(r, a.view)
    BY <1>2, <1>6
  <2> QED BY <2>1, <2>2
<1>9. ASSUME NEW c \in Collected(r, s, a), NEW d \in Collected(r, s, a),
             c.owner = d.owner
      PROVE  c = d
  <2>1. ASSUME NEW e \in Collected(r, s, a)
        PROVE  e \in vc[r].certs \/ (a.view \in vc[r].ongoing /\ e = new)
    BY DEF Collected
  <2>2. new.owner = s
    OBVIOUS
  <2>3. \A e, f \in vc[r].certs : e.owner = f.owner => e = f
    BY DEF LeaderInvAt, Collecting
  <2> HIDE DEF new
  <2>4. CASE c \in vc[r].certs /\ d \in vc[r].certs
    BY <2>3, <2>4, <1>9
  <2>5. CASE a.view \in vc[r].ongoing
    BY <2>1, <2>2, <2>3, <2>5, <1>8, <1>9
  <2> QED BY <2>1, <2>4, <2>5
<1>10. ASSUME NEW v \in vc[r].ongoing, NEW c \in Collected(r, s, a)
       PROVE  c.owner \in Consumed(r, v)'
  <2>1. CASE c \in vc[r].certs
    <3>1. c.owner \in Consumed(r, v)
      BY <2>1 DEF LeaderInvAt, Collecting
    <3>2. v \in Nat
      BY <1>2
    <3> QED BY <3>1, <3>2, <1>4
  <2>2. CASE a.view \in vc[r].ongoing /\ c = new
    <3>1. v = a.view /\ c.owner = s
      BY <2>2, <1>8
    <3> QED BY <3>1, <1>2, <1>5
  <2> QED BY <2>1, <2>2 DEF Collected
<1>11. At(r)' = At(r)
  BY <1>1 DEF At
<1> QED BY <1>4, <1>5, <1>6, <1>7, <1>9, <1>10, <1>11

LEMMA CollectKept ==
    ASSUME TypeOK, NEW r \in Replica, NEW s \in Replica, NEW a, LeaderInvAt(r),
           CollectStep(r, s, a)
    PROVE  LeaderInvAt(r)'
<1>1. /\ At(r) \in Nat /\ vc[r].ongoing \in SUBSET Nat /\ a.view \in Nat
  BY LeaderTypes DEF CollectStep
<1>2. /\ At(r)' = At(r)
      /\ \A v \in Nat : Consumed(r, v) \subseteq Consumed(r, v)'
      /\ \A v \in Nat : a.view <= v => s \notin Consumed(r, v)
      /\ AckedSealed(r)'
      /\ \A c \in Collected(r, s, a), d \in Collected(r, s, a) :
            c.owner = d.owner => c = d
      /\ \A v \in vc[r].ongoing : \A c \in Collected(r, s, a) :
            c.owner \in Consumed(r, v)'
  BY PollConsumes DEF CollectStep
<1>3. ASSUME NEW w \in Nat, Closed(r, w) PROVE Closed(r, w)'
  <2>1. PICK Q \in SUBSET Consumed(r, w) :
           /\ Cardinality(Q) >= Quorum
           /\ \A u \in vc[r].ongoing : u <= w => \A c \in vc[r].certs : c.owner \notin Q
    BY <1>3 DEF Closed
  <2>2. ASSUME NEW u \in vc'[r].ongoing, u <= w, NEW c \in vc'[r].certs
        PROVE  c.owner \notin Q
    <3>1. u \in vc[r].ongoing /\ c \in Collected(r, s, a)
      BY <2>2 DEF CollectStep
    <3>2. CASE c \in vc[r].certs
      BY <3>1, <3>2, <2>1, <2>2
    <3>3. CASE a.view \in vc[r].ongoing /\ c.owner = s
      <4>1. a.view = u
        BY <3>1, <3>3 DEF LeaderInvAt, Collecting
      <4>2. s \notin Consumed(r, w)
        BY <4>1, <2>2, <1>2
      <4> QED BY <4>2, <3>3
    <3> QED BY <3>1, <3>2, <3>3 DEF Collected
  <2> QED BY <1>2, <2>1, <2>2 DEF Closed
<1>4. Collecting(r)'
  BY <1>2 DEF CollectStep, Collecting, LeaderInvAt
<1>5. Announced(r)' /\ Prepared1(r)' /\ Slots(r)'
  <2>1. At(r)' \in Nat /\ At(r)' >= At(r)
    BY <1>1, <1>2
  <2> QED BY <2>1, <1>3, GrowthKept DEF CollectStep
<1>6. Leading(r)'
  <2>1. At(r) # 0 /\ Closed(r, At(r) - 1) => Closed(r, At(r) - 1)'
    <3>1. At(r) # 0 => At(r) - 1 \in Nat
      BY <1>1
    <3> QED BY <3>1, <1>2, <1>3
  <2> QED BY <2>1, <1>2 DEF CollectStep, Leading, LeaderInvAt
<1> QED BY <1>2, <1>4, <1>5, <1>6 DEF LeaderInvAt

(* pollVcStateCertificates with a quorum: the NewView is broadcast. *)
AnnounceStep(r, s, a, m) ==
    /\ Prepares(r)' = Prepares(r)
    /\ proposer'[r] = proposer[r]
    /\ Views(r)' = Views(r)
    /\ vc[r].ongoing # {} /\ vc[r].pending = {}
    /\ a \in vc[r].acked[s]
    /\ Cardinality(Collected(r, s, a)) = Quorum
    /\ vc'[r].acked[s] = {}
    /\ \A t \in Replica \ {s} : vc'[r].acked[t] = vc[r].acked[t]
    /\ vc'[r].certs = {}
    /\ vc'[r].ongoing = {}
    /\ vc'[r].pending = {m} /\ m.view = a.view + 1
    /\ m.commits = UNION {c.commits : c \in Collected(r, s, a)}

(* As many replicas as certificates signed for. *)
LEMMA OwnersCount ==
    ASSUME NEW C, \A c \in C : c.owner \in Replica,
           \A c, d \in C : c.owner = d.owner => c = d
    PROVE  /\ {c.owner : c \in C} \in SUBSET Replica
           /\ IsFiniteSet(C)
           /\ Cardinality({c.owner : c \in C}) = Cardinality(C)
<1> DEFINE O == {c.owner : c \in C}
           f == [c \in C |-> c.owner]
<1>1. O \in SUBSET Replica
  OBVIOUS
<1>2. IsFiniteSet(O)
  BY <1>1, ReplicasFinite, FS_Subset
<1>3. f \in Bijection(C, O)
  <2>1. f \in [C -> O]
    OBVIOUS
  <2>2. \A c, d \in C : f[c] = f[d] => c = d
    OBVIOUS
  <2>3. \A o \in O : \E c \in C : f[c] = o
    OBVIOUS
  <2> HIDE DEF f, O
  <2> QED BY <2>1, <2>2, <2>3 DEF Bijection, Injection, Surjection, IsInjective
<1>4. f \in Injection(C, O) /\ f \in Surjection(C, O)
  BY <1>3 DEF Bijection
<1>5. IsFiniteSet(C) /\ Cardinality(O) = Cardinality(C)
  <2> HIDE DEF O, f
  <2> QED BY <1>2, <1>4, FS_Injection
<1> QED BY <1>1, <1>5

(* No NewView is sent twice, nor one for a closed view. *)
LEMMA AnnouncedOpen ==
    ASSUME TypeOK, NEW r \in Replica, NEW s \in Replica, NEW a \in vc[r].acked[s],
           LeaderInvAt(r), a.view \in vc[r].ongoing,
           Cardinality(Collected(r, s, a)) = Quorum,
           \A c \in Collected(r, s, a), d \in Collected(r, s, a) :
              c.owner = d.owner => c = d,
           NEW w \in Nat, a.view <= w
    PROVE  ~Closed(r, w)
<1> SUFFICES ASSUME Closed(r, w) PROVE FALSE
  OBVIOUS
<1> DEFINE C == Collected(r, s, a)
           O == {c.owner : c \in C}
<1>1. \A c \in C : c.owner \in Replica
  BY LeaderTypes DEF Collected
<1>2. O \in SUBSET Replica /\ Cardinality(O) = Quorum
  <2> HIDE DEF C
  <2>1. \A c, d \in C : c.owner = d.owner => c = d
    BY DEF C
  <2>2. Cardinality(C) = Quorum
    BY DEF C
  <2> QED BY <1>1, <2>1, <2>2, OwnersCount
<1>3. PICK Q \in SUBSET Consumed(r, w) :
         /\ Cardinality(Q) >= Quorum
         /\ \A u \in vc[r].ongoing : u <= w => \A c \in vc[r].certs : c.owner \notin Q
  BY DEF Closed
<1>4. s \notin Consumed(r, w)
  <2>1. a.view \in Nat
    BY LeaderTypes
  <2> QED BY <2>1 DEF Consumed
<1>5. O \cap Q = {}
  <2>1. ASSUME NEW c \in C PROVE c.owner \notin Q
    <3>1. c \in vc[r].certs \/ c.owner = s
      BY DEF Collected
    <3> QED BY <3>1, <1>3, <1>4
  <2> HIDE DEF C
  <2> QED BY <2>1
<1>6. Q \in SUBSET Replica
  BY <1>3 DEF Consumed
<1>7. Cardinality(O) >= Quorum
  BY <1>2, ReplicasFinite
<1> HIDE DEF O
<1> QED BY <1>2, <1>3, <1>5, <1>6, <1>7, QuorumsMeet

LEMMA AnnounceKept ==
    ASSUME TypeOK, NEW r \in Replica, NEW s \in Replica, NEW a, NEW m, LeaderInvAt(r),
           AnnounceStep(r, s, a, m)
    PROVE  LeaderInvAt(r)'
<1>0. a \in vc[r].acked[s]
  BY DEF AnnounceStep
<1>1. /\ At(r) \in Nat /\ vc[r].ongoing \in SUBSET Nat /\ a.view \in Nat
      /\ \A c \in vc[r].certs : c.owner \in Replica
  BY <1>0, LeaderTypes
<1>2. /\ At(r)' = At(r)
      /\ \A v \in Nat : Consumed(r, v) \subseteq Consumed(r, v)'
      /\ AckedSealed(r)'
      /\ \A c \in Collected(r, s, a), d \in Collected(r, s, a) :
            c.owner = d.owner => c = d
      /\ \A v \in vc[r].ongoing : \A c \in Collected(r, s, a) :
            c.owner \in Consumed(r, v)'
  BY PollConsumes DEF AnnounceStep
<1>3. a.view \in vc[r].ongoing /\ \A v \in vc[r].ongoing : v = a.view
  <2>1. Collected(r, s, a) # vc[r].certs
    <3>1. Quorum \in Nat
      BY ReplicasFinite
    <3>2. Cardinality(vc[r].certs) < Quorum /\ Cardinality(Collected(r, s, a)) = Quorum
      BY DEF AnnounceStep, LeaderInvAt, Collecting
    <3> QED BY <3>1, <3>2
  <2> QED BY <2>1 DEF Collected, LeaderInvAt, Collecting
<1>4. \A w \in Nat : a.view <= w => ~Closed(r, w)
  BY <1>0, <1>2, <1>3, AnnouncedOpen DEF AnnounceStep
<1>5. ASSUME NEW w \in Nat, Closed(r, w) PROVE Closed(r, w)'
  <2>1. PICK Q \in SUBSET Consumed(r, w) : Cardinality(Q) >= Quorum
    BY <1>5 DEF Closed
  <2>2. Q \in SUBSET Consumed(r, w)' /\ vc'[r].ongoing = {}
    BY <1>2 DEF AnnounceStep
  <2> QED BY <2>1, <2>2 DEF Closed
<1>6. Closed(r, a.view)'
  <2> DEFINE C == Collected(r, s, a)
             O == {c.owner : c \in C}
  <2>1. \A c \in C : c.owner \in Replica
    BY <1>1 DEF Collected
  <2>2. Cardinality(C) = Quorum /\ \A c, d \in C : c.owner = d.owner => c = d
    BY <1>2 DEF AnnounceStep
  <2>3. \A c \in C : c.owner \in Consumed(r, a.view)'
    <3>1. \A v \in vc[r].ongoing : \A c \in C : c.owner \in Consumed(r, v)'
      BY <1>2
    <3> HIDE DEF C
    <3> QED BY <3>1, <1>3
  <2> HIDE DEF C
  <2>4. Cardinality(O) >= Quorum
    <3>1. Cardinality(O) = Cardinality(C)
      BY <2>1, <2>2, OwnersCount
    <3> QED BY <3>1, <2>2, ReplicasFinite
  <2>5. O \in SUBSET Consumed(r, a.view)'
    BY <2>3
  <2>6. vc'[r].ongoing = {}
    BY DEF AnnounceStep
  <2> HIDE DEF O
  <2> QED BY <2>4, <2>5, <2>6 DEF Closed
<1>7. \A p \in Prepares(r) : p.view \in Nat
  BY PreparesType DEF Proposal
<1>8. Announced(r)'
  <2>1. ASSUME NEW p \in Prepares(r) PROVE p.view < a.view + 1
    <3>1. p.view = 0 \/ Closed(r, p.view - 1)
      BY DEF LeaderInvAt, Prepared1
    <3>2. p.view # 0 => p.view - 1 \in Nat /\ ~(a.view <= p.view - 1)
      BY <3>1, <1>4, <1>7
    <3> QED BY <3>2, <1>1, <1>7
  <2>2. m.view - 1 = a.view /\ m.view > 0
    BY <1>1 DEF AnnounceStep
  <2>3. Closed(r, m.view - 1)'
    BY <2>2, <1>6
  <2> QED BY <2>1, <2>2, <2>3 DEF Announced, AnnounceStep
<1>9. Prepared1(r)'
  <2>1. ASSUME NEW p \in Prepares(r)
        PROVE  leader(p.view) = r /\ p.view <= At(r) /\ (p.view = 0 \/ Closed(r, p.view - 1)')
    <3>1. leader(p.view) = r /\ p.view <= At(r) /\ (p.view = 0 \/ Closed(r, p.view - 1))
      BY DEF LeaderInvAt, Prepared1
    <3>2. p.view # 0 => p.view - 1 \in Nat
      BY <1>7
    <3> QED BY <3>1, <3>2, <1>5
  <2> QED BY <2>1, <1>2 DEF LeaderInvAt, Prepared1, AnnounceStep
<1>10. Slots(r)'
  BY <1>2 DEF LeaderInvAt, Slots, AnnounceStep
<1>11. Collecting(r)'
  BY NoneIsNoQuorum DEF AnnounceStep, Collecting
<1>12. Leading(r)'
  <2>1. CASE \E v \in vc[r].ongoing : v + 1 >= At(r)
    <3>1. m \in vc'[r].pending /\ m.view >= At(r)
      BY <2>1, <1>3 DEF AnnounceStep
    <3> QED BY <3>1, <1>2 DEF Leading
  <2>2. CASE /\ At(r) = 0 \/ Closed(r, At(r) - 1)
             /\ \A k \in 1 .. Len(proposer[r].to_propose) :
                   proposer[r].to_propose[k].view = At(r)
    <3>1. At(r) # 0 => At(r) - 1 \in Nat
      BY <1>1
    <3>2. At(r)' = 0 \/ Closed(r, At(r) - 1)'
      BY <2>2, <3>1, <1>2, <1>5
    <3> QED BY <2>2, <3>2, <1>2 DEF Leading, AnnounceStep
  <2>3. vc[r].pending = {}
    BY DEF AnnounceStep
  <2>4. CASE leader(At(r)) # r
    BY <2>4, <1>2 DEF Leading
  <2> QED BY <2>1, <2>2, <2>3, <2>4 DEF LeaderInvAt, Leading
<1> QED BY <1>2, <1>8, <1>9, <1>10, <1>11, <1>12 DEF LeaderInvAt

(* The new leader starts its view. *)
StartStep(r, m, n, first) ==
    /\ Prepares(r)' = Prepares(r)
    /\ Views(r)' = Views(r)
    /\ m \in vc[r].pending /\ At(r) >= m.view
    /\ vc'[r].pending = {}
    /\ vc'[r].ongoing = vc[r].ongoing /\ vc'[r].certs = vc[r].certs
    /\ vc'[r].acked = vc[r].acked
    /\ n \in Nat /\ first \in Nat
    /\ proposer'[r].proposed = first
    /\ proposer'[r].next_proposal = first + n
    /\ Len(proposer'[r].to_propose) = n
    /\ \A k \in 1 .. n : /\ proposer'[r].to_propose[k].view = At(r)
                         /\ proposer'[r].to_propose[k].inst = first + k - 1
    /\ first = certifiedCheckpoint(r).low
    /\ \A w \in validValues(m.commits) : w.inst < first + n
    /\ \A k \in 1 .. n :
          (\E w \in validValues(m.commits) : w.inst = first + k - 1) =>
             \E w \in validValues(m.commits) :
                w.inst = first + k - 1 /\ proposer'[r].to_propose[k].val = w.val

LEMMA StartKept ==
    ASSUME TypeOK, NEW r \in Replica, NEW m, NEW n, NEW first, LeaderInvAt(r),
           StartStep(r, m, n, first)
    PROVE  LeaderInvAt(r)'
<1>1. /\ \A s \in Replica : states'[r][s].at_view = states[r][s].at_view
      /\ At(r)' = At(r)
  <2>1. \A s \in Replica : Views(r)'[s] = Views(r)[s]
    BY DEF StartStep
  <2> QED BY <2>1 DEF Views, At
<1>2. \A v : Consumed(r, v)' = Consumed(r, v)
  BY <1>1 DEF Consumed, StartStep
<1>3. \A v : Closed(r, v)' = Closed(r, v)
  <2>1. vc'[r].ongoing = vc[r].ongoing /\ vc'[r].certs = vc[r].certs
    BY DEF StartStep
  <2> TAKE v
  <2>2. Consumed(r, v)' = Consumed(r, v)
    BY <1>2
  <2> QED BY <2>1, <2>2, ZenonT(40) DEF Closed
<1>4. AckedSealed(r)' /\ Collecting(r)'
  BY <1>1, <1>2 DEF LeaderInvAt, StartStep, AckedSealed, Collecting
<1>5. Announced(r)' /\ Prepared1(r)'
  BY <1>1, <1>3 DEF LeaderInvAt, StartStep, Announced, Prepared1
<1>6. /\ \A p \in Prepares(r) : p.view < m.view /\ p.view \in Nat
      /\ m.view \in Nat /\ At(r) \in Nat
  BY PreparesType, LeaderTypes DEF LeaderInvAt, Announced, StartStep, Proposal
<1>7. Slots(r)'
  <2>1. \A p \in Prepares(r)' : p.view # At(r)'
    BY <1>1, <1>6 DEF StartStep
  <2> QED BY <2>1 DEF Slots, StartStep
<1>8. Leading(r)'
  <2>1. \A k \in 1 .. Len(proposer'[r].to_propose) :
           proposer'[r].to_propose[k].view = At(r)'
    BY <1>1 DEF StartStep
  <2>2. CASE \E v \in vc[r].ongoing : v + 1 >= At(r)
    BY <2>2, <1>1 DEF Leading, StartStep
  <2>3. CASE \E x \in vc[r].pending : x.view >= At(r)
    <3>1. m.view >= At(r) /\ m.view <= At(r) /\ Closed(r, m.view - 1)
      BY <2>3 DEF LeaderInvAt, Announced, StartStep
    <3>2. m.view = At(r)
      BY <3>1, <1>6
    <3> QED BY <3>1, <3>2, <2>1, <1>1, <1>3 DEF Leading
  <2>4. CASE At(r) = 0 \/ Closed(r, At(r) - 1)
    BY <2>4, <2>1, <1>1, <1>3 DEF Leading
  <2>5. CASE leader(At(r)) # r
    BY <2>5, <1>1 DEF Leading
  <2> QED BY <2>2, <2>3, <2>4, <2>5 DEF LeaderInvAt, Leading
<1> QED BY <1>4, <1>5, <1>7, <1>8 DEF LeaderInvAt

(* What getSlot and propose leave alone. *)
LEMMA VcSame ==
    ASSUME NEW r \in Replica, vc'[r] = vc[r], Views(r)' = Views(r), LeaderInvAt(r)
    PROVE  /\ At(r)' = At(r) /\ AckedSealed(r)' /\ Collecting(r)'
           /\ \A v : Closed(r, v)' = Closed(r, v)
<1>1. /\ \A s \in Replica : states'[r][s].at_view = states[r][s].at_view
      /\ At(r)' = At(r)
  <2>1. \A s \in Replica : Views(r)'[s] = Views(r)[s]
    OBVIOUS
  <2> QED BY <2>1 DEF Views, At
<1>2. \A v : Consumed(r, v)' = Consumed(r, v)
  BY <1>1 DEF Consumed
<1>3. \A v : Closed(r, v)' = Closed(r, v)
  BY <1>2 DEF Closed
<1>4. AckedSealed(r)' /\ Collecting(r)'
  BY <1>1, <1>2 DEF LeaderInvAt, AckedSealed, Collecting
<1> QED BY <1>1, <1>3, <1>4

(* getSlot *)
SlotStep(r, p) ==
    LET pr == proposer[r] IN
    /\ Prepares(r)' = Prepares(r)
    /\ Views(r)' = Views(r)
    /\ vc'[r] = vc[r]
    /\ p \in Proposal /\ p.view = At(r) /\ p.inst = pr.next_proposal
    /\ proposer'[r].proposed = pr.proposed
    /\ proposer'[r].next_proposal = pr.next_proposal + 1
    /\ proposer'[r].to_propose = Append(pr.to_propose, p)

LEMMA SlotKept ==
    ASSUME TypeOK, NEW r \in Replica, NEW p, LeaderInvAt(r), SlotStep(r, p)
    PROVE  LeaderInvAt(r)'
<1> DEFINE q == proposer[r].to_propose
           q2 == Append(q, p)
<1>1. /\ At(r)' = At(r) /\ AckedSealed(r)' /\ Collecting(r)'
      /\ \A v : Closed(r, v)' = Closed(r, v)
      /\ vc'[r] = vc[r] /\ Prepares(r)' = Prepares(r)
  BY VcSame DEF SlotStep
<1>2. /\ q \in Seq(Proposal) /\ p \in Proposal
      /\ proposer[r].proposed \in Nat /\ proposer[r].next_proposal \in Nat
  BY LeaderTypes DEF SlotStep
<1>3. /\ Len(q2) = Len(q) + 1 /\ Len(q) \in Nat
      /\ \A k \in 1 .. Len(q) : q2[k] = q[k]
      /\ q2[Len(q) + 1] = p
  BY <1>2, AppendElements
<1>4. /\ proposer'[r].to_propose = q2
      /\ proposer'[r].proposed = proposer[r].proposed
      /\ proposer'[r].next_proposal = proposer[r].next_proposal + 1
      /\ p.view = At(r) /\ p.inst = proposer[r].next_proposal
  BY DEF SlotStep
<1> HIDE DEF q2
<1>5. \A k \in 1 .. Len(q2) : k \in 1 .. Len(q) \/ k = Len(q) + 1
  BY <1>3
<1>6. Announced(r)' /\ Prepared1(r)'
  BY <1>1 DEF LeaderInvAt, Announced, Prepared1
<1>7. Slots(r)'
  <2>1. proposer[r].next_proposal = proposer[r].proposed + Len(q)
    BY DEF LeaderInvAt, Slots
  <2>2. ASSUME NEW k \in 1 .. Len(q2) PROVE q2[k].inst = proposer[r].proposed + k - 1
    <3>1. CASE k \in 1 .. Len(q)
      BY <3>1, <1>3 DEF LeaderInvAt, Slots
    <3>2. CASE k = Len(q) + 1
      BY <3>2, <2>1, <1>2, <1>3, <1>4
    <3> QED BY <3>1, <3>2, <1>5
  <2>3. proposer'[r].next_proposal = proposer'[r].proposed + Len(q2)
    BY <2>1, <1>2, <1>3, <1>4
  <2> QED BY <2>2, <2>3, <1>1, <1>4 DEF LeaderInvAt, Slots
<1>8. Leading(r)'
  <2>1. (\A k \in 1 .. Len(q) : q[k].view = At(r)) =>
           \A k \in 1 .. Len(q2) : q2[k].view = At(r)
    BY <1>3, <1>4, <1>5
  <2> QED BY <2>1, <1>1, <1>4 DEF LeaderInvAt, Leading
<1> QED BY <1>1, <1>6, <1>7, <1>8 DEF LeaderInvAt

(* propose *)
ProposeStep(r) ==
    LET pr == proposer[r] IN
    /\ vc'[r] = vc[r] /\ Views(r)' = Views(r)
    /\ leader(At(r)) = r /\ vc[r].ongoing = {} /\ vc[r].pending = {}
    /\ pr.to_propose # << >>
    /\ Prepares(r)' = Prepares(r) \cup {Head(pr.to_propose)}
    /\ proposer'[r].proposed = pr.proposed + 1
    /\ proposer'[r].next_proposal = pr.next_proposal
    /\ proposer'[r].to_propose = Tail(pr.to_propose)

LEMMA ProposeKept ==
    ASSUME TypeOK, NEW r \in Replica, LeaderInvAt(r), ProposeStep(r)
    PROVE  LeaderInvAt(r)'
<1> DEFINE q == proposer[r].to_propose
           q2 == Tail(q)
           p == Head(q)
<1>1. /\ At(r)' = At(r) /\ AckedSealed(r)' /\ Collecting(r)'
      /\ \A v : Closed(r, v)' = Closed(r, v)
      /\ vc'[r] = vc[r]
  BY VcSame DEF ProposeStep
<1>2. /\ q \in Seq(Proposal) /\ q # << >> /\ At(r) \in Nat
      /\ proposer[r].proposed \in Nat /\ proposer[r].next_proposal \in Nat
  BY LeaderTypes DEF ProposeStep
<1>3. /\ Len(q) \in Nat /\ Len(q) >= 1 /\ Len(q2) = Len(q) - 1
      /\ \A k \in 1 .. Len(q2) : q2[k] = q[k + 1] /\ k + 1 \in 1 .. Len(q)
      /\ p = q[1] /\ p \in Proposal /\ 1 \in 1 .. Len(q)
  BY <1>2
<1>4. /\ proposer'[r].to_propose = q2
      /\ proposer'[r].proposed = proposer[r].proposed + 1
      /\ proposer'[r].next_proposal = proposer[r].next_proposal
      /\ Prepares(r)' = Prepares(r) \cup {p}
  BY DEF ProposeStep
<1>5. /\ At(r) = 0 \/ Closed(r, At(r) - 1)
      /\ \A k \in 1 .. Len(q) : q[k].view = At(r)
  BY DEF LeaderInvAt, Leading, ProposeStep
<1>6. /\ proposer[r].next_proposal = proposer[r].proposed + Len(q)
      /\ \A k \in 1 .. Len(q) : q[k].inst = proposer[r].proposed + k - 1
      /\ \A o \in Prepares(r) : o.view = At(r) => o.inst < proposer[r].proposed
  BY DEF LeaderInvAt, Slots
<1>7. p.view = At(r) /\ p.inst = proposer[r].proposed
  BY <1>2, <1>3, <1>5, <1>6
<1> HIDE DEF q2, p
<1>8. Announced(r)'
  BY <1>1 DEF Announced, ProposeStep
<1>9. \A o \in Prepares(r) : o.view \in Nat /\ o.inst \in Nat
  BY PreparesType, ConstantsAssumption DEF Proposal, Instance
<1>10. Prepared1(r)'
  <2>1. ASSUME NEW o \in Prepares(r)'
        PROVE  /\ leader(o.view) = r /\ o.view <= At(r)'
               /\ o.view = 0 \/ Closed(r, o.view - 1)'
    <3>1. CASE o \in Prepares(r)
      BY <3>1, <1>1 DEF LeaderInvAt, Prepared1
    <3>2. CASE o = p
      BY <3>2, <1>1, <1>2, <1>5, <1>7 DEF ProposeStep
    <3> QED BY <3>1, <3>2, <1>4
  <2>2. ASSUME NEW o \in Prepares(r) PROVE ~(o.view = p.view /\ o.inst = p.inst)
    BY <1>2, <1>6, <1>7, <1>9
  <2>3. \A o, u \in Prepares(r) : o.view = u.view /\ o.inst = u.inst => o = u
    BY DEF LeaderInvAt, Prepared1
  <2>4. \A o, u \in Prepares(r)' : o.view = u.view /\ o.inst = u.inst => o = u
    BY <2>2, <2>3, <1>4
  <2> QED BY <2>1, <2>4 DEF Prepared1
<1>11. Slots(r)'
  <2>1. proposer'[r].next_proposal = proposer'[r].proposed + Len(q2)
    <3>1. \A x, y \in Nat : x + y = (x + 1) + (y - 1)
      OBVIOUS
    <3>2. proposer[r].next_proposal = (proposer[r].proposed + 1) + (Len(q) - 1)
      BY <3>1, <1>2, <1>3, <1>6
    <3> QED BY <3>2, <1>3, <1>4
  <2>2. ASSUME NEW k \in 1 .. Len(q2)
        PROVE  q2[k].inst = proposer'[r].proposed + k - 1
    <3>1. q2[k].inst = proposer[r].proposed + (k + 1) - 1
      BY <1>3, <1>6
    <3> QED BY <3>1, <1>2, <1>3, <1>4
  <2>3. ASSUME NEW o \in Prepares(r)', o.view = At(r)
        PROVE  o.inst < proposer'[r].proposed
    <3>1. CASE o \in Prepares(r)
      BY <2>3, <3>1, <1>2, <1>4, <1>6, <1>9
    <3>2. CASE o = p
      BY <3>2, <1>2, <1>4, <1>7
    <3> QED BY <3>1, <3>2, <1>4
  <2> QED BY <2>1, <2>2, <2>3, <1>1, <1>4 DEF Slots
<1>12. Leading(r)'
  <2>1. \A k \in 1 .. Len(q2) : q2[k].view = At(r)
    BY <1>3, <1>5
  <2> QED BY <2>1, <1>1, <1>4, <1>5 DEF Leading
<1> QED BY <1>1, <1>8, <1>10, <1>11, <1>12 DEF LeaderInvAt

-----------------------------------------------------------------------------
(* Every step of r is one of these *)

(* The steps of r leave the leader's part of the others alone. *)
LEMMA OthersLead ==
    ASSUME TypeOK, NEW r \in Replica, Step(r), NEW q \in Replica \ {r}
    PROVE  LeaderSame(q)
<1>1. Untouched(q)
  BY StepLocal
<1>2. Prepares(q)' = Prepares(q) /\ Views(q)' = Views(q)
  BY <1>1 DEF Untouched, Prepares, Broadcast, Views
<1>3. proposer'[q] = proposer[q]
  <2>1. proposer \in [Replica -> Proposer]
    BY DEF TypeOK
  <2>2. proposer' = proposer \/ \E x : proposer' = [proposer EXCEPT ![r] = x]
    <3>1. CASE Propose(r)
      <4>1. proposer[r] \in Proposer
        BY <2>1
      <4>2. proposer' = [proposer EXCEPT ![r] =
               [proposer[r] EXCEPT !.proposed = @ + 1, !.to_propose = Tail(@)]]
        BY <3>1, <2>1, <4>1 DEF Propose, Proposer
      <4> QED BY <4>2
    <3>2. CASE StartView(r) \/ \E val \in Value : GetSlot(r, val)
      BY <3>2 DEF StartView, GetSlot
    <3>3. CASE proposer' = proposer
      BY <3>3
    <3> QED BY <3>1, <3>2, <3>3
            DEF Step, AcceptRequest, CertifyPrepare, PollPromise, PollPrepareCertificate,
                PollVerifiedCommit, Decide, PollCheckpointCertificate, BroadcastCheckpoint,
                ChangeView, PollPrepare, PollCommit, PollCheckpoint, PollSealView,
                PollNewView, PollFastCommit, PollVcStateCertificate, PollCb
  <2> QED BY <2>1, <2>2
<1>4. vc'[q] = vc[q]
  <2>1. vc \in [Replica -> ViewChange] /\ vc[r] \in ViewChange
    BY DEF TypeOK
  <2>2. ASSUME NEW s \in Replica, handleSealView(r, s) PROVE vc'[q] = vc[q]
    BY <2>1, <2>2 DEF handleSealView
  <2>3. ASSUME NEW s \in Replica, PollVcStateCertificate(r, s) PROVE vc'[q] = vc[q]
    BY <2>1, <2>3 DEF PollVcStateCertificate
  <2>4. CASE StartView(r)
    BY <2>1, <2>4 DEF StartView
  <2>5. CASE ChangeView(r)
    BY <2>2, <2>5 DEF ChangeView
  <2>6. ASSUME NEW s \in Replica, PollSealView(r, s) PROVE vc'[q] = vc[q]
    BY <2>2, <2>6 DEF PollSealView
  <2>7. CASE vc' = vc
    BY <2>7
  <2> QED BY <2>3, <2>4, <2>5, <2>6, <2>7
          DEF Step, GetSlot, AcceptRequest, Propose, CertifyPrepare, PollPromise,
              PollPrepareCertificate, PollVerifiedCommit, Decide,
              PollCheckpointCertificate, BroadcastCheckpoint, PollPrepare, PollCommit,
              PollCheckpoint, PollNewView, PollFastCommit, handlePrepare, handleCommit
<1> QED BY <1>2, <1>3, <1>4 DEF LeaderSame

(* A handler that replaces the state of one sender within its view. *)
LEMMA ViewsKept ==
    ASSUME TypeOK, NEW r \in Replica, NEW s \in Replica, NEW st,
           st.at_view = states[r][s].at_view,
           states' = [states EXCEPT ![r][s] = st]
    PROVE  Views(r)' = Views(r)
<1>1. /\ states'[r][s] = st
      /\ \A t \in Replica \ {s} : states'[r][t] = states[r][t]
  BY OneState
<1>2. \A t \in Replica : states'[r][t].at_view = states[r][t].at_view
  BY <1>1
<1> QED BY <1>2 DEF Views

LEMMA PrepareViews ==
    ASSUME TypeOK, NEW r \in Replica, NEW s \in Replica, NEW p \in Proposal,
           handlePrepare(r, s, p)
    PROVE  Views(r)' = Views(r)
<1>0. states \in [Replica -> [Replica -> ReplicaState]] /\ states[r][s] \in ReplicaState
  BY DEF TypeOK
<1>1. CASE states' = states
  BY <1>1 DEF Views
<1>2. CASE states' = [states EXCEPT ![r][s] = Received(states[r][s])]
  <2> DEFINE st == Received(states[r][s])
  <2>1. st.at_view = states[r][s].at_view
    BY <1>0, StateParts
  <2>2. states' = [states EXCEPT ![r][s] = st]
    BY <1>2
  <2> HIDE DEF st
  <2> QED BY <2>1, <2>2, ViewsKept
<1>3. ASSUME NEW replay,
             states' = [states EXCEPT ![r] =
                [[t \in Replica |-> IF t \in replay THEN Verified(states[r][t])
                                    ELSE states[r][t]]
                 EXCEPT ![s] = Prepared(@, p)]]
      PROVE  Views(r)' = Views(r)
  <2> DEFINE seen == [t \in Replica |-> IF t \in replay THEN Verified(states[r][t])
                                        ELSE states[r][t]]
  <2>1. \A t \in Replica : /\ seen[t].at_view = states[r][t].at_view
                           /\ seen[t] \in ReplicaState
    <3>1. ASSUME NEW t \in Replica
          PROVE  /\ Verified(states[r][t]) \in ReplicaState
                 /\ Verified(states[r][t]).at_view = states[r][t].at_view
                 /\ states[r][t] \in ReplicaState
      BY <1>0, StateParts, StateTypes
    <3> QED BY <3>1
  <2>2. Prepared(seen[s], p).at_view = states[r][s].at_view
    <3> HIDE DEF seen
    <3> QED BY <2>1, StateParts
  <2>3. states'[r] = [seen EXCEPT ![s] = Prepared(seen[s], p)]
    BY <1>0, <1>3
  <2>4. \A t \in Replica : states'[r][t] = IF t = s THEN Prepared(seen[s], p) ELSE seen[t]
    BY <2>3
  <2>5. \A t \in Replica : states'[r][t].at_view = states[r][t].at_view
    <3> HIDE DEF seen
    <3> QED BY <2>1, <2>2, <2>4
  <2> QED BY <2>5 DEF Views
<1> QED BY <1>1, <1>2, <1>3 DEF handlePrepare

LEMMA CommitViews ==
    ASSUME TypeOK, NEW r \in Replica, NEW s \in Replica, NEW c,
           handleCommit(r, s, c)
    PROVE  Views(r)' = Views(r)
<1>0. states[r][s] \in ReplicaState
  BY DEF TypeOK
<1>1. states' = states \/ \E n : states' = [states EXCEPT ![r][s] = Committed(states[r][s], c, n)]
  BY DEF handleCommit
<1>2. ASSUME NEW n, states' = [states EXCEPT ![r][s] = Committed(states[r][s], c, n)]
      PROVE  Views(r)' = Views(r)
  <2> DEFINE st == Committed(states[r][s], c, n)
  <2>1. st.at_view = states[r][s].at_view
    BY <1>0, StateParts
  <2>2. states' = [states EXCEPT ![r][s] = st]
    BY <1>2
  <2> HIDE DEF st
  <2> QED BY <2>1, <2>2, ViewsKept
<1>3. CASE states' = states
  BY <1>3 DEF Views
<1> QED BY <1>1, <1>2, <1>3

LEMMA CheckpointViews ==
    ASSUME TypeOK, NEW r \in Replica, NEW s \in Replica, NEW c,
           handleCheckpoint(r, s, c)
    PROVE  Views(r)' = Views(r)
<1>0. states[r][s] \in ReplicaState
  BY DEF TypeOK
<1>1. CASE states' = [states EXCEPT ![r][s] = Checkpointed(states[r][s], c)]
  <2> DEFINE st == Checkpointed(states[r][s], c)
  <2>1. st.at_view = states[r][s].at_view
    BY <1>0, StateParts
  <2>2. states' = [states EXCEPT ![r][s] = st]
    BY <1>1
  <2> HIDE DEF st
  <2> QED BY <2>1, <2>2, ViewsKept
<1>2. CASE states' = states
  BY <1>2 DEF Views
<1> QED BY <1>1, <1>2 DEF handleCheckpoint

LEMMA NewViewViews ==
    ASSUME TypeOK, NEW r \in Replica, NEW s \in Replica, NEW m,
           handleNewView(r, s, m)
    PROVE  Views(r)' = Views(r)
<1>0. states[r][s] \in ReplicaState
  BY DEF TypeOK
<1> DEFINE st == ViewStarted(states[r][s], m)
<1>1. st.at_view = states[r][s].at_view
  BY <1>0, StateParts
<1>2. states' = [states EXCEPT ![r][s] = st]
  BY DEF handleNewView
<1> HIDE DEF st
<1> QED BY <1>1, <1>2, ViewsKept

(* The steps that leave the leader's part alone. *)
LEMMA OtherSteps ==
    ASSUME TypeOK, NEW r \in Replica, NEW s \in Replica,
           \/ \E val \in Value : AcceptRequest(r, val)
           \/ CertifyPrepare(r) \/ PollPromise(r) \/ PollPrepareCertificate(r)
           \/ PollVerifiedCommit(r) \/ Decide(r) \/ PollCheckpointCertificate(r)
           \/ BroadcastCheckpoint(r) \/ PollPrepare(r, s) \/ PollCommit(r, s)
           \/ PollCheckpoint(r, s) \/ PollNewView(r, s) \/ PollFastCommit(r, s)
    PROVE  LeaderSame(r)
<1>1. proposer' = proposer /\ vc' = vc
  BY DEF AcceptRequest, CertifyPrepare, PollPromise, PollPrepareCertificate,
         PollVerifiedCommit, Decide, PollCheckpointCertificate, BroadcastCheckpoint,
         PollPrepare, PollCommit, PollCheckpoint, PollNewView, PollFastCommit, PollCb,
         handlePrepare, handleCommit
<1>2. cb' = cb => Prepares(r)' = Prepares(r)
  BY DEF Prepares, Broadcast
<1>3. states' = states => Views(r)' = Views(r)
  BY DEF Views
<1>4. CASE /\ cb' = cb /\ states' = states
  BY <1>1, <1>2, <1>3, <1>4 DEF LeaderSame
<1>5. CASE PollPrepareCertificate(r)
  <2>1. PICK p \in prepare_certifier[r].tail :
           \/ UNCHANGED <<cb, states>>
           \/ broadcast(r, CommitMessage(p)) /\ handleCommit(r, r, p)
    BY <1>5 DEF PollPrepareCertificate
  <2>2. p \in Proposal
    BY DEF TypeOK, PrepareCertifier
  <2>3. CommitMessage(p) \in Message /\ CommitMessage(p).kind # "Prepare"
    BY <2>2, MessageTypes DEF CommitMessage
  <2>4. CASE broadcast(r, CommitMessage(p)) /\ handleCommit(r, r, p)
    BY <2>3, <2>4, <1>1, PreparesAdd, CommitViews DEF LeaderSame
  <2> QED BY <1>4, <2>1, <2>4
<1>6. CASE PollVerifiedCommit(r)
  <2>1. PICK w \in verifying[r] : states' = [states EXCEPT ![r][w[1]] = Verified(@)]
    BY <1>6 DEF PollVerifiedCommit
  <2>2. w[1] \in Replica
    BY DEF TypeOK
  <2> DEFINE st == Verified(states[r][w[1]])
  <2>3. states[r][w[1]] \in ReplicaState
    BY <2>2 DEF TypeOK
  <2>4. st.at_view = states[r][w[1]].at_view
    BY <2>3, StateParts
  <2>5. states' = [states EXCEPT ![r][w[1]] = st]
    BY <2>1
  <2> HIDE DEF st
  <2>6. Views(r)' = Views(r)
    BY <2>2, <2>4, <2>5, ViewsKept
  <2> QED BY <1>1, <1>2, <1>6, <2>6 DEF PollVerifiedCommit, LeaderSame
<1>7. CASE BroadcastCheckpoint(r)
  <2> DEFINE c == certifiedCheckpoint(r)
  <2>1. broadcast(r, CheckpointMessage(c)) /\ handleCheckpoint(r, r, c)
    BY <1>7 DEF BroadcastCheckpoint
  <2>2. c \in Checkpoint
    BY DEF TypeOK, Checkpoints, certifiedCheckpoint
  <2> HIDE DEF c
  <2>3. CheckpointMessage(c) \in Message /\ CheckpointMessage(c).kind # "Prepare"
    BY <2>2, MessageTypes DEF CheckpointMessage
  <2> QED BY <2>1, <2>3, <1>1, PreparesAdd, CheckpointViews DEF LeaderSame
<1>8. CASE PollPrepare(r, s) \/ PollCommit(r, s) \/ PollCheckpoint(r, s)
           \/ PollNewView(r, s)
  <2>1. cb' = cb /\ NextCb(r, s) \in Message
    BY <1>8, NextCbType DEF PollPrepare, PollCommit, PollCheckpoint, PollNewView, PollCb
  <2>2. CASE PollPrepare(r, s)
    <3>1. NextCb(r, s).p \in Proposal /\ handlePrepare(r, s, NextCb(r, s).p)
      BY <2>1, <2>2, MessageParts DEF PollPrepare, PollCb
    <3> QED BY <3>1, <2>1, <1>1, <1>2, PrepareViews DEF LeaderSame
  <2>3. CASE PollCommit(r, s)
    BY <2>1, <2>3, <1>1, <1>2, CommitViews DEF PollCommit, LeaderSame
  <2>4. CASE PollCheckpoint(r, s)
    BY <2>1, <2>4, <1>1, <1>2, CheckpointViews DEF PollCheckpoint, LeaderSame
  <2>5. CASE PollNewView(r, s)
    BY <2>1, <2>5, <1>1, <1>2, NewViewViews DEF PollNewView, LeaderSame
  <2> QED BY <1>8, <2>2, <2>3, <2>4, <2>5
<1>9. CASE \/ \E val \in Value : AcceptRequest(r, val)
           \/ CertifyPrepare(r) \/ PollPromise(r) \/ Decide(r)
           \/ PollCheckpointCertificate(r) \/ PollFastCommit(r, s)
  BY <1>4, <1>9 DEF AcceptRequest, CertifyPrepare, PollPromise, Decide,
                    PollCheckpointCertificate, PollFastCommit
<1> QED BY <1>5, <1>6, <1>7, <1>8, <1>9

(* handleSealView, of our own or of another replica's message. *)
LEMMA SealSteps ==
    ASSUME TypeOK, NEW r \in Replica, NEW s \in Replica, handleSealView(r, s),
           proposer' = proposer, Prepares(r)' = Prepares(r)
    PROVE  SealStep(r, s, serializeState(r, s))
<1> DEFINE a == serializeState(r, s)
           v == states[r][s].at_view
<1>1. /\ vc \in [Replica -> ViewChange] /\ vc[r] \in ViewChange
      /\ states[r][s] \in ReplicaState
  BY DEF TypeOK
<1>2. a.view = v
  BY DEF serializeState
<1>3. /\ states'[r][s].at_view = v + 1
      /\ \A t \in Replica \ {s} : states'[r][t].at_view = states[r][t].at_view
  <2> DEFINE st == Sealed(states[r][s])
  <2>1. st.at_view = v + 1
    BY <1>1, StateParts
  <2>2. states' = [states EXCEPT ![r][s] = st]
    BY DEF handleSealView
  <2> HIDE DEF st
  <2>3. /\ states'[r][s] = st
        /\ \A t \in Replica \ {s} : states'[r][t] = states[r][t]
    BY <2>2, OneState
  <2> QED BY <2>1, <2>3
<1>4. vc' = [vc EXCEPT ![r].acked[s] = {a},
                       ![r].ongoing = IF Starts(r, v) THEN {v} ELSE @,
                       ![r].certs = IF Starts(r, v) THEN {} ELSE @]
  BY DEF handleSealView, Starts
<1> HIDE DEF a, v
<1>5. /\ vc'[r].acked[s] = {a}
      /\ \A t \in Replica \ {s} : vc'[r].acked[t] = vc[r].acked[t]
      /\ vc'[r].pending = vc[r].pending
      /\ vc'[r].ongoing = IF Starts(r, v) THEN {v} ELSE vc[r].ongoing
      /\ vc'[r].certs = IF Starts(r, v) THEN {} ELSE vc[r].certs
  <2> DEFINE o == IF Starts(r, v) THEN {v} ELSE vc[r].ongoing
             c == IF Starts(r, v) THEN {} ELSE vc[r].certs
             e == [vc[r].acked EXCEPT ![s] = {a}]
  <2>1. vc'[r] = [vc[r] EXCEPT !.acked = e, !.ongoing = o, !.certs = c]
    BY <1>1, <1>4 DEF ViewChange
  <2>2. e[s] = {a} /\ \A t \in Replica \ {s} : e[t] = vc[r].acked[t]
    BY <1>1 DEF ViewChange
  <2> HIDE DEF o, c, e
  <2>3. /\ vc'[r].acked = e /\ vc'[r].ongoing = o /\ vc'[r].certs = c
        /\ vc'[r].pending = vc[r].pending
    BY <2>1, <1>1 DEF ViewChange
  <2> QED BY <2>2, <2>3 DEF o, c
<1> QED BY <1>2, <1>3, <1>5 DEF SealStep, a, v

LEMMA SealViewKept ==
    ASSUME TypeOK, NEW r \in Replica, NEW s \in Replica, LeaderInvAt(r),
           PollSealView(r, s) \/ ChangeView(r)
    PROVE  LeaderInvAt(r)'
<1>1. CASE PollSealView(r, s)
  <2>1. cb' = cb /\ proposer' = proposer /\ handleSealView(r, s)
    BY <1>1 DEF PollSealView, PollCb
  <2>2. Prepares(r)' = Prepares(r)
    BY <2>1 DEF Prepares, Broadcast
  <2> QED BY <2>1, <2>2, SealSteps, SealKept
<1>2. CASE ChangeView(r)
  <2>1. broadcast(r, SealViewMessage) /\ proposer' = proposer /\ handleSealView(r, r)
    BY <1>2 DEF ChangeView
  <2>2. SealViewMessage \in Message /\ SealViewMessage.kind # "Prepare"
    BY MessageTypes DEF SealViewMessage
  <2>3. Prepares(r)' = Prepares(r)
    BY <2>1, <2>2, PreparesAdd
  <2> QED BY <2>1, <2>3, SealSteps, SealKept
<1> QED BY <1>1, <1>2

(* pollVcStateCertificates *)
LEMMA PollVcSteps ==
    ASSUME TypeOK, NEW r \in Replica, NEW s \in Replica, PollVcStateCertificate(r, s)
    PROVE  \E a : CollectStep(r, s, a) \/ \E m : AnnounceStep(r, s, a, m)
<1>1. vc \in [Replica -> ViewChange] /\ vc[r] \in ViewChange
  BY DEF TypeOK
<1> DEFINE M(a) == NewViewMessage(a.view + 1, UNION {c.commits : c \in Collected(r, s, a)})
<1>2. PICK a \in vc[r].acked[s] :
         \/ /\ vc' = [vc EXCEPT ![r].acked[s] = {}, ![r].certs = Collected(r, s, a)]
            /\ Cardinality(Collected(r, s, a)) < Quorum
            /\ UNCHANGED <<cb, states>>
         \/ /\ broadcast(r, M(a))
            /\ Cardinality(Collected(r, s, a)) = Quorum
            /\ vc' = [vc EXCEPT ![r].acked[s] = {}, ![r].certs = {},
                                ![r].ongoing = {}, ![r].pending = {M(a)}]
            /\ UNCHANGED states
  BY DEF PollVcStateCertificate, Collected
<1>3. /\ proposer' = proposer /\ states' = states
      /\ vc[r].ongoing # {} /\ vc[r].pending = {}
  BY <1>2 DEF PollVcStateCertificate, Free
<1>4. Views(r)' = Views(r)
  BY <1>3 DEF Views
<1> DEFINE C == Collected(r, s, a)
           e == [vc[r].acked EXCEPT ![s] = {}]
<1>5. e[s] = {} /\ \A t \in Replica \ {s} : e[t] = vc[r].acked[t]
  BY <1>1 DEF ViewChange
<1>6. CASE /\ vc' = [vc EXCEPT ![r].acked[s] = {}, ![r].certs = C]
           /\ Cardinality(C) < Quorum
           /\ cb' = cb
  <2>1. Prepares(r)' = Prepares(r)
    BY <1>6 DEF Prepares, Broadcast
  <2>2. vc'[r] = [vc[r] EXCEPT !.acked = e, !.certs = C]
    <3> HIDE DEF C
    <3> QED BY <1>1, <1>6 DEF ViewChange
  <2>3. /\ vc'[r].acked = e /\ vc'[r].certs = C
        /\ vc'[r].pending = vc[r].pending /\ vc'[r].ongoing = vc[r].ongoing
    <3> HIDE DEF C, e
    <3> QED BY <1>1, <2>2 DEF ViewChange
  <2>4. CollectStep(r, s, a)
    <3> HIDE DEF e
    <3> QED BY <1>3, <1>4, <1>5, <1>6, <2>1, <2>3 DEF CollectStep
  <2> QED BY <2>4
<1>7. CASE /\ broadcast(r, M(a))
           /\ Cardinality(C) = Quorum
           /\ vc' = [vc EXCEPT ![r].acked[s] = {}, ![r].certs = {},
                               ![r].ongoing = {}, ![r].pending = {M(a)}]
  <2> DEFINE m == M(a)
  <2>1. /\ m \in Message /\ m.kind # "Prepare" /\ m.view = a.view + 1
        /\ m.commits = UNION {c.commits : c \in C}
    <3>1. C \in SUBSET StateCertificate /\ a.view + 1 \in Nat
      <4>1. a \in SerializedState /\ vc[r].certs \in SUBSET StateCertificate
        BY LeaderTypes
      <4> QED BY <4>1 DEF Collected, StateCertificate, SerializedState
    <3>2. UNION {c.commits : c \in C} \in SUBSET Proposal
      <4> HIDE DEF C
      <4> QED BY <3>1 DEF StateCertificate
    <3>3. m \in Message
      BY <3>1, <3>2, MessageTypes
    <3> QED BY <3>3 DEF NewViewMessage
  <2>2. Prepares(r)' = Prepares(r)
    <3> HIDE DEF M
    <3> QED BY <1>7, <2>1, PreparesAdd
  <2>3. vc'[r] = [vc[r] EXCEPT !.acked = e, !.certs = {}, !.ongoing = {}, !.pending = {m}]
    <3> HIDE DEF M
    <3> QED BY <1>1, <1>7 DEF ViewChange
  <2>4. /\ vc'[r].acked = e /\ vc'[r].certs = {}
        /\ vc'[r].pending = {m} /\ vc'[r].ongoing = {}
    <3> HIDE DEF e, m
    <3> QED BY <1>1, <2>3 DEF ViewChange
  <2>5. AnnounceStep(r, s, a, m)
    <3> HIDE DEF e, m
    <3> QED BY <1>3, <1>4, <1>5, <1>7, <2>1, <2>2, <2>4 DEF AnnounceStep
  <2> QED BY <2>5
<1> QED BY <1>2, <1>6, <1>7

LEMMA PollVcStateCertificateKept ==
    ASSUME TypeOK, NEW r \in Replica, NEW s \in Replica, LeaderInvAt(r),
           PollVcStateCertificate(r, s)
    PROVE  LeaderInvAt(r)'
BY PollVcSteps, CollectKept, AnnounceKept

(* The last instance of a set of proposals. *)
LEMMA LastInstance ==
    ASSUME NEW V \in SUBSET Proposal, V # {}
    PROVE  LET l == CHOOSE i \in {w.inst : w \in V} : \A x \in V : x.inst <= i IN
           l \in Nat /\ l \in {w.inst : w \in V} /\ \A x \in V : x.inst <= l
<1> DEFINE T == {w.inst : w \in V}
           l == CHOOSE i \in T : \A x \in V : x.inst <= i
<1>1. T \in SUBSET Nat /\ T # {}
  BY ConstantsAssumption DEF Proposal, Instance
<1>2. \A n \in T : n <= InstSpace
  BY ConstantsAssumption DEF Proposal, Instance
<1>3. PICK n \in T : \A k \in T : k <= n
  <2> HIDE DEF T
  <2> QED BY <1>1, <1>2, NatMax, ConstantsAssumption
<1>4. \A x \in V : x.inst <= n
  BY <1>3
<1>5. l \in T /\ \A x \in V : x.inst <= l
  <2> HIDE DEF T
  <2> QED BY <1>4
<1> HIDE DEF l
<1>6. l \in Nat
  <2> HIDE DEF T
  <2> QED BY <1>1, <1>5
<1> QED BY <1>5, <1>6 DEF l

(* StartView *)
LEMMA StartSteps ==
    ASSUME TypeOK, TypeOK', NEW r \in Replica, StartView(r)
    PROVE  \E m, n, first : StartStep(r, m, n, first)
<1> DEFINE vv(m) == validValues(m.commits)
           first == certifiedCheckpoint(r).low
           last(m) == IF vv(m) = {} THEN first
                      ELSE CHOOSE i \in {w.inst : w \in vv(m)} :
                              \A x \in vv(m) : x.inst <= i
           value(m, i) == IF \E w \in vv(m) : w.inst = i
                          THEN (CHOOSE w \in vv(m) : w.inst = i).val ELSE NoOp
           slots(m) == [k \in 1 .. (last(m) - first + 1) |->
                          [view |-> At(r), inst |-> first + k - 1,
                           val |-> value(m, first + k - 1)]]
           np(m) == IF last(m) < first THEN first ELSE last(m) + 1
<1>1. PICK m \in vc[r].pending :
         /\ At(r) >= m.view
         /\ handleNewView(r, r, m)
         /\ vc' = [vc EXCEPT ![r].pending = {}]
         /\ proposer' = [proposer EXCEPT ![r] =
               [proposed |-> first, next_proposal |-> np(m),
                to_propose |-> slots(m)]]
  BY DEF StartView, NextProposal
<1>2. first \in Nat /\ At(r) \in Nat
  BY CheckpointLowType
<1> DEFINE l == last(m)
           pr == [proposed |-> first, next_proposal |-> np(m), to_propose |-> slots(m)]
<1>3. proposer'[r] = pr
  BY <1>1 DEF TypeOK
<1>4. /\ proposer'[r].proposed = first
      /\ proposer'[r].next_proposal = IF l < first THEN first ELSE l + 1
      /\ proposer'[r].to_propose = slots(m)
  BY <1>3
<1>5. l \in Int /\ \A x \in vv(m) : x.inst \in Nat /\ x.inst <= l
  <2>1. vv(m) \in SUBSET Proposal
    <3>1. m \in NewView
      BY LeaderTypes
    <3> QED BY <3>1 DEF NewView, validValues
  <2> HIDE DEF vv
  <2>2. CASE vv(m) # {}
    <3>1. l = CHOOSE i \in {w.inst : w \in vv(m)} : \A x \in vv(m) : x.inst <= i
      BY <2>2
    <3>2. LET i == CHOOSE i \in {w.inst : w \in vv(m)} : \A x \in vv(m) : x.inst <= i IN
          i \in Nat /\ \A x \in vv(m) : x.inst <= i
      BY <2>1, <2>2, LastInstance
    <3> HIDE DEF last, l
    <3>3. l \in Nat /\ \A x \in vv(m) : x.inst <= l
      BY <3>1, <3>2
    <3>4. \A x \in vv(m) : x.inst \in Nat
      BY <2>1, ConstantsAssumption DEF Proposal, Instance
    <3> QED BY <3>3, <3>4
  <2>3. CASE vv(m) = {}
    BY <2>3, <1>2
  <2> QED BY <2>2, <2>3
<1>15. ASSUME NEW i, \E w \in vv(m) : w.inst = i
       PROVE  \E w \in vv(m) : w.inst = i /\ value(m, i) = w.val
  <2> HIDE DEF vv
  <2>1. value(m, i) = (CHOOSE w \in vv(m) : w.inst = i).val
    BY <1>15
  <2>2. PICK w : w = CHOOSE x \in vv(m) : x.inst = i
    OBVIOUS
  <2>3. w \in vv(m) /\ w.inst = i
    BY <1>15, <2>2
  <2> QED BY <2>1, <2>2, <2>3
<1> HIDE DEF last, value
<1> DEFINE n == IF l < first THEN 0 ELSE l - first + 1
<1>6. n \in Nat /\ 1 .. (l - first + 1) = 1 .. n
  BY <1>2, <1>5
<1>7. slots(m) = [k \in 1 .. n |-> [view |-> At(r), inst |-> first + k - 1,
                                    val |-> value(m, first + k - 1)]]
  BY <1>6
<1>8. Len(slots(m)) = n
  <2>1. slots(m) \in Seq(Proposal)
    <3> HIDE DEF slots
    <3>1. proposer'[r] \in Proposer
      BY DEF TypeOK
    <3> QED BY <1>4, <3>1 DEF Proposer
  <2>2. DOMAIN slots(m) = 1 .. n
    BY <1>7
  <2> HIDE DEF slots, n
  <2> QED BY <1>6, <2>1, <2>2
<1>9. (IF l < first THEN first ELSE l + 1) = first + n
  BY <1>2, <1>5
<1>10. /\ vc'[r].pending = {} /\ vc'[r].acked = vc[r].acked
       /\ vc'[r].ongoing = vc[r].ongoing /\ vc'[r].certs = vc[r].certs
  BY <1>1 DEF TypeOK, ViewChange
<1>11. Views(r)' = Views(r)
  BY <1>1, NewViewViews
<1>12. Prepares(r)' = Prepares(r)
  BY DEF StartView, Prepares, Broadcast
<1>13. \A k \in 1 .. n : /\ slots(m)[k].view = At(r)
                         /\ slots(m)[k].inst = first + k - 1
                         /\ slots(m)[k].val = value(m, first + k - 1)
  BY <1>7
<1>16. \A w \in vv(m) : w.inst < first + n
  <2> HIDE DEF vv, l
  <2> QED BY <1>2, <1>5
<1>17. \A k \in 1 .. n : (\E w \in vv(m) : w.inst = first + k - 1) =>
          \E w \in vv(m) : w.inst = first + k - 1 /\ slots(m)[k].val = w.val
  <2> HIDE DEF vv, slots, n
  <2> QED BY <1>13, <1>15
<1> HIDE DEF slots, n, first
<1>18. /\ \A w \in validValues(m.commits) : w.inst < first + n
       /\ \A k \in 1 .. n :
             (\E w \in validValues(m.commits) : w.inst = first + k - 1) =>
                \E w \in validValues(m.commits) :
                   w.inst = first + k - 1 /\ proposer'[r].to_propose[k].val = w.val
  BY <1>4, <1>16, <1>17
<1>19. first = certifiedCheckpoint(r).low
  BY DEF first
<1>20. \A k \in 1 .. n : /\ proposer'[r].to_propose[k].view = At(r)
                         /\ proposer'[r].to_propose[k].inst = first + k - 1
  BY <1>4, <1>13
<1> HIDE DEF vv, l
<1>14. StartStep(r, m, n, first)
  BY <1>1, <1>2, <1>4, <1>6, <1>8, <1>9, <1>10, <1>11, <1>12, <1>18, <1>19, <1>20
     DEF StartStep
<1> QED BY <1>14

LEMMA StartViewKept ==
    ASSUME TypeOK, TypeOK', NEW r \in Replica, LeaderInvAt(r), StartView(r)
    PROVE  LeaderInvAt(r)'
BY StartSteps, StartKept

(* getSlot *)
LEMMA GetSlotSteps ==
    ASSUME TypeOK, NEW r \in Replica, NEW val \in Value, GetSlot(r, val)
    PROVE  \E p : SlotStep(r, p)
<1> DEFINE pr == proposer[r]
           p == [view |-> At(r), inst |-> pr.next_proposal, val |-> val]
<1>1. /\ pr \in Proposer /\ pr.next_proposal \in Nat /\ pr.proposed \in Nat
      /\ At(r) \in Nat
  BY LeaderTypes DEF TypeOK
<1>2. /\ pr.next_proposal < MaxInst
      /\ proposer' = [proposer EXCEPT ![r] = NextSlot(@, p)]
      /\ UNCHANGED <<cb, states, vc>>
  BY DEF GetSlot
<1>3. p \in Proposal
  BY <1>1, <1>2, ConstantsAssumption DEF Proposal, Instance, Batch
<1>4. proposer'[r] = NextSlot(pr, p)
  BY <1>2 DEF TypeOK
<1>5. p.view = At(r) /\ p.inst = pr.next_proposal
  OBVIOUS
<1>6. /\ proposer'[r].proposed = pr.proposed
      /\ proposer'[r].next_proposal = pr.next_proposal + 1
      /\ proposer'[r].to_propose = Append(pr.to_propose, p)
  <2> HIDE DEF p, pr
  <2> QED BY <1>1, <1>4 DEF NextSlot, Proposer
<1>7. Prepares(r)' = Prepares(r) /\ Views(r)' = Views(r)
  BY <1>2 DEF Prepares, Broadcast, Views
<1>8. SlotStep(r, p)
  <2> HIDE DEF p
  <2> QED BY <1>2, <1>3, <1>5, <1>6, <1>7 DEF SlotStep
<1> QED BY <1>8

(* propose *)
LEMMA ProposeSteps ==
    ASSUME TypeOK, NEW r \in Replica, Propose(r)
    PROVE  ProposeStep(r)
<1> DEFINE pr == proposer[r]
           p == Head(pr.to_propose)
<1>1. /\ leader(At(r)) = r /\ vc[r].ongoing = {} /\ vc[r].pending = {}
      /\ pr.to_propose # << >>
      /\ proposer' = [proposer EXCEPT
            ![r].proposed = @ + 1, ![r].to_propose = Tail(@)]
      /\ broadcast(r, PrepareMessage(p))
      /\ handlePrepare(r, r, p)
  BY DEF Propose, Free
<1>2. pr \in Proposer /\ pr.to_propose \in Seq(Proposal)
  BY LeaderTypes DEF TypeOK
<1>3. p \in Proposal
  BY <1>1, <1>2
<1>4. /\ proposer'[r].proposed = pr.proposed + 1
      /\ proposer'[r].next_proposal = pr.next_proposal
      /\ proposer'[r].to_propose = Tail(pr.to_propose)
  BY <1>1, <1>2 DEF TypeOK, Proposer
<1>5. Prepares(r)' = Prepares(r) \cup {p}
  <2>1. PrepareMessage(p) \in Message
    BY <1>3, MessageTypes
  <2> HIDE DEF p
  <2> QED BY <1>1, <2>1, PreparesAdd
<1>6. Views(r)' = Views(r)
  BY <1>1, <1>3, PrepareViews
<1>7. vc' = vc
  BY <1>1 DEF handlePrepare
<1> QED BY <1>1, <1>4, <1>5, <1>6, <1>7 DEF ProposeStep

-----------------------------------------------------------------------------
(* The theorem *)

LEMMA InitLeader == ASSUME Init PROVE LeaderInv
<1> SUFFICES ASSUME NEW r \in Replica PROVE LeaderInvAt(r)
  BY DEF LeaderInv
<1>1. /\ cb[r] = << >> /\ \A s \in Replica : states[r][s].at_view = 0
      /\ proposer[r] = [next_proposal |-> 0, proposed |-> 0, to_propose |-> << >>]
      /\ vc[r] = [acked |-> [s \in Replica |-> {}], ongoing |-> {}, certs |-> {},
                  pending |-> {}]
  BY DEF Init, InitState
<1>2. Prepares(r) = {}
  BY <1>1 DEF Prepares, Broadcast
<1>3. /\ At(r) = 0
      /\ vc[r].ongoing = {} /\ vc[r].certs = {} /\ vc[r].pending = {}
      /\ \A s \in Replica : vc[r].acked[s] = {}
  BY <1>1 DEF At
<1>4. /\ proposer[r].next_proposal = 0 /\ proposer[r].proposed = 0
      /\ Len(proposer[r].to_propose) = 0
  BY <1>1
<1>5. AckedSealed(r) /\ Collecting(r) /\ Announced(r)
  BY <1>3, NoneIsNoQuorum DEF AckedSealed, Collecting, Announced
<1>6. Leading(r) /\ Slots(r) /\ Prepared1(r)
  BY <1>2, <1>3, <1>4 DEF Leading, Slots, Prepared1
<1> QED BY <1>5, <1>6 DEF LeaderInvAt

LEMMA NextLeader ==
    ASSUME TypeOK, TypeOK', LeaderInv, Next
    PROVE  LeaderInv'
<1>1. PICK r \in Replica : Step(r)
  BY DEF Next
<1>2. ASSUME NEW q \in Replica \ {r} PROVE LeaderInvAt(q)'
  <2>1. LeaderInvAt(q) /\ LeaderSame(q)
    BY <1>1, OthersLead DEF LeaderInv
  <2> QED BY <2>1, SameKept
<1>3. LeaderInvAt(r)'
  <2>0. LeaderInvAt(r)
    BY DEF LeaderInv
  <2>1. ASSUME NEW s \in Replica,
               \/ \E val \in Value : AcceptRequest(r, val)
               \/ CertifyPrepare(r) \/ PollPromise(r) \/ PollPrepareCertificate(r)
               \/ PollVerifiedCommit(r) \/ Decide(r) \/ PollCheckpointCertificate(r)
               \/ BroadcastCheckpoint(r) \/ PollPrepare(r, s) \/ PollCommit(r, s)
               \/ PollCheckpoint(r, s) \/ PollNewView(r, s) \/ PollFastCommit(r, s)
        PROVE  LeaderInvAt(r)'
    <3>1. LeaderSame(r)
      BY <2>1, OtherSteps
    <3> QED BY <2>0, <3>1, SameKept
  <2>2. ASSUME NEW val \in Value, GetSlot(r, val) PROVE LeaderInvAt(r)'
    BY <2>0, <2>2, GetSlotSteps, SlotKept
  <2>3. CASE Propose(r)
    BY <2>0, <2>3, ProposeSteps, ProposeKept
  <2>4. ASSUME NEW s \in Replica, PollSealView(r, s) \/ ChangeView(r)
        PROVE  LeaderInvAt(r)'
    BY <2>0, <2>4, SealViewKept
  <2>5. ASSUME NEW s \in Replica, PollVcStateCertificate(r, s) PROVE LeaderInvAt(r)'
    BY <2>0, <2>5, PollVcStateCertificateKept
  <2>6. CASE StartView(r)
    BY <2>0, <2>6, StartViewKept
  <2> QED BY <1>1, <2>1, <2>2, <2>3, <2>4, <2>5, <2>6 DEF Step
<1> QED BY <1>2, <1>3 DEF LeaderInv

LEMMA LeadersAgree == TypeOK /\ LeaderInv => OneProposal
<1> SUFFICES ASSUME TypeOK, LeaderInv, NEW r \in Replica, NEW s \in Replica,
                    NEW p \in Prepares(r), NEW q \in Prepares(s),
                    p.view = q.view, p.inst = q.inst
             PROVE  p = q
  BY DEF OneProposal
<1>1. leader(p.view) = r /\ leader(q.view) = s
  BY DEF LeaderInv, LeaderInvAt, Prepared1
<1>2. r = s
  BY <1>1
<1> QED BY <1>2 DEF LeaderInv, LeaderInvAt, Prepared1

LEMMA AlwaysLeading == Spec => []LeaderInv
<1>1. Init => LeaderInv
  BY InitLeader
<1>2. TypeOK /\ TypeOK' /\ LeaderInv /\ [Next]_vars => LeaderInv'
  <2> SUFFICES ASSUME TypeOK, TypeOK', LeaderInv, [Next]_vars PROVE LeaderInv'
    OBVIOUS
  <2>1. CASE Next
    BY <2>1, NextLeader
  <2>2. CASE UNCHANGED vars
    <3>1. \A q \in Replica : LeaderSame(q)
      BY <2>2 DEF vars, LeaderSame, Prepares, Broadcast, Views
    <3> QED BY <3>1, SameKept DEF LeaderInv
  <2> QED BY <2>1, <2>2
<1> QED BY <1>1, <1>2, TypeCorrect, PTL DEF Spec

(* No leader prepares two batches for an instance of its view, across       *)
(* getSlot, propose, and the restart of next_proposal by every NewView.     *)
THEOREM OneProposalPerView == Spec => []OneProposal
BY AlwaysLeading, TypeCorrect, LeadersAgree, PTL

-----------------------------------------------------------------------------
(***************************************************************************)
(* Two theorems for every value of Consensus's constants:                  *)
(*   SealedStatesAlwaysAgree: whatever the replicas had received when they *)
(*     handled a SealView, they certify the same state of its sender;      *)
(*   CommitsAlwaysFit: the commits kept for a replica fit their pool.      *)
(*                                                                         *)
(* Neither is inductive.  What a replica keeps of a sender is a function   *)
(* of the prefix of the sender's broadcasts that it handled (Follows), and *)
(* the SealView of a view ends one prefix only.  The commits kept are in   *)
(* the sender's window because a sender never commits below a checkpoint   *)
(* that it broadcast.                                                      *)
(***************************************************************************)

(* The views sealed by the first k broadcasts of q. *)
SealsIn(q, k) == {j \in 1 .. k : q[j].kind = "SealView"}
Seals(q, k) == Cardinality(SealsIn(q, k))

(* The commits that the first k broadcasts of q leave: no later one is for  *)
(* their instance, no later checkpoint covers it.                           *)
Overrides(m, c) ==
    \/ m.kind = "Commit" /\ m.p.inst = c.inst
    \/ m.kind = "Checkpoint" /\ ~(c.inst >= m.c.low)
KeptAt(q, k, j) == q[j].kind = "Commit" /\ \A i \in j + 1 .. k : ~Overrides(q[i], q[j].p)
Kept(q, k) == {q[j].p : j \in {n \in 1 .. k : KeptAt(q, k, n)}}

(* What r keeps of another replica is what it handled of it. *)
Replayed(r, s) ==
    LET st == states[r][s] IN
    /\ st.next_cb <= Len(cb[s])
    /\ st.at_view = Seals(cb[s], st.next_cb)
    /\ st.commits = Kept(cb[s], st.next_cb)

(* r handles what it broadcasts at once, unless it throws. *)
OwnReplayed(r) ==
    /\ At(r) = Seals(cb[r], Len(cb[r]))
    /\ err[r] = "ok" => states[r][r].commits = Kept(cb[r], Len(cb[r]))

(* A share for a sealed state is for what precedes a SealView. *)
SharesSealed(r) ==
    \A a \in sent[r].states : \E k \in 0 .. Len(cb[a.owner]) - 1 :
        /\ cb[a.owner][k + 1].kind = "SealView"
        /\ a.view = Seals(cb[a.owner], k)
        /\ a.commits = Kept(cb[a.owner], k)

(* The commits kept of a sender are of its window, one per instance. *)
InWindow(r, s) ==
    LET st == states[r][s] IN
    /\ \A c \in st.commits : st.low <= c.inst /\ c.inst < st.low + Window
    /\ \A c, d \in st.commits : c.inst = d.inst => c = d

(* The window of a sender starts at a checkpoint that it broadcast. *)
WindowSeen(r, s) ==
    LET st == states[r][s] IN
    st.low = 0 \/ \E j \in 1 .. st.next_cb :
                     cb[s][j].kind = "Checkpoint" /\ cb[s][j].c.low = st.low

(* A sender commits nothing below a checkpoint that it broadcast. *)
CommitsAbove(r) ==
    /\ \A k \in 1 .. Len(cb[r]) : \A j \in 1 .. k :
          cb[r][j].kind = "Checkpoint" /\ cb[r][k].kind = "Commit"
             => cb[r][j].c.low <= cb[r][k].p.inst
    /\ err[r] = "ok" =>
          \A j \in 1 .. Len(cb[r]) :
             cb[r][j].kind = "Checkpoint" => cb[r][j].c.low <= states[r][r].low

ReplayInvAt(r) ==
    /\ \A s \in Replica \ {r} : Replayed(r, s) /\ WindowSeen(r, s)
    /\ \A s \in Replica : InWindow(r, s)
    /\ OwnReplayed(r) /\ SharesSealed(r) /\ CommitsAbove(r)
ReplayInv == \A r \in Replica : ReplayInvAt(r)

-----------------------------------------------------------------------------
(* Prefixes of broadcasts *)

LEMMA SealsFinite ==
    ASSUME NEW q, NEW k \in Nat
    PROVE  IsFiniteSet(SealsIn(q, k)) /\ Seals(q, k) \in Nat
<1>1. IsFiniteSet(1 .. k)
  BY FS_Interval
<1>2. SealsIn(q, k) \subseteq 1 .. k
  BY DEF SealsIn
<1> QED BY <1>1, <1>2, FS_Subset, FS_CardinalityType DEF Seals

LEMMA SealsStep ==
    ASSUME NEW q, NEW k \in Nat
    PROVE  Seals(q, k + 1) = IF q[k + 1].kind = "SealView" THEN Seals(q, k) + 1
                             ELSE Seals(q, k)
<1>1. SealsIn(q, k + 1) = IF q[k + 1].kind = "SealView" THEN SealsIn(q, k) \cup {k + 1}
                          ELSE SealsIn(q, k)
  BY DEF SealsIn
<1>2. k + 1 \notin SealsIn(q, k)
  BY DEF SealsIn
<1>3. IsFiniteSet(SealsIn(q, k))
  BY SealsFinite
<1>4. Cardinality(SealsIn(q, k) \cup {k + 1}) = Cardinality(SealsIn(q, k)) + 1
  BY <1>2, <1>3, FS_AddElement
<1> QED BY <1>1, <1>4 DEF Seals

LEMMA SealsGrow ==
    ASSUME NEW q, NEW k \in Nat, NEW l \in Nat, k <= l
    PROVE  Seals(q, k) <= Seals(q, l)
<1>1. SealsIn(q, k) \subseteq SealsIn(q, l)
  BY DEF SealsIn
<1>2. IsFiniteSet(SealsIn(q, l))
  BY SealsFinite
<1> QED BY <1>1, <1>2, FS_Subset DEF Seals

(* A SealView ends one prefix of a view only. *)
LEMMA SealsOnce ==
    ASSUME NEW q, NEW k \in Nat, NEW l \in Nat,
           q[k + 1].kind = "SealView", q[l + 1].kind = "SealView",
           Seals(q, k) = Seals(q, l)
    PROVE  k = l
<1>1. ASSUME NEW i \in Nat, NEW j \in Nat, i < j, q[i + 1].kind = "SealView"
      PROVE  Seals(q, i) < Seals(q, j)
  <2>1. Seals(q, i + 1) = Seals(q, i) + 1
    BY <1>1, SealsStep
  <2>2. i + 1 \in Nat /\ i + 1 <= j
    BY <1>1
  <2>3. Seals(q, i + 1) <= Seals(q, j)
    BY <2>2, SealsGrow
  <2>4. Seals(q, i) \in Nat /\ Seals(q, j) \in Nat
    BY SealsFinite
  <2> QED BY <2>1, <2>3, <2>4
<1>2. Seals(q, k) \in Nat /\ Seals(q, l) \in Nat
  BY SealsFinite
<1>3. ~(k < l) /\ ~(l < k)
  BY <1>1, <1>2
<1> QED BY <1>3

LEMMA NothingHandled == ASSUME NEW q PROVE Seals(q, 0) = 0 /\ Kept(q, 0) = {}
<1>1. SealsIn(q, 0) = {}
  BY DEF SealsIn
<1>2. Kept(q, 0) = {}
  BY DEF Kept
<1> QED BY <1>1, <1>2, FS_EmptySet DEF Seals

(* The commits left after one more broadcast. *)
LEMMA KeptStep ==
    ASSUME NEW q, NEW k \in Nat
    PROVE  /\ q[k + 1].kind = "Commit" =>
                 Kept(q, k + 1) = {d \in Kept(q, k) : d.inst # q[k + 1].p.inst}
                                     \cup {q[k + 1].p}
           /\ q[k + 1].kind = "Checkpoint" =>
                 Kept(q, k + 1) = PruneCommits(Kept(q, k), q[k + 1].c.low)
           /\ q[k + 1].kind \notin {"Commit", "Checkpoint"} => Kept(q, k + 1) = Kept(q, k)
<1> DEFINE m == q[k + 1]
<1>1. ASSUME NEW j \in 1 .. k
      PROVE  KeptAt(q, k + 1, j) <=> KeptAt(q, k, j) /\ ~Overrides(m, q[j].p)
  <2>1. j + 1 .. k + 1 = (j + 1 .. k) \cup {k + 1}
    OBVIOUS
  <2> QED BY <2>1 DEF KeptAt
<1>2. KeptAt(q, k + 1, k + 1) <=> m.kind = "Commit"
  <2>1. (k + 1) + 1 .. k + 1 = {}
    OBVIOUS
  <2> QED BY <2>1 DEF KeptAt
<1> DEFINE K == {n \in 1 .. k : KeptAt(q, k, n)}
           K1 == {n \in 1 .. k + 1 : KeptAt(q, k + 1, n)}
<1>3. Kept(q, k) = {q[j].p : j \in K} /\ Kept(q, k + 1) = {q[j].p : j \in K1}
  BY DEF Kept
<1>4. K1 = {n \in K : ~Overrides(m, q[n].p)} \cup (IF m.kind = "Commit" THEN {k + 1} ELSE {})
  BY <1>1, <1>2
<1> HIDE DEF K, K1
<1>5. Kept(q, k + 1) = {d \in Kept(q, k) : ~Overrides(m, d)}
                          \cup (IF m.kind = "Commit" THEN {m.p} ELSE {})
  BY <1>3, <1>4
<1> QED BY <1>5 DEF Overrides, PruneCommits

(* What is broadcast later does not matter to a prefix. *)
LEMMA PrefixKept ==
    ASSUME NEW q, NEW q2, NEW k \in Nat, \A j \in 1 .. k : q2[j] = q[j]
    PROVE  Seals(q2, k) = Seals(q, k) /\ Kept(q2, k) = Kept(q, k)
<1>1. SealsIn(q2, k) = SealsIn(q, k)
  BY DEF SealsIn
<1>2. \A j \in 1 .. k : KeptAt(q2, k, j) = KeptAt(q, k, j)
  BY DEF KeptAt
<1>3. {n \in 1 .. k : KeptAt(q2, k, n)} = {n \in 1 .. k : KeptAt(q, k, n)}
  BY <1>2
<1>4. Kept(q2, k) = Kept(q, k)
  BY <1>3 DEF Kept
<1> QED BY <1>1, <1>4 DEF Seals

-----------------------------------------------------------------------------
(* What a step of r does to the states it keeps *)

Same(st2, st) == /\ st2.at_view = st.at_view /\ st2.low = st.low
                 /\ st2.commits = st.commits
Unseen(r, s) == /\ Same(states'[r][s], states[r][s])
                /\ s # r => states'[r][s].next_cb = states[r][s].next_cb

(* Handling m of a sender. *)
Effect(st2, st, m) ==
    /\ st2.at_view = IF m.kind = "SealView" THEN st.at_view + 1 ELSE st.at_view
    /\ st2.low = IF m.kind = "Checkpoint" THEN m.c.low ELSE st.low
    /\ m.kind = "Commit" => m.p.view = st.at_view /\ m.p.inst < st.low + Window
    /\ m.kind = "Commit" => st2.commits = {d \in st.commits : d.inst # m.p.inst} \cup {m.p}
    /\ m.kind = "Checkpoint" =>
          st2.commits = PruneCommits(st.commits, m.c.low) /\ m.c.low > st.low
    /\ m.kind \notin {"Commit", "Checkpoint"} => st2.commits = st.commits

Shares(r, s, m) ==
    sent'[r].states =
       IF m.kind = "SealView"
       THEN sent[r].states \cup {[owner |-> s, view |-> states[r][s].at_view,
                                  commits |-> states[r][s].commits]}
       ELSE sent[r].states

Idle(r) ==
    /\ cb' = cb
    /\ \A s \in Replica : Unseen(r, s)
    /\ sent'[r].states = sent[r].states
    /\ err'[r] = "ok" => err[r] = "ok"

Receives(r, s) ==
    /\ cb' = cb /\ s # r
    /\ states[r][s].next_cb < Len(cb[s])
    /\ Effect(states'[r][s], states[r][s], NextCb(r, s))
    /\ states'[r][s].next_cb = states[r][s].next_cb + 1
    /\ \A t \in Replica \ {s} : Unseen(r, t)
    /\ Shares(r, s, NextCb(r, s))
    /\ err'[r] = "ok" => err[r] = "ok"

Sends(r, m) ==
    /\ m \in Message /\ broadcast(r, m) /\ err[r] = "ok"
    /\ \/ Effect(states'[r][r], states[r][r], m)
       \/ /\ err'[r] # "ok" /\ m.kind # "SealView"
          /\ Same(states'[r][r], states[r][r])
    /\ \A s \in Replica \ {r} : Unseen(r, s)
    /\ Shares(r, r, m)
    /\ m.kind = "Commit" => /\ m.p \in prepare_certifier[r].tail
                            /\ m.p.view = At(r) /\ states[r][r].low <= m.p.inst
    /\ m.kind = "Checkpoint" => m.c = certifiedCheckpoint(r)

LEMMA StateEffects ==
    ASSUME NEW st \in ReplicaState
    PROVE  /\ Same(Verified(st), st) /\ Verified(st).next_cb = st.next_cb
           /\ Same(Received(st), st) /\ Received(st).next_cb = st.next_cb + 1
           /\ Sealed(st).at_view = st.at_view + 1 /\ Sealed(st).low = st.low
           /\ Sealed(st).commits = st.commits /\ Sealed(st).next_cb = st.next_cb + 1
           /\ \A p : Same(Prepared(st, p), st) /\ Prepared(st, p).next_cb = st.next_cb + 1
           /\ \A m : Same(ViewStarted(st, m), st)
                       /\ ViewStarted(st, m).next_cb = st.next_cb + 1
           /\ \A c, n : /\ Committed(st, c, n).at_view = st.at_view
                        /\ Committed(st, c, n).low = st.low
                        /\ Committed(st, c, n).next_cb = st.next_cb + 1
                        /\ Committed(st, c, n).commits =
                              {d \in st.commits : d.inst # c.inst} \cup {c}
           /\ \A c : /\ Checkpointed(st, c).at_view = st.at_view
                     /\ Checkpointed(st, c).low = c.low
                     /\ Checkpointed(st, c).next_cb = st.next_cb + 1
                     /\ Checkpointed(st, c).commits = PruneCommits(st.commits, c.low)
<1> USE DEF ReplicaState
<1>1. /\ Same(Verified(st), st) /\ Verified(st).next_cb = st.next_cb
      /\ Same(Received(st), st) /\ Received(st).next_cb = st.next_cb + 1
      /\ Sealed(st).at_view = st.at_view + 1 /\ Sealed(st).low = st.low
      /\ Sealed(st).commits = st.commits /\ Sealed(st).next_cb = st.next_cb + 1
  BY DEF Verified, Received, Sealed, Same
<1>2. /\ \A p : Same(Prepared(st, p), st) /\ Prepared(st, p).next_cb = st.next_cb + 1
      /\ \A m : Same(ViewStarted(st, m), st)
                  /\ ViewStarted(st, m).next_cb = st.next_cb + 1
  BY DEF Prepared, ViewStarted, Same
<1>3. \A c, n : /\ Committed(st, c, n).at_view = st.at_view
                /\ Committed(st, c, n).low = st.low
                /\ Committed(st, c, n).next_cb = st.next_cb + 1
                /\ Committed(st, c, n).commits = {d \in st.commits : d.inst # c.inst} \cup {c}
  BY DEF Committed
<1>4. \A c : /\ Checkpointed(st, c).at_view = st.at_view
             /\ Checkpointed(st, c).low = c.low
             /\ Checkpointed(st, c).next_cb = st.next_cb + 1
             /\ Checkpointed(st, c).commits = PruneCommits(st.commits, c.low)
  BY DEF Checkpointed
<1> QED BY <1>1, <1>2, <1>3, <1>4

(* The handlers, on the state of s. *)
LEMMA OneUnseen ==
    ASSUME TypeOK, NEW r \in Replica, NEW s \in Replica, NEW st,
           states' = [states EXCEPT ![r][s] = st]
    PROVE  /\ states'[r][s] = st
           /\ \A t \in Replica \ {s} : Unseen(r, t)
<1>1. /\ states'[r][s] = st
      /\ \A t \in Replica \ {s} : states'[r][t] = states[r][t]
  BY OneState
<1> QED BY <1>1 DEF Unseen, Same

LEMMA CertifyStates ==
    ASSUME TypeOK, NEW r \in Replica, NEW p, tryCertifyPrepare(r, p)
    PROVE  sent'[r].states = sent[r].states
<1>1. sent \in [Replica -> Emitted] /\ sent[r] \in Emitted
  BY DEF TypeOK
<1>2. ASSUME NEW x, NEW y, sent' = [sent EXCEPT ![r].promises = x, ![r].prepares = y]
      PROVE  sent'[r].states = sent[r].states
  BY <1>1, <1>2 DEF Emitted
<1> QED BY ZenonT(40), <1>2 DEF tryCertifyPrepare

LEMMA PrepareEffect ==
    ASSUME TypeOK, NEW r \in Replica, NEW s \in Replica, NEW p \in Proposal,
           handlePrepare(r, s, p)
    PROVE  /\ \A t \in Replica \ {s} : Unseen(r, t)
           /\ Same(states'[r][s], states[r][s])
           /\ \/ states'[r][s].next_cb = states[r][s].next_cb + 1
              \/ err'[r] # "ok" /\ states' = states
           /\ err'[r] = "ok" => err[r] = "ok"
           /\ sent'[r].states = sent[r].states
<1>0. states \in [Replica -> [Replica -> ReplicaState]] /\ states[r][s] \in ReplicaState
  BY DEF TypeOK
<1>1. CASE ByzantinePrepare(r, s, p) /\ Throw(r, "Byzantine prepare") /\ UNCHANGED <<states, sent>>
  <2>1. err'[r] = "Byzantine prepare"
    BY <1>1 DEF Throw, TypeOK
  <2> QED BY <1>1, <2>1 DEF Unseen, Same
<1>2. CASE states' = [states EXCEPT ![r][s] = Received(states[r][s])] /\ UNCHANGED <<sent, err>>
  <2> DEFINE st == Received(states[r][s])
  <2>1. Same(st, states[r][s]) /\ st.next_cb = states[r][s].next_cb + 1
    BY <1>0, StateEffects
  <2>2. states' = [states EXCEPT ![r][s] = st]
    BY <1>2
  <2> HIDE DEF st
  <2>3. states'[r][s] = st /\ \A t \in Replica \ {s} : Unseen(r, t)
    BY <2>2, OneUnseen
  <2> QED BY <1>2, <2>1, <2>3
<1>3. ASSUME NEW replay,
             states' = [states EXCEPT ![r] =
                [[t \in Replica |-> IF t \in replay THEN Verified(states[r][t])
                                    ELSE states[r][t]]
                 EXCEPT ![s] = Prepared(@, p)]],
             tryCertifyPrepare(r, p)
      PROVE  /\ \A t \in Replica \ {s} : Unseen(r, t)
             /\ Same(states'[r][s], states[r][s])
             /\ states'[r][s].next_cb = states[r][s].next_cb + 1
             /\ err'[r] = "ok" => err[r] = "ok"
             /\ sent'[r].states = sent[r].states
  <2> DEFINE seen == [t \in Replica |-> IF t \in replay THEN Verified(states[r][t])
                                        ELSE states[r][t]]
  <2>1. \A t \in Replica : /\ Same(seen[t], states[r][t]) /\ seen[t] \in ReplicaState
                           /\ seen[t].next_cb = states[r][t].next_cb
    <3>1. ASSUME NEW t \in Replica
          PROVE  /\ Verified(states[r][t]) \in ReplicaState
                 /\ Same(Verified(states[r][t]), states[r][t])
                 /\ Verified(states[r][t]).next_cb = states[r][t].next_cb
                 /\ Same(states[r][t], states[r][t])
                 /\ states[r][t] \in ReplicaState
      <4>1. states[r][t] \in ReplicaState
        BY <1>0
      <4> QED BY <4>1, StateEffects, StateTypes DEF Same
    <3> QED BY <3>1
  <2>2. /\ Same(Prepared(seen[s], p), seen[s])
        /\ Prepared(seen[s], p).next_cb = seen[s].next_cb + 1
    <3> HIDE DEF seen
    <3> QED BY <2>1, StateEffects
  <2>3. states'[r] = [seen EXCEPT ![s] = Prepared(seen[s], p)]
    BY <1>0, <1>3
  <2>4. \A t \in Replica : states'[r][t] = IF t = s THEN Prepared(seen[s], p) ELSE seen[t]
    BY <2>3
  <2>5. err'[r] = "ok" => err[r] = "ok"
    BY <1>3 DEF tryCertifyPrepare, Throw, TypeOK
  <2>6. sent'[r].states = sent[r].states
    BY <1>3, CertifyStates
  <2> HIDE DEF seen
  <2> QED BY <2>1, <2>2, <2>4, <2>5, <2>6 DEF Unseen, Same
<1> QED BY <1>1, <1>2, <1>3 DEF handlePrepare

LEMMA CommitEffect ==
    ASSUME TypeOK, NEW r \in Replica, NEW s \in Replica, NEW c \in Proposal,
           handleCommit(r, s, c)
    PROVE  /\ \A t \in Replica \ {s} : Unseen(r, t)
           /\ \/ /\ Effect(states'[r][s], states[r][s], CommitMessage(c))
                 /\ states'[r][s].next_cb = states[r][s].next_cb + 1
              \/ err'[r] # "ok" /\ states' = states
           /\ err'[r] = "ok" => err[r] = "ok"
           /\ sent'[r].states = sent[r].states
<1>0. states[r][s] \in ReplicaState /\ sent' = sent
  <2>1. sent' = sent
    BY DEF handleCommit, fastVars
  <2> QED BY <2>1 DEF TypeOK
<1>1. CASE \E w \in Exception : Throw(r, w) /\ states' = states
  <2>1. err'[r] # "ok"
    BY <1>1 DEF Throw, TypeOK, Exception
  <2> QED BY <1>0, <1>1, <2>1 DEF Unseen, Same
<1>2. ASSUME NEW n, ~ByzantineCommit(r, s, c),
             states' = [states EXCEPT ![r][s] = Committed(states[r][s], c, n)],
             verifyCommit(r, s, c)
      PROVE  /\ \A t \in Replica \ {s} : Unseen(r, t)
             /\ Effect(states'[r][s], states[r][s], CommitMessage(c))
             /\ states'[r][s].next_cb = states[r][s].next_cb + 1
             /\ err'[r] = "ok" => err[r] = "ok"
  <2> DEFINE st == Committed(states[r][s], c, n)
  <2>1. /\ st.at_view = states[r][s].at_view /\ st.low = states[r][s].low
        /\ st.next_cb = states[r][s].next_cb + 1
        /\ st.commits = {d \in states[r][s].commits : d.inst # c.inst} \cup {c}
    BY <1>0, StateEffects
  <2>2. states' = [states EXCEPT ![r][s] = st]
    BY <1>2
  <2> HIDE DEF st
  <2>3. states'[r][s] = st /\ \A t \in Replica \ {s} : Unseen(r, t)
    BY <2>2, OneUnseen
  <2>4. c.view = states[r][s].at_view /\ c.inst < states[r][s].low + Window
    <3>1. states[r][s].low \in Nat /\ c.inst \in Nat
      BY <1>0, ConstantsAssumption DEF ReplicaState, Proposal, Instance
    <3> QED BY <1>2, <3>1, ConstantsAssumption DEF ByzantineCommit, High
  <2>5. Effect(states'[r][s], states[r][s], CommitMessage(c))
    BY <2>1, <2>3, <2>4 DEF Effect, CommitMessage
  <2>6. err'[r] = "ok" => err[r] = "ok"
    BY <1>2 DEF verifyCommit, countCommit, Throw, TypeOK
  <2> QED BY <2>1, <2>3, <2>5, <2>6
<1> QED BY <1>0, <1>1, <1>2 DEF handleCommit, Exception

LEMMA CheckpointEffect ==
    ASSUME TypeOK, NEW r \in Replica, NEW s \in Replica, NEW c \in Checkpoint,
           handleCheckpoint(r, s, c)
    PROVE  /\ \A t \in Replica \ {s} : Unseen(r, t)
           /\ \/ /\ Effect(states'[r][s], states[r][s], CheckpointMessage(c))
                 /\ states'[r][s].next_cb = states[r][s].next_cb + 1
              \/ err'[r] # "ok" /\ states' = states
           /\ err'[r] = "ok" => err[r] = "ok"
<1>0. states[r][s] \in ReplicaState
  BY DEF TypeOK
<1>1. CASE Throw(r, "Byzantine checkpoint") /\ states' = states
  <2>1. err'[r] # "ok"
    BY <1>1 DEF Throw, TypeOK
  <2> QED BY <1>1, <2>1 DEF Unseen, Same
<1>2. CASE /\ c.low > states[r][s].low /\ UNCHANGED err
           /\ states' = [states EXCEPT ![r][s] = Checkpointed(states[r][s], c)]
  <2> DEFINE st == Checkpointed(states[r][s], c)
  <2>1. /\ st.at_view = states[r][s].at_view /\ st.low = c.low
        /\ st.next_cb = states[r][s].next_cb + 1
        /\ st.commits = PruneCommits(states[r][s].commits, c.low)
    BY <1>0, StateEffects
  <2>2. states' = [states EXCEPT ![r][s] = st]
    BY <1>2
  <2> HIDE DEF st
  <2>3. states'[r][s] = st /\ \A t \in Replica \ {s} : Unseen(r, t)
    BY <2>2, OneUnseen
  <2>4. Effect(states'[r][s], states[r][s], CheckpointMessage(c))
    BY <1>2, <2>1, <2>3 DEF Effect, CheckpointMessage
  <2> QED BY <1>2, <2>1, <2>3, <2>4
<1> QED BY <1>1, <1>2 DEF handleCheckpoint

LEMMA SealViewEffect ==
    ASSUME TypeOK, NEW r \in Replica, NEW s \in Replica, handleSealView(r, s),
           NEW m, m.kind = "SealView"
    PROVE  /\ \A t \in Replica \ {s} : Unseen(r, t)
           /\ Effect(states'[r][s], states[r][s], m)
           /\ states'[r][s].next_cb = states[r][s].next_cb + 1
           /\ Shares(r, s, m)
<1>0. /\ states[r][s] \in ReplicaState
      /\ sent \in [Replica -> Emitted] /\ sent[r] \in Emitted
  BY DEF TypeOK
<1> DEFINE st == Sealed(states[r][s])
           a == [owner |-> s, view |-> states[r][s].at_view, commits |-> states[r][s].commits]
<1>1. /\ st.at_view = states[r][s].at_view + 1 /\ st.low = states[r][s].low
      /\ st.next_cb = states[r][s].next_cb + 1
      /\ st.commits = states[r][s].commits
  BY <1>0, StateEffects
<1>2. states' = [states EXCEPT ![r][s] = st]
  BY DEF handleSealView
<1>3. sent' = [sent EXCEPT ![r].states = @ \cup {a}]
  BY DEF handleSealView, serializeState
<1>4. sent'[r].states = sent[r].states \cup {a}
  <2> HIDE DEF a
  <2> QED BY <1>0, <1>3 DEF Emitted
<1>5. Shares(r, s, m)
  BY <1>4 DEF Shares
<1> HIDE DEF st
<1>6. states'[r][s] = st /\ \A t \in Replica \ {s} : Unseen(r, t)
  BY <1>2, OneUnseen
<1>7. Effect(states'[r][s], states[r][s], m)
  BY <1>1, <1>6 DEF Effect
<1> QED BY <1>1, <1>5, <1>6, <1>7

LEMMA NewViewEffect ==
    ASSUME TypeOK, NEW r \in Replica, NEW s \in Replica, NEW m, handleNewView(r, s, m)
    PROVE  /\ \A t \in Replica \ {s} : Unseen(r, t)
           /\ Same(states'[r][s], states[r][s])
           /\ states'[r][s].next_cb = states[r][s].next_cb + 1
<1>0. states[r][s] \in ReplicaState
  BY DEF TypeOK
<1> DEFINE st == ViewStarted(states[r][s], m)
<1>1. Same(st, states[r][s]) /\ st.next_cb = states[r][s].next_cb + 1
  BY <1>0, StateEffects
<1>2. states' = [states EXCEPT ![r][s] = st]
  BY DEF handleNewView
<1> HIDE DEF st
<1>3. states'[r][s] = st /\ \A t \in Replica \ {s} : Unseen(r, t)
  BY <1>2, OneUnseen
<1> QED BY <1>1, <1>3

(* Messages that change neither the view, the window nor the commits. *)
LEMMA SameEffect ==
    ASSUME NEW st2, NEW st, Same(st2, st), NEW m,
           m.kind \notin {"Commit", "Checkpoint", "SealView"}
    PROVE  Effect(st2, st, m)
BY DEF Same, Effect

(* pollCbs *)
LEMMA PollEffects ==
    ASSUME TypeOK, NEW r \in Replica, NEW s \in Replica,
           \/ PollPrepare(r, s) \/ PollCommit(r, s) \/ PollCheckpoint(r, s)
           \/ PollSealView(r, s) \/ PollNewView(r, s)
    PROVE  Idle(r) \/ Receives(r, s)
<1> DEFINE m == NextCb(r, s)
<1>1. /\ s # r /\ states[r][s].next_cb < Len(cb[s]) /\ cb' = cb /\ m \in Message
  BY NextCbType DEF PollPrepare, PollCommit, PollCheckpoint, PollSealView, PollNewView, PollCb
<1>2. CASE PollPrepare(r, s)
  <2>1. m.kind = "Prepare" /\ m.p \in Proposal /\ handlePrepare(r, s, m.p)
    BY <1>1, <1>2, MessageParts DEF PollPrepare, PollCb
  <2> HIDE DEF m
  <2>2. /\ \A t \in Replica \ {s} : Unseen(r, t)
        /\ Same(states'[r][s], states[r][s])
        /\ \/ states'[r][s].next_cb = states[r][s].next_cb + 1
           \/ err'[r] # "ok" /\ states' = states
        /\ err'[r] = "ok" => err[r] = "ok"
        /\ sent'[r].states = sent[r].states
    BY <2>1, PrepareEffect
  <2>3. Effect(states'[r][s], states[r][s], m) /\ Shares(r, s, m)
    BY <2>1, <2>2, SameEffect DEF Shares
  <2> QED BY <1>1, <2>2, <2>3 DEF Idle, Receives, Unseen, m
<1>3. CASE PollCommit(r, s)
  <2>1. m.kind = "Commit" /\ m.p \in Proposal /\ handleCommit(r, s, m.p)
    BY <1>1, <1>3, MessageParts DEF PollCommit, PollCb
  <2> HIDE DEF m
  <2>2. /\ \A t \in Replica \ {s} : Unseen(r, t)
        /\ \/ /\ Effect(states'[r][s], states[r][s], CommitMessage(m.p))
              /\ states'[r][s].next_cb = states[r][s].next_cb + 1
           \/ err'[r] # "ok" /\ states' = states
        /\ err'[r] = "ok" => err[r] = "ok"
        /\ sent'[r].states = sent[r].states
    BY <2>1, CommitEffect
  <2>3. Effect(states'[r][s], states[r][s], CommitMessage(m.p))
           => Effect(states'[r][s], states[r][s], m)
    BY <2>1 DEF Effect, CommitMessage
  <2>4. Shares(r, s, m)
    BY <2>1, <2>2 DEF Shares
  <2> QED BY <1>1, <2>2, <2>3, <2>4 DEF Idle, Receives, Unseen, Same, m
<1>4. CASE PollCheckpoint(r, s)
  <2>1. m.kind = "Checkpoint" /\ m.c \in Checkpoint /\ handleCheckpoint(r, s, m.c) /\ sent' = sent
    BY <1>1, <1>4, MessageParts DEF PollCheckpoint, PollCb
  <2> HIDE DEF m
  <2>2. /\ \A t \in Replica \ {s} : Unseen(r, t)
        /\ \/ /\ Effect(states'[r][s], states[r][s], CheckpointMessage(m.c))
              /\ states'[r][s].next_cb = states[r][s].next_cb + 1
           \/ err'[r] # "ok" /\ states' = states
        /\ err'[r] = "ok" => err[r] = "ok"
    BY <2>1, CheckpointEffect
  <2>3. Effect(states'[r][s], states[r][s], CheckpointMessage(m.c))
           => Effect(states'[r][s], states[r][s], m)
    BY <2>1 DEF Effect, CheckpointMessage
  <2>4. Shares(r, s, m)
    BY <2>1, <2>2 DEF Shares
  <2> QED BY <1>1, <2>1, <2>2, <2>3, <2>4 DEF Idle, Receives, Unseen, Same, m
<1>5. CASE PollSealView(r, s)
  <2>1. m.kind = "SealView" /\ handleSealView(r, s) /\ err' = err
    BY <1>1, <1>5 DEF PollSealView, PollCb
  <2> HIDE DEF m
  <2>2. /\ \A t \in Replica \ {s} : Unseen(r, t)
        /\ Effect(states'[r][s], states[r][s], m)
        /\ states'[r][s].next_cb = states[r][s].next_cb + 1
        /\ Shares(r, s, m)
    BY <2>1, SealViewEffect
  <2> QED BY <1>1, <2>1, <2>2 DEF Receives, m
<1>6. CASE PollNewView(r, s)
  <2>1. m.kind = "NewView" /\ handleNewView(r, s, m) /\ err' = err /\ sent' = sent
    BY <1>1, <1>6 DEF PollNewView, PollCb
  <2> HIDE DEF m
  <2>2. /\ \A t \in Replica \ {s} : Unseen(r, t)
        /\ Same(states'[r][s], states[r][s])
        /\ states'[r][s].next_cb = states[r][s].next_cb + 1
    BY <2>1, NewViewEffect
  <2>3. Effect(states'[r][s], states[r][s], m) /\ Shares(r, s, m)
    BY <2>1, <2>2, SameEffect DEF Shares
  <2> QED BY <1>1, <2>1, <2>2, <2>3 DEF Receives, m
<1> QED BY <1>2, <1>3, <1>4, <1>5, <1>6

(* The steps that send nothing and receive nothing over tail-cb. *)
LEMMA IdleSteps ==
    ASSUME TypeOK, NEW r \in Replica,
           \/ \E val \in Value : GetSlot(r, val) \/ AcceptRequest(r, val)
           \/ CertifyPrepare(r) \/ PollPromise(r) \/ PollVerifiedCommit(r)
           \/ Decide(r) \/ PollCheckpointCertificate(r) \/ StartView(r)
           \/ \E s \in Replica : PollFastCommit(r, s)
    PROVE  Idle(r)
<1>0. /\ sent \in [Replica -> Emitted] /\ sent[r] \in Emitted
      /\ err \in [Replica -> Exception \cup {"ok"}]
      /\ \A s \in Replica : states[r][s] \in ReplicaState
  BY DEF TypeOK
<1>1. ASSUME cb' = cb, states' = states, sent'[r].states = sent[r].states,
             err'[r] = "ok" => err[r] = "ok"
      PROVE  Idle(r)
  BY <1>1 DEF Idle, Unseen, Same
<1>2. CASE \E val \in Value : GetSlot(r, val) \/ AcceptRequest(r, val)
  BY <1>1, <1>2 DEF GetSlot, AcceptRequest
<1>3. CASE CertifyPrepare(r)
  <2>1. PICK p : tryCertifyPrepare(r, p)
    BY <1>3 DEF CertifyPrepare
  <2>2. sent'[r].states = sent[r].states
    BY <2>1, CertifyStates
  <2>3. err'[r] = "ok" => err[r] = "ok"
    BY <1>0, <2>1 DEF tryCertifyPrepare, Throw
  <2> QED BY <1>1, <1>3, <2>2, <2>3 DEF CertifyPrepare
<1>4. CASE PollPromise(r) \/ PollCheckpointCertificate(r)
  BY <1>1, <1>4 DEF PollPromise, PollCheckpointCertificate
<1>5. CASE PollVerifiedCommit(r)
  <2>1. PICK w \in verifying[r] : /\ states' = [states EXCEPT ![r][w[1]] = Verified(@)]
                                  /\ countCommit(r, w[1], w[2])
    BY <1>5 DEF PollVerifiedCommit
  <2>2. w[1] \in Replica
    BY DEF TypeOK
  <2> DEFINE s == w[1]
             st == Verified(states[r][s])
  <2>3. Same(st, states[r][s]) /\ st.next_cb = states[r][s].next_cb
    BY <1>0, <2>2, StateEffects
  <2>4. states' = [states EXCEPT ![r][s] = st]
    BY <2>1
  <2> HIDE DEF st
  <2>5. states'[r][s] = st /\ \A t \in Replica \ {s} : Unseen(r, t)
    BY <2>2, <2>4, OneUnseen
  <2>6. err'[r] = "ok" => err[r] = "ok"
    BY <1>0, <2>1 DEF countCommit, Throw
  <2>7. cb' = cb /\ sent' = sent
    BY <1>5 DEF PollVerifiedCommit
  <2>8. Unseen(r, s)
    BY <2>3, <2>5 DEF Unseen
  <2> QED BY <2>5, <2>6, <2>7, <2>8 DEF Idle
<1>6. CASE Decide(r)
  <2>1. sent'[r].states = sent[r].states
    BY <1>0, <1>6 DEF Decide, Emitted
  <2> QED BY <1>1, <1>6, <2>1 DEF Decide
<1>7. CASE StartView(r)
  <2>1. PICK m : handleNewView(r, r, m)
    BY <1>7 DEF StartView
  <2>2. /\ \A t \in Replica \ {r} : Unseen(r, t)
        /\ Same(states'[r][r], states[r][r])
    BY <2>1, NewViewEffect
  <2> QED BY <1>7, <2>2 DEF Idle, Unseen, StartView
<1>8. ASSUME NEW s \in Replica, PollFastCommit(r, s) PROVE Idle(r)
  <2>1. err'[r] = "ok" => err[r] = "ok"
    BY <1>0, <1>8 DEF PollFastCommit, Throw
  <2> QED BY <1>1, <1>8, <2>1 DEF PollFastCommit
<1> QED BY <1>2, <1>3, <1>4, <1>5, <1>6, <1>7, <1>8

(* The steps that broadcast. *)
LEMMA SendSteps ==
    ASSUME TypeOK, NEW r \in Replica,
           \/ Propose(r) \/ PollPrepareCertificate(r) \/ BroadcastCheckpoint(r)
           \/ ChangeView(r) \/ \E s \in Replica : PollVcStateCertificate(r, s)
    PROVE  Idle(r) \/ \E m : Sends(r, m)
<1>1. CASE Propose(r)
  <2> DEFINE p == Head(proposer[r].to_propose)
             m == PrepareMessage(p)
  <2>1. proposer[r].to_propose \in Seq(Proposal) /\ proposer[r].to_propose # << >>
    BY <1>1, LeaderTypes DEF Propose
  <2>2. /\ p \in Proposal /\ handlePrepare(r, r, p) /\ broadcast(r, m) /\ err[r] = "ok"
    BY <1>1, <2>1 DEF Propose, Free
  <2>3. m \in Message /\ m.kind = "Prepare"
    BY <2>2, MessageTypes DEF PrepareMessage
  <2> HIDE DEF p, m
  <2>4. /\ \A t \in Replica \ {r} : Unseen(r, t)
        /\ Same(states'[r][r], states[r][r])
        /\ sent'[r].states = sent[r].states
    BY <2>2, PrepareEffect
  <2>5. Effect(states'[r][r], states[r][r], m) /\ Shares(r, r, m)
    BY <2>3, <2>4, SameEffect DEF Shares
  <2>6. Sends(r, m)
    BY <2>2, <2>3, <2>4, <2>5 DEF Sends
  <2> QED BY <2>6
<1>2. CASE PollPrepareCertificate(r)
  <2>1. PICK p \in prepare_certifier[r].tail :
           \/ /\ UNCHANGED <<cb, states, err, sent>>
           \/ /\ ~(p.view # At(r) \/ p.inst < states[r][r].low)
              /\ broadcast(r, CommitMessage(p))
              /\ handleCommit(r, r, p)
    BY <1>2 DEF PollPrepareCertificate
  <2>2. CASE UNCHANGED <<cb, states, err, sent>>
    BY <2>2 DEF Idle, Unseen, Same
  <2>3. CASE /\ ~(p.view # At(r) \/ p.inst < states[r][r].low)
             /\ broadcast(r, CommitMessage(p))
             /\ handleCommit(r, r, p)
    <3> DEFINE m == CommitMessage(p)
    <3>1. p \in Proposal
      <4>1. prepare_certifier[r] \in PrepareCertifier
        BY DEF TypeOK
      <4> QED BY <4>1 DEF PrepareCertifier
    <3>2. m \in Message /\ m.kind = "Commit" /\ m.p = p /\ err[r] = "ok"
      BY <1>2, <3>1, MessageTypes DEF CommitMessage, PollPrepareCertificate, Running
    <3> HIDE DEF m
    <3>3. /\ \A t \in Replica \ {r} : Unseen(r, t)
          /\ \/ Effect(states'[r][r], states[r][r], m)
             \/ err'[r] # "ok" /\ states' = states
          /\ sent'[r].states = sent[r].states
      BY <2>3, <3>1, CommitEffect DEF m
    <3>4. p.view = At(r) /\ states[r][r].low <= p.inst
      <4>1. states[r][r] \in ReplicaState
        BY DEF TypeOK
      <4>2. states[r][r].low \in Nat /\ p.inst \in Nat
        BY <3>1, <4>1, ConstantsAssumption DEF ReplicaState, Proposal, Instance
      <4> QED BY <2>3, <4>2
    <3>5. Shares(r, r, m)
      BY <3>2, <3>3 DEF Shares
    <3>6. broadcast(r, m)
      BY <2>3 DEF m
    <3>7. Sends(r, m)
      BY <3>2, <3>3, <3>4, <3>5, <3>6 DEF Sends, Same
    <3> QED BY <3>7
  <2> QED BY <2>1, <2>2, <2>3
<1>3. CASE BroadcastCheckpoint(r)
  <2> DEFINE c == certifiedCheckpoint(r)
             m == CheckpointMessage(c)
  <2>1. /\ broadcast(r, m) /\ handleCheckpoint(r, r, c) /\ sent' = sent /\ err[r] = "ok"
    BY <1>3 DEF BroadcastCheckpoint, Running
  <2>2. c \in Checkpoint
    BY DEF TypeOK, Checkpoints, certifiedCheckpoint
  <2>3. m \in Message /\ m.kind = "Checkpoint" /\ m.c = c
    BY <2>2, MessageTypes DEF CheckpointMessage
  <2> HIDE DEF c, m
  <2>4. /\ \A t \in Replica \ {r} : Unseen(r, t)
        /\ \/ Effect(states'[r][r], states[r][r], m)
           \/ err'[r] # "ok" /\ states' = states
    BY <2>1, <2>2, CheckpointEffect DEF m
  <2>5. Shares(r, r, m)
    BY <2>1, <2>3 DEF Shares
  <2>6. Sends(r, m)
    BY <2>1, <2>3, <2>4, <2>5 DEF Sends, Same, c
  <2> QED BY <2>6
<1>4. CASE ChangeView(r)
  <2> DEFINE m == SealViewMessage
  <2>1. /\ broadcast(r, m) /\ handleSealView(r, r) /\ err[r] = "ok"
        /\ m \in Message /\ m.kind = "SealView"
    BY <1>4, MessageTypes DEF ChangeView, Running, SealViewMessage
  <2> HIDE DEF m
  <2>2. /\ \A t \in Replica \ {r} : Unseen(r, t)
        /\ Effect(states'[r][r], states[r][r], m)
        /\ Shares(r, r, m)
    BY <2>1, SealViewEffect
  <2>3. Sends(r, m)
    BY <2>1, <2>2 DEF Sends
  <2> QED BY <2>3
<1>5. ASSUME NEW s \in Replica, PollVcStateCertificate(r, s)
      PROVE  Idle(r) \/ \E m : Sends(r, m)
  <2>1. /\ states' = states /\ sent' = sent /\ err' = err /\ err[r] = "ok"
        /\ cb' = cb \/ \E a \in vc[r].acked[s] :
              broadcast(r, NewViewMessage(a.view + 1,
                                          UNION {c.commits : c \in Collected(r, s, a)}))
    BY <1>5 DEF PollVcStateCertificate, Free, Collected
  <2>2. CASE cb' = cb
    BY <2>1, <2>2 DEF Idle, Unseen, Same
  <2>3. ASSUME NEW a \in vc[r].acked[s], NEW m,
               m = NewViewMessage(a.view + 1,
                                  UNION {c.commits : c \in Collected(r, s, a)}),
               broadcast(r, m)
        PROVE  Sends(r, m)
    <3>1. a \in SerializedState /\ vc[r].certs \in SUBSET StateCertificate
      BY LeaderTypes
    <3>2. Collected(r, s, a) \in SUBSET StateCertificate /\ a.view + 1 \in Nat
      BY <3>1 DEF Collected, StateCertificate, SerializedState
    <3>3. UNION {c.commits : c \in Collected(r, s, a)} \in SUBSET Proposal
      BY <3>2 DEF StateCertificate
    <3>4. m \in Message /\ m.kind = "NewView"
      BY <2>3, <3>2, <3>3, MessageTypes DEF NewViewMessage
    <3>5. \A t \in Replica : Unseen(r, t)
      BY <2>1 DEF Unseen, Same
    <3>6. Effect(states'[r][r], states[r][r], m)
      BY <3>4, <3>5, SameEffect DEF Unseen
    <3> QED BY <2>1, <2>3, <3>4, <3>5, <3>6 DEF Sends, Shares
  <2> QED BY <2>1, <2>2, <2>3
<1> QED BY <1>1, <1>2, <1>3, <1>4, <1>5

LEMMA StepKinds ==
    ASSUME TypeOK, NEW r \in Replica, Step(r)
    PROVE  Idle(r) \/ (\E s \in Replica : Receives(r, s)) \/ (\E m : Sends(r, m))
<1>1. CASE \/ \E val \in Value : GetSlot(r, val) \/ AcceptRequest(r, val)
           \/ CertifyPrepare(r) \/ PollPromise(r) \/ PollVerifiedCommit(r)
           \/ Decide(r) \/ PollCheckpointCertificate(r) \/ StartView(r)
           \/ \E s \in Replica : PollFastCommit(r, s)
  BY <1>1, IdleSteps
<1>2. CASE \/ Propose(r) \/ PollPrepareCertificate(r) \/ BroadcastCheckpoint(r)
           \/ ChangeView(r) \/ \E s \in Replica : PollVcStateCertificate(r, s)
  BY <1>2, SendSteps
<1>3. ASSUME NEW s \in Replica,
             \/ PollPrepare(r, s) \/ PollCommit(r, s) \/ PollCheckpoint(r, s)
             \/ PollSealView(r, s) \/ PollNewView(r, s)
      PROVE  Idle(r) \/ Receives(r, s)
  BY <1>3, PollEffects
<1> QED BY <1>1, <1>2, <1>3 DEF Step

(* What the steps of r leave to the others. *)
LEMMA OthersKept ==
    ASSUME TypeOK, NEW r \in Replica, Step(r), NEW q \in Replica \ {r}
    PROVE  /\ sent'[q] = sent[q] /\ sent'[q].states = sent[q].states
           /\ err'[q] = err[q]
<1>1. /\ sent \in [Replica -> Emitted] /\ sent[r] \in Emitted
      /\ err \in [Replica -> Exception \cup {"ok"}]
  BY DEF TypeOK
<1>2. sent'[q] = sent[q]
  <2>1. CASE sent' = sent
    BY <2>1
  <2>2. ASSUME NEW p, tryCertifyPrepare(r, p) PROVE sent'[q] = sent[q]
    BY <1>1, <2>2 DEF tryCertifyPrepare
  <2>3. ASSUME NEW s, handleSealView(r, s) PROVE sent'[q] = sent[q]
    BY <1>1, <2>3 DEF handleSealView
  <2>4. CASE Decide(r)
    BY <1>1, <2>4 DEF Decide
  <2>5. ASSUME NEW s, NEW p, handlePrepare(r, s, p) PROVE sent'[q] = sent[q]
    BY <2>1, <2>2, <2>5 DEF handlePrepare
  <2>6. CASE PollPrepareCertificate(r)
    BY <2>1, <2>6 DEF PollPrepareCertificate, handleCommit, fastVars
  <2>7. ASSUME NEW s \in Replica, PollCommit(r, s) PROVE sent'[q] = sent[q]
    BY <2>1, <2>7 DEF PollCommit, handleCommit, fastVars
  <2> QED BY <2>1, <2>2, <2>3, <2>4, <2>5, <2>6, <2>7
          DEF Step, GetSlot, AcceptRequest, Propose, CertifyPrepare, PollPromise,
              PollVerifiedCommit, PollCheckpointCertificate, BroadcastCheckpoint,
              ChangeView, StartView, PollPrepare, PollCheckpoint, PollSealView,
              PollNewView, PollFastCommit, PollVcStateCertificate
<1>3. err'[q] = err[q]
  <2>1. CASE err' = err
    BY <2>1
  <2>2. ASSUME NEW w, Throw(r, w) PROVE err'[q] = err[q]
    BY <1>1, <2>2 DEF Throw
  <2>3. ASSUME NEW s, NEW p, handlePrepare(r, s, p) PROVE err'[q] = err[q]
    BY <2>1, <2>2, <2>3 DEF handlePrepare, tryCertifyPrepare
  <2>4. ASSUME NEW s, NEW p, handleCommit(r, s, p) PROVE err'[q] = err[q]
    BY <2>1, <2>2, <2>4 DEF handleCommit, verifyCommit, countCommit
  <2>5. ASSUME NEW s, NEW p, handleCheckpoint(r, s, p) PROVE err'[q] = err[q]
    BY <2>1, <2>2, <2>5 DEF handleCheckpoint
  <2>6. CASE PollVerifiedCommit(r)
    BY <2>1, <2>2, <2>6 DEF PollVerifiedCommit, countCommit
  <2>7. ASSUME NEW s \in Replica, PollFastCommit(r, s) PROVE err'[q] = err[q]
    BY <2>1, <2>2, <2>7 DEF PollFastCommit
  <2>8. CASE CertifyPrepare(r)
    BY <2>1, <2>2, <2>8 DEF CertifyPrepare, tryCertifyPrepare
  <2>9. CASE PollPrepareCertificate(r)
    BY <2>1, <2>4, <2>9 DEF PollPrepareCertificate
  <2> QED BY <2>1, <2>3, <2>4, <2>5, <2>6, <2>7, <2>8, <2>9
          DEF Step, GetSlot, AcceptRequest, Propose, PollPromise, Decide,
              PollCheckpointCertificate, BroadcastCheckpoint, ChangeView, StartView,
              PollPrepare, PollCommit, PollCheckpoint, PollSealView, PollNewView,
              PollVcStateCertificate
<1> QED BY <1>2, <1>3

-----------------------------------------------------------------------------
(* ReplayInv is kept *)

Grows == \A s \in Replica :
    Len(cb[s]) <= Len(cb'[s]) /\ \A j \in 1 .. Len(cb[s]) : cb'[s][j] = cb[s][j]

LEMMA ReplayTypes ==
    ASSUME TypeOK, NEW r \in Replica
    PROVE  /\ cb[r] \in Seq(Message) /\ Len(cb[r]) \in Nat
           /\ \A s \in Replica : /\ states[r][s].next_cb \in Nat
                                 /\ states[r][s].at_view \in Nat
                                 /\ states[r][s].low \in Nat
                                 /\ states[r][s].commits \in SUBSET Proposal
           /\ sent[r].states \in SUBSET SealedState
           /\ \A a \in sent[r].states : a.owner \in Replica
<1>1. /\ cb[r] \in Seq(Message) /\ sent[r] \in Emitted
      /\ \A s \in Replica : states[r][s] \in ReplicaState
  BY DEF TypeOK
<1> QED BY <1>1 DEF ReplicaState, Emitted, SealedState

LEMMA ProposalTypes ==
    \A p \in Proposal : p.view \in Nat /\ p.inst \in Nat /\ p.inst < InstSpace
BY ConstantsAssumption DEF Proposal, Instance

LEMMA BroadcastsGrow ==
    ASSUME TypeOK
    PROVE  /\ cb' = cb => Grows
           /\ \A r \in Replica, m \in Message : broadcast(r, m) =>
                 /\ Grows
                 /\ cb'[r] = Append(cb[r], m)
                 /\ Len(cb'[r]) = Len(cb[r]) + 1 /\ cb'[r][Len(cb[r]) + 1] = m
                 /\ \A s \in Replica \ {r} : cb'[s] = cb[s]
<1>1. \A s \in Replica : cb[s] \in Seq(Message) /\ Len(cb[s]) \in Nat
  BY ReplayTypes
<1>2. cb' = cb => Grows
  BY <1>1 DEF Grows
<1>3. ASSUME NEW r \in Replica, NEW m \in Message, broadcast(r, m)
      PROVE  /\ Grows
             /\ cb'[r] = Append(cb[r], m)
             /\ Len(cb'[r]) = Len(cb[r]) + 1 /\ cb'[r][Len(cb[r]) + 1] = m
             /\ \A s \in Replica \ {r} : cb'[s] = cb[s]
  <2>1. cb'[r] = Append(cb[r], m) /\ \A s \in Replica \ {r} : cb'[s] = cb[s]
    BY <1>3 DEF broadcast, TypeOK
  <2>2. /\ Len(cb'[r]) = Len(cb[r]) + 1 /\ cb'[r][Len(cb[r]) + 1] = m
        /\ \A j \in 1 .. Len(cb[r]) : cb'[r][j] = cb[r][j]
    BY <1>1, <2>1, AppendElements
  <2>3. ASSUME NEW s \in Replica
        PROVE  Len(cb[s]) <= Len(cb'[s]) /\ \A j \in 1 .. Len(cb[s]) : cb'[s][j] = cb[s][j]
    BY <1>1, <2>1, <2>2
  <2> QED BY <2>1, <2>2, <2>3 DEF Grows
<1> QED BY <1>2, <1>3

(* A state that did not change follows the longer log too. *)
LEMMA UnseenKept ==
    ASSUME TypeOK, TypeOK', Grows, NEW r \in Replica, NEW s \in Replica \ {r},
           Replayed(r, s), WindowSeen(r, s), Unseen(r, s)
    PROVE  Replayed(r, s)' /\ WindowSeen(r, s)'
<1> DEFINE k == states[r][s].next_cb
<1>1. /\ k \in Nat /\ Len(cb[s]) \in Nat /\ Len(cb'[s]) \in Nat
      /\ k <= Len(cb[s]) /\ Len(cb[s]) <= Len(cb'[s])
      /\ states'[r][s].next_cb = k
  <2>1. cb'[s] \in Seq(Message)
    BY DEF TypeOK
  <2> QED BY <2>1, ReplayTypes DEF Replayed, Grows, Unseen
<1>2. \A j \in 1 .. k : cb'[s][j] = cb[s][j]
  BY <1>1 DEF Grows
<1>3. Seals(cb'[s], k) = Seals(cb[s], k) /\ Kept(cb'[s], k) = Kept(cb[s], k)
  BY <1>1, <1>2, PrefixKept
<1>4. Replayed(r, s)'
  BY <1>1, <1>3 DEF Replayed, Unseen, Same
<1>5. WindowSeen(r, s)'
  BY <1>1, <1>2 DEF WindowSeen, Unseen, Same
<1> QED BY <1>4, <1>5

LEMMA SharesStay ==
    ASSUME TypeOK, TypeOK', Grows, NEW r \in Replica, SharesSealed(r),
           NEW a \in sent[r].states
    PROVE  \E k \in 0 .. Len(cb'[a.owner]) - 1 :
              /\ cb'[a.owner][k + 1].kind = "SealView"
              /\ a.view = Seals(cb'[a.owner], k)
              /\ a.commits = Kept(cb'[a.owner], k)
<1>1. a.owner \in Replica
  BY ReplayTypes
<1> DEFINE s == a.owner
<1>2. PICK k \in 0 .. Len(cb[s]) - 1 :
         /\ cb[s][k + 1].kind = "SealView"
         /\ a.view = Seals(cb[s], k)
         /\ a.commits = Kept(cb[s], k)
  BY DEF SharesSealed
<1>3. /\ Len(cb[s]) \in Nat /\ Len(cb'[s]) \in Nat /\ Len(cb[s]) <= Len(cb'[s])
      /\ \A j \in 1 .. Len(cb[s]) : cb'[s][j] = cb[s][j]
  <2>1. cb'[s] \in Seq(Message)
    BY <1>1 DEF TypeOK
  <2> QED BY <1>1, <2>1, ReplayTypes DEF Grows
<1>4. k \in Nat /\ k + 1 \in 1 .. Len(cb[s]) /\ k \in 0 .. Len(cb'[s]) - 1
  BY <1>2, <1>3
<1>5. \A j \in 1 .. k : cb'[s][j] = cb[s][j]
  BY <1>3, <1>4
<1>6. Seals(cb'[s], k) = Seals(cb[s], k) /\ Kept(cb'[s], k) = Kept(cb[s], k)
  BY <1>4, <1>5, PrefixKept
<1>7. cb'[s][k + 1].kind = "SealView"
  BY <1>2, <1>3, <1>4
<1> HIDE DEF s
<1>8. /\ cb'[s][k + 1].kind = "SealView"
      /\ a.view = Seals(cb'[s], k) /\ a.commits = Kept(cb'[s], k)
  BY <1>2, <1>6, <1>7
<1> QED BY <1>4, <1>8 DEF s

(* A replica that neither sends nor receives. *)
LEMMA IdleKept ==
    ASSUME TypeOK, TypeOK', Grows, NEW r \in Replica, ReplayInvAt(r),
           cb'[r] = cb[r], \A s \in Replica : Unseen(r, s),
           sent'[r].states = sent[r].states, err'[r] = "ok" => err[r] = "ok"
    PROVE  ReplayInvAt(r)'
<1>1. \A s \in Replica \ {r} : Replayed(r, s)' /\ WindowSeen(r, s)'
  BY UnseenKept DEF ReplayInvAt
<1>2. \A s \in Replica : InWindow(r, s)'
  BY DEF ReplayInvAt, InWindow, Unseen, Same
<1>3. OwnReplayed(r)' /\ CommitsAbove(r)'
  <2>1. Same(states'[r][r], states[r][r])
    BY DEF Unseen
  <2> QED BY <2>1 DEF ReplayInvAt, OwnReplayed, CommitsAbove, At, Same
<1>4. SharesSealed(r)'
  BY SharesStay DEF ReplayInvAt, SharesSealed
<1> QED BY <1>1, <1>2, <1>3, <1>4 DEF ReplayInvAt

(* The window of a sender after one more message. *)
LEMMA WindowStep ==
    ASSUME NEW st, NEW st2, NEW m \in Message, Effect(st2, st, m),
           st.low \in Nat, st2.low \in Nat, st.commits \in SUBSET Proposal,
           \A c \in st.commits : st.low <= c.inst /\ c.inst < st.low + Window,
           \A c, d \in st.commits : c.inst = d.inst => c = d,
           m.kind = "Commit" => st.low <= m.p.inst
    PROVE  /\ \A c \in st2.commits : st2.low <= c.inst /\ c.inst < st2.low + Window
           /\ \A c, d \in st2.commits : c.inst = d.inst => c = d
<1>1. CASE m.kind = "Commit"
  BY <1>1 DEF Effect
<1>2. CASE m.kind = "Checkpoint"
  <2>1. /\ st2.low > st.low
        /\ \A c \in st2.commits : c \in st.commits /\ c.inst >= st2.low
    BY <1>2 DEF Effect, PruneCommits
  <2>2. \A c \in st2.commits : c.inst \in Nat
    BY <2>1, ProposalTypes
  <2>3. ASSUME NEW c \in st2.commits
        PROVE  st2.low <= c.inst /\ c.inst < st2.low + Window
    BY <2>1, <2>2, ConstantsAssumption
  <2> QED BY <2>1, <2>3
<1>3. CASE m.kind \notin {"Commit", "Checkpoint"}
  BY <1>3 DEF Effect
<1> QED BY <1>1, <1>2, <1>3

(* Handling one more message follows one more broadcast. *)
LEMMA FollowStep ==
    ASSUME NEW st, NEW st2, NEW q, NEW k \in Nat, Effect(st2, st, q[k + 1]),
           st.at_view = Seals(q, k), st.commits = Kept(q, k)
    PROVE  st2.at_view = Seals(q, k + 1) /\ st2.commits = Kept(q, k + 1)
<1>1. st2.at_view = Seals(q, k + 1)
  BY SealsStep DEF Effect
<1>2. st2.commits = Kept(q, k + 1)
  <2> DEFINE m == q[k + 1]
             K == Kept(q, k + 1)
  <2>1. /\ m.kind = "Commit" => K = {d \in st.commits : d.inst # m.p.inst} \cup {m.p}
        /\ m.kind = "Checkpoint" => K = PruneCommits(st.commits, m.c.low)
        /\ m.kind \notin {"Commit", "Checkpoint"} => K = st.commits
    BY KeptStep
  <2>2. Effect(st2, st, m)
    OBVIOUS
  <2> HIDE DEF m, K
  <2>3. st2.commits = K
    BY <2>1, <2>2 DEF Effect
  <2> QED BY <2>3 DEF K
<1> QED BY <1>1, <1>2

LEMMA ReceiveKept ==
    ASSUME TypeOK, TypeOK', ReplayInv, NEW r \in Replica, NEW s \in Replica,
           Receives(r, s)
    PROVE  ReplayInvAt(r)'
<1> DEFINE k == states[r][s].next_cb
           m == cb[s][k + 1]
           st == states[r][s]
           st2 == states'[r][s]
<1>1. /\ s # r /\ cb' = cb /\ k < Len(cb[s]) /\ Effect(st2, st, m)
      /\ st2.next_cb = k + 1
      /\ \A t \in Replica \ {s} : Unseen(r, t)
      /\ Shares(r, s, m)
      /\ err'[r] = "ok" => err[r] = "ok"
  BY DEF Receives, NextCb
<1>2. ReplayInvAt(r) /\ ReplayInvAt(s)
  BY DEF ReplayInv
<1>3. /\ k \in Nat /\ Len(cb[s]) \in Nat /\ k + 1 \in 1 .. Len(cb[s])
      /\ st.at_view \in Nat /\ st.low \in Nat /\ st2.low \in Nat
      /\ st.commits \in SUBSET Proposal /\ m \in Message
  <2>1. k \in Nat /\ Len(cb[s]) \in Nat /\ cb[s] \in Seq(Message)
    BY ReplayTypes
  <2>2. st.at_view \in Nat /\ st.low \in Nat /\ st.commits \in SUBSET Proposal
    BY ReplayTypes
  <2>3. st2.low \in Nat
    <3>1. st2 \in ReplicaState
      BY DEF TypeOK
    <3> QED BY <3>1 DEF ReplicaState
  <2>4. k + 1 \in 1 .. Len(cb[s])
    BY <1>1, <2>1
  <2> QED BY <2>1, <2>2, <2>3, <2>4
<1>4. Grows
  BY <1>1, BroadcastsGrow
<1>5. ASSUME NEW t \in Replica \ {r, s} PROVE Replayed(r, t)' /\ WindowSeen(r, t)'
  BY <1>1, <1>2, <1>4, UnseenKept DEF ReplayInvAt
<1>6. st.at_view = Seals(cb[s], k) /\ st.commits = Kept(cb[s], k)
  BY <1>1, <1>2 DEF ReplayInvAt, Replayed
<1> HIDE DEF k, m, st, st2
<1>7. Replayed(r, s)'
  <2>1. st2.at_view = Seals(cb[s], k + 1) /\ st2.commits = Kept(cb[s], k + 1)
    BY <1>1, <1>3, <1>6, FollowStep DEF m
  <2> QED BY <1>1, <1>3, <2>1 DEF Replayed, st2
<1>8. WindowSeen(r, s)'
  <2>1. CASE m.kind = "Checkpoint"
    <3>1. st2.low = m.c.low
      BY <1>1, <2>1 DEF Effect
    <3>2. \E j \in 1 .. k + 1 : cb[s][j].kind = "Checkpoint" /\ cb[s][j].c.low = st2.low
      BY <1>3, <2>1, <3>1 DEF m
    <3> QED BY <1>1, <3>2 DEF WindowSeen, st2
  <2>2. CASE m.kind # "Checkpoint"
    <3>1. st2.low = st.low
      BY <1>1, <2>2 DEF Effect
    <3>2. st.low = 0 \/ \E j \in 1 .. k :
             cb[s][j].kind = "Checkpoint" /\ cb[s][j].c.low = st.low
      BY <1>1, <1>2 DEF ReplayInvAt, WindowSeen, st, k
    <3>3. 1 .. k \subseteq 1 .. k + 1
      BY <1>3
    <3> QED BY <1>1, <3>1, <3>2, <3>3 DEF WindowSeen, st2
  <2> QED BY <2>1, <2>2
<1>9. InWindow(r, s)'
  <2>1. m.kind = "Commit" => st.low <= m.p.inst
    <3>1. SUFFICES ASSUME m.kind = "Commit" PROVE st.low <= m.p.inst
      OBVIOUS
    <3>2. m.p.inst \in Nat
      BY <1>3, <3>1, MessageParts, ProposalTypes
    <3>3. st.low = 0 \/ \E j \in 1 .. k :
             cb[s][j].kind = "Checkpoint" /\ cb[s][j].c.low = st.low
      BY <1>1, <1>2 DEF ReplayInvAt, WindowSeen, st, k
    <3>4. ASSUME NEW j \in 1 .. k, cb[s][j].kind = "Checkpoint", cb[s][j].c.low = st.low
          PROVE  st.low <= m.p.inst
      <4>1. j \in 1 .. k + 1 /\ k + 1 \in 1 .. Len(cb[s])
        BY <1>3
      <4> QED BY <1>2, <3>1, <3>4, <4>1 DEF ReplayInvAt, CommitsAbove, m
    <3> QED BY <3>2, <3>3, <3>4
  <2>2. /\ \A c \in st.commits : st.low <= c.inst /\ c.inst < st.low + Window
        /\ \A c, d \in st.commits : c.inst = d.inst => c = d
    BY <1>2 DEF ReplayInvAt, InWindow, st
  <2>3. /\ \A c \in st2.commits : st2.low <= c.inst /\ c.inst < st2.low + Window
        /\ \A c, d \in st2.commits : c.inst = d.inst => c = d
    BY <1>1, <1>3, <2>1, <2>2, WindowStep
  <2> QED BY <2>3 DEF InWindow, st2
<1>10. ASSUME NEW t \in Replica \ {s} PROVE InWindow(r, t)'
  BY <1>1, <1>2 DEF ReplayInvAt, InWindow, Unseen, Same
<1>11. OwnReplayed(r)' /\ CommitsAbove(r)'
  <2>1. Same(states'[r][r], states[r][r])
    BY <1>1 DEF Unseen
  <2> QED BY <1>1, <1>2, <2>1 DEF ReplayInvAt, OwnReplayed, CommitsAbove, At, Same
<1>12. SharesSealed(r)'
  <2> DEFINE a == [owner |-> s, view |-> st.at_view, commits |-> st.commits]
  <2>1. ASSUME NEW b \in sent[r].states
        PROVE  \E j \in 0 .. Len(cb'[b.owner]) - 1 :
                  /\ cb'[b.owner][j + 1].kind = "SealView"
                  /\ b.view = Seals(cb'[b.owner], j)
                  /\ b.commits = Kept(cb'[b.owner], j)
    BY <1>2, <1>4, SharesStay DEF ReplayInvAt
  <2>2. ASSUME m.kind = "SealView"
        PROVE  \E j \in 0 .. Len(cb'[a.owner]) - 1 :
                  /\ cb'[a.owner][j + 1].kind = "SealView"
                  /\ a.view = Seals(cb'[a.owner], j)
                  /\ a.commits = Kept(cb'[a.owner], j)
    <3>1. k \in 0 .. Len(cb[s]) - 1 /\ cb[s][k + 1].kind = "SealView"
      BY <1>1, <1>3, <2>2 DEF m
    <3> QED BY <1>1, <1>6, <3>1
  <2>3. sent'[r].states = IF m.kind = "SealView" THEN sent[r].states \cup {a}
                          ELSE sent[r].states
    BY <1>1 DEF Shares, st
  <2> HIDE DEF a
  <2> QED BY <2>1, <2>2, <2>3 DEF SharesSealed
<1> QED BY <1>5, <1>7, <1>8, <1>9, <1>10, <1>11, <1>12 DEF ReplayInvAt

LEMMA SendKept ==
    ASSUME TypeOK, TypeOK', ReplayInv, NEW r \in Replica, NEW m, Sends(r, m)
    PROVE  ReplayInvAt(r)'
<1> DEFINE k == Len(cb[r])
           q2 == cb'[r]
           st == states[r][r]
           st2 == states'[r][r]
<1>1. /\ m \in Message /\ broadcast(r, m) /\ err[r] = "ok"
      /\ \/ Effect(st2, st, m)
         \/ err'[r] # "ok" /\ m.kind # "SealView" /\ Same(st2, st)
      /\ \A s \in Replica \ {r} : Unseen(r, s)
      /\ Shares(r, r, m)
      /\ m.kind = "Commit" => st.low <= m.p.inst
      /\ m.kind = "Checkpoint" => m.c = certifiedCheckpoint(r)
  BY DEF Sends
<1>2. ReplayInvAt(r)
  BY DEF ReplayInv
<1>3. /\ Grows /\ Len(q2) = k + 1 /\ q2[k + 1] = m
      /\ \A j \in 1 .. k : q2[j] = cb[r][j]
  BY <1>1, BroadcastsGrow DEF Grows
<1>4. /\ k \in Nat /\ st.at_view \in Nat /\ st.low \in Nat /\ st2.low \in Nat
      /\ st.commits \in SUBSET Proposal
  <2>1. k \in Nat /\ st.at_view \in Nat /\ st.low \in Nat /\ st.commits \in SUBSET Proposal
    BY ReplayTypes
  <2>2. st2.low \in Nat
    <3>1. st2 \in ReplicaState
      BY DEF TypeOK
    <3> QED BY <3>1 DEF ReplicaState
  <2> QED BY <2>1, <2>2
<1>5. ASSUME NEW t \in Replica \ {r} PROVE Replayed(r, t)' /\ WindowSeen(r, t)'
  BY <1>1, <1>2, <1>3, UnseenKept DEF ReplayInvAt
<1>6. st.at_view = Seals(q2, k) /\ st.commits = Kept(q2, k)
  <2>1. Seals(q2, k) = Seals(cb[r], k) /\ Kept(q2, k) = Kept(cb[r], k)
    BY <1>3, <1>4, PrefixKept
  <2> QED BY <1>1, <1>2, <2>1 DEF ReplayInvAt, OwnReplayed, At
<1>7. ASSUME NEW t \in Replica \ {r} PROVE InWindow(r, t)'
  BY <1>1, <1>2 DEF ReplayInvAt, InWindow, Unseen, Same
<1>8. InWindow(r, r)'
  <2>1. /\ \A c \in st.commits : st.low <= c.inst /\ c.inst < st.low + Window
        /\ \A c, d \in st.commits : c.inst = d.inst => c = d
    BY <1>2 DEF ReplayInvAt, InWindow
  <2> HIDE DEF st, st2
  <2>2. CASE Effect(st2, st, m)
    <3>1. /\ \A c \in st2.commits : st2.low <= c.inst /\ c.inst < st2.low + Window
          /\ \A c, d \in st2.commits : c.inst = d.inst => c = d
      BY <1>1, <1>4, <2>1, <2>2, WindowStep
    <3> QED BY <3>1 DEF InWindow, st2
  <2>3. CASE Same(st2, st)
    BY <2>1, <2>3 DEF Same, InWindow, st2
  <2> QED BY <1>1, <2>2, <2>3
<1>9. OwnReplayed(r)'
  <2>1. CASE Effect(st2, st, m)
    <3> HIDE DEF q2, st, st2, k
    <3>1. st2.at_view = Seals(q2, k + 1) /\ st2.commits = Kept(q2, k + 1)
      BY <1>3, <1>4, <1>6, <2>1, FollowStep
    <3> QED BY <1>3, <3>1 DEF OwnReplayed, At, q2, st2
  <2>2. CASE err'[r] # "ok" /\ m.kind # "SealView" /\ Same(st2, st)
    <3>1. Seals(q2, k + 1) = Seals(q2, k)
      BY <1>3, <1>4, <2>2, SealsStep
    <3> QED BY <1>3, <1>6, <2>2, <3>1 DEF OwnReplayed, At, Same
  <2> QED BY <1>1, <2>1, <2>2
<1>10. CommitsAbove(r)'
  <2>1. \A j \in 1 .. k : cb[r][j].kind = "Checkpoint" => cb[r][j].c.low <= st.low
    BY <1>1, <1>2 DEF ReplayInvAt, CommitsAbove
  <2>2. \A j \in 1 .. k : cb[r][j].kind = "Checkpoint" => cb[r][j].c.low \in Nat
    <3>1. cb[r] \in Seq(Message)
      BY ReplayTypes
    <3>2. \A j \in 1 .. k : cb[r][j] \in Message
      BY <3>1, <1>4
    <3> QED BY <3>2, MessageParts DEF Checkpoint
  <2>3. ASSUME NEW i \in 1 .. k + 1, NEW j \in 1 .. i,
               q2[j].kind = "Checkpoint", q2[i].kind = "Commit"
        PROVE  q2[j].c.low <= q2[i].p.inst
    <3>1. CASE i \in 1 .. k
      <4>1. j \in 1 .. k /\ q2[i] = cb[r][i] /\ q2[j] = cb[r][j]
        BY <1>3, <3>1
      <4> QED BY <1>2, <2>3, <3>1, <4>1 DEF ReplayInvAt, CommitsAbove
    <3>2. CASE i = k + 1
      <4>1. m.kind = "Commit" /\ q2[i] = m
        BY <1>3, <2>3, <3>2
      <4>2. j \in 1 .. k
        <5>1. j # k + 1
          BY <2>3, <3>2
        <5> QED BY <1>4, <3>2, <5>1
      <4>3. q2[j] = cb[r][j]
        BY <1>3, <4>2
      <4>4. m.p.inst \in Nat
        BY <1>1, <4>1, MessageParts, ProposalTypes
      <4>5. q2[j].c.low <= st.low /\ q2[j].c.low \in Nat
        BY <2>1, <2>2, <2>3, <4>2, <4>3
      <4>6. st.low <= m.p.inst
        BY <1>1, <4>1
      <4> HIDE DEF q2, st
      <4> QED BY <1>4, <4>1, <4>4, <4>5, <4>6
    <3> QED BY <1>4, <3>1, <3>2
  <2>4. ASSUME err'[r] = "ok", NEW j \in 1 .. k + 1, q2[j].kind = "Checkpoint"
        PROVE  q2[j].c.low <= st2.low
    <3>1. Effect(st2, st, m)
      BY <1>1, <2>4
    <3>2. st.low <= st2.low
      BY <1>4, <3>1 DEF Effect
    <3>3. CASE j = k + 1
      <4>1. q2[j] = m
        BY <1>3, <3>3
      <4>2. st2.low = m.c.low
        BY <2>4, <3>1, <4>1 DEF Effect
      <4> HIDE DEF q2, st2
      <4> QED BY <1>4, <4>1, <4>2
    <3>4. CASE j \in 1 .. k
      <4>1. q2[j] = cb[r][j]
        BY <1>3, <3>4
      <4>2. q2[j].c.low <= st.low /\ q2[j].c.low \in Nat
        BY <2>1, <2>2, <2>4, <3>4, <4>1
      <4> HIDE DEF q2, st, st2
      <4> QED BY <1>4, <3>2, <4>2
    <3> QED BY <1>4, <3>3, <3>4
  <2> QED BY <1>3, <2>3, <2>4 DEF CommitsAbove
<1>11. SharesSealed(r)'
  <2> DEFINE a == [owner |-> r, view |-> st.at_view, commits |-> st.commits]
  <2>1. ASSUME NEW b \in sent[r].states
        PROVE  \E j \in 0 .. Len(cb'[b.owner]) - 1 :
                  /\ cb'[b.owner][j + 1].kind = "SealView"
                  /\ b.view = Seals(cb'[b.owner], j)
                  /\ b.commits = Kept(cb'[b.owner], j)
    BY <1>2, <1>3, SharesStay DEF ReplayInvAt
  <2>2. ASSUME m.kind = "SealView"
        PROVE  \E j \in 0 .. Len(cb'[a.owner]) - 1 :
                  /\ cb'[a.owner][j + 1].kind = "SealView"
                  /\ a.view = Seals(cb'[a.owner], j)
                  /\ a.commits = Kept(cb'[a.owner], j)
    <3>1. k \in 0 .. Len(q2) - 1 /\ q2[k + 1].kind = "SealView"
      BY <1>3, <1>4, <2>2
    <3> HIDE DEF k, st
    <3> QED BY <1>6, <3>1
  <2>3. sent'[r].states = IF m.kind = "SealView" THEN sent[r].states \cup {a}
                          ELSE sent[r].states
    BY <1>1 DEF Shares
  <2> HIDE DEF a
  <2> QED BY <2>1, <2>2, <2>3 DEF SharesSealed
<1> QED BY <1>5, <1>7, <1>8, <1>9, <1>10, <1>11 DEF ReplayInvAt

-----------------------------------------------------------------------------
(* The theorems *)

LEMMA InitReplay == ASSUME Init PROVE ReplayInv
<1> SUFFICES ASSUME NEW r \in Replica PROVE ReplayInvAt(r)
  BY DEF ReplayInv
<1>1. /\ \A s \in Replica : cb[s] = << >>
      /\ \A s \in Replica : /\ states[r][s].next_cb = 0 /\ states[r][s].at_view = 0
                            /\ states[r][s].low = 0 /\ states[r][s].commits = {}
      /\ sent[r].states = {}
  BY DEF Init, InitState
<1>2. \A s \in Replica : Seals(cb[s], 0) = 0 /\ Kept(cb[s], 0) = {}
  BY NothingHandled
<1>3. \A s \in Replica : Len(cb[s]) = 0
  BY <1>1
<1>4. ASSUME NEW s \in Replica
      PROVE  Replayed(r, s) /\ WindowSeen(r, s) /\ InWindow(r, s)
  <2>1. Replayed(r, s)
    <3>1. /\ states[r][s].next_cb = 0 /\ states[r][s].at_view = 0
          /\ states[r][s].commits = {}
      BY <1>1
    <3>2. states[r][s].next_cb <= Len(cb[s])
      BY <1>3, <3>1
    <3> QED BY <1>2, <3>1, <3>2, Zenon DEF Replayed
  <2>2. WindowSeen(r, s) /\ InWindow(r, s)
    BY <1>1 DEF WindowSeen, InWindow
  <2> QED BY <2>1, <2>2
<1>5. OwnReplayed(r) /\ CommitsAbove(r) /\ SharesSealed(r)
  <2>1. OwnReplayed(r)
    BY <1>1, <1>2, <1>3 DEF OwnReplayed, At
  <2>2. CommitsAbove(r)
    BY <1>3 DEF CommitsAbove
  <2>3. SharesSealed(r)
    BY <1>1 DEF SharesSealed
  <2> QED BY <2>1, <2>2, <2>3
<1> QED BY <1>4, <1>5 DEF ReplayInvAt

LEMMA NextReplay ==
    ASSUME TypeOK, TypeOK', ReplayInv, Next
    PROVE  ReplayInv'
<1>1. PICK r \in Replica : Step(r)
  BY DEF Next
<1>2. Grows
  <2>1. cb' = cb \/ \E m \in Message : broadcast(r, m)
    BY <1>1, StepKinds DEF Idle, Receives, Sends
  <2> QED BY <2>1, BroadcastsGrow
<1>3. ASSUME NEW q \in Replica \ {r} PROVE ReplayInvAt(q)'
  <2>1. Untouched(q) /\ sent'[q].states = sent[q].states /\ err'[q] = err[q]
    BY <1>1, StepLocal, OthersKept
  <2>2. cb'[q] = cb[q] /\ \A s \in Replica : Unseen(q, s)
    BY <2>1 DEF Untouched, Unseen, Same
  <2> QED BY <1>2, <2>1, <2>2, IdleKept DEF ReplayInv
<1>4. ReplayInvAt(r)'
  <2>1. CASE Idle(r)
    BY <1>2, <2>1, IdleKept DEF Idle, ReplayInv
  <2>2. ASSUME NEW s \in Replica, Receives(r, s) PROVE ReplayInvAt(r)'
    BY <2>2, ReceiveKept
  <2>3. ASSUME NEW m, Sends(r, m) PROVE ReplayInvAt(r)'
    BY <2>3, SendKept
  <2> QED BY <1>1, <2>1, <2>2, <2>3, StepKinds
<1> QED BY <1>3, <1>4 DEF ReplayInv

LEMMA AlwaysReplayed == Spec => []ReplayInv
<1>1. Init => ReplayInv
  BY InitReplay
<1>2. TypeOK /\ TypeOK' /\ ReplayInv /\ [Next]_vars => ReplayInv'
  <2> SUFFICES ASSUME TypeOK, TypeOK', ReplayInv, [Next]_vars PROVE ReplayInv'
    OBVIOUS
  <2>1. CASE Next
    BY <2>1, NextReplay
  <2>2. CASE UNCHANGED vars
    <3>1. /\ cb' = cb /\ states' = states /\ sent' = sent /\ err' = err
      BY <2>2 DEF vars
    <3>2. Grows /\ \A q, s \in Replica : Unseen(q, s)
      BY <3>1, BroadcastsGrow DEF Unseen, Same
    <3> QED BY <3>1, <3>2, IdleKept DEF ReplayInv
  <2> QED BY <2>1, <2>2
<1> QED BY <1>1, <1>2, TypeCorrect, PTL DEF Spec

LEMMA SealsDetermineStates == TypeOK /\ ReplayInv => SealedStatesAgree
<1> SUFFICES ASSUME TypeOK, ReplayInv, NEW r \in Replica, NEW s \in Replica,
                    NEW a \in sent[r].states, NEW b \in sent[s].states,
                    a.owner = b.owner, a.view = b.view
             PROVE  a = b
  BY DEF SealedStatesAgree
<1> DEFINE o == a.owner
<1>1. o \in Replica /\ a \in SealedState /\ b \in SealedState
  BY ReplayTypes
<1>2. PICK k \in 0 .. Len(cb[o]) - 1 :
         /\ cb[o][k + 1].kind = "SealView" /\ a.view = Seals(cb[o], k)
         /\ a.commits = Kept(cb[o], k)
  BY DEF ReplayInv, ReplayInvAt, SharesSealed
<1>3. PICK l \in 0 .. Len(cb[o]) - 1 :
         /\ cb[o][l + 1].kind = "SealView" /\ b.view = Seals(cb[o], l)
         /\ b.commits = Kept(cb[o], l)
  BY DEF ReplayInv, ReplayInvAt, SharesSealed
<1>4. k \in Nat /\ l \in Nat
  BY <1>1, ReplayTypes
<1>5. k = l
  BY <1>2, <1>3, <1>4, SealsOnce
<1>6. a.commits = b.commits
  BY <1>2, <1>3, <1>5
<1> QED BY <1>1, <1>6 DEF SealedState

(* All replicas certify the same state of a replica that sealed a view,     *)
(* whatever they had received of it when they handled its SealView.         *)
THEOREM SealedStatesAlwaysAgree == Spec => []SealedStatesAgree
BY AlwaysReplayed, TypeCorrect, SealsDetermineStates, PTL

LEMMA WindowBoundsCommits == TypeOK /\ ReplayInv => CommitsFitPool
<1> SUFFICES ASSUME TypeOK, ReplayInv, NEW r \in Replica, NEW s \in Replica
             PROVE  Cardinality(states[r][s].commits) <= Window
  BY DEF CommitsFitPool
<1> DEFINE C == states[r][s].commits
           low == states[r][s].low
           W == low .. (low + Window - 1)
           f == [c \in C |-> c.inst]
<1>1. /\ low \in Nat /\ C \in SUBSET Proposal
      /\ \A c \in C : low <= c.inst /\ c.inst < low + Window
      /\ \A c, d \in C : c.inst = d.inst => c = d
  BY ReplayTypes DEF ReplayInv, ReplayInvAt, InWindow
<1>2. \A c \in C : c.inst \in W
  <2>1. \A c \in C : c.inst \in Nat
    BY <1>1, ProposalTypes
  <2> QED BY <1>1, <2>1, ConstantsAssumption
<1>3. IsFiniteSet(W) /\ Cardinality(W) = Window
  <2>1. low \in Int /\ low + Window - 1 \in Int /\ Window \in Nat /\ Window > 0
    BY <1>1, ConstantsAssumption
  <2>2. /\ IsFiniteSet(W)
        /\ Cardinality(W) = IF low > low + Window - 1 THEN 0
                            ELSE (low + Window - 1) - low + 1
    BY <2>1, FS_Interval
  <2> QED BY <1>1, <2>1, <2>2
<1> HIDE DEF C, low, W
<1>4. f \in Injection(C, W)
  BY <1>1, <1>2 DEF Injection, IsInjective
<1>5. Cardinality(C) <= Cardinality(W)
  BY <1>3, <1>4, FS_Injection
<1> QED BY <1>3, <1>5 DEF C

(* The commits a replica keeps for another fit the pool that ReplicaState   *)
(* preallocates, of one per instance of a window.                           *)
THEOREM CommitsAlwaysFit == Spec => []CommitsFitPool
BY AlwaysReplayed, TypeCorrect, WindowBoundsCommits, PTL

-----------------------------------------------------------------------------
(***************************************************************************)
(* ChosenValuesSurvive, for every value of Consensus's constants: what a   *)
(* quorum committed, or everyone fast committed, in a view is what every   *)
(* later leader proposes for the instance.                                 *)
(*                                                                         *)
(* The argument is the one of Paxos, spread over changeView,               *)
(* handleSealView, pollVcStateCertificates and handleNewView: a certified  *)
(* state holds the last commits of its owner up to the view it sealed,     *)
(* except what the leader's checkpoint covers (Certifies); so the proposal *)
(* of a leader is the value of the last commit of a quorum that sealed the *)
(* view before (Safe), and stays so, for they commit nothing of it later.  *)
(***************************************************************************)

(* The prepares a replica holds, and those it committed, were proposed. *)
Proposed(p) == p \in Prepares(leader(p.view))
HeldProposed(r) ==
    /\ \A p \in prepare_certifier[r].tail : Proposed(p)
    /\ \A p \in instance_states[r] : Proposed(p)
CommitsProposed(r) == \A c \in Commits(r) : Proposed(c)

(* A commit is of the view its sender was in. *)
CommitsInView(r) ==
    \A j \in 1 .. Len(cb[r]) :
        cb[r][j].kind = "Commit" => cb[r][j].p.view = Seals(cb[r], j)

(* What r keeps of s: the last commit of every instance, of those handled,  *)
(* that r's checkpoint does not cover.                                      *)
Covered(r, C, c) ==
    \/ c.inst < certifiedCheckpoint(r).low
    \/ \E d \in C : d.inst = c.inst /\ d.view >= c.view
KeepsLast(r, s) ==
    LET st == states[r][s] IN
    /\ \A d \in st.commits : d.view <= st.at_view
    /\ \A j \in 1 .. st.next_cb :
          cb[s][j].kind = "Commit" => Covered(r, st.commits, cb[s][j].p)
OwnKeepsLast(r) ==
    err[r] = "ok" => /\ \A d \in states[r][r].commits : d.view <= At(r)
                     /\ \A c \in Commits(r) : Covered(r, states[r][r].commits, c)

(* C holds the last commits of t up to view v, which t sealed. *)
Certifies(r, t, v, C) ==
    /\ At(t) > v
    /\ C \subseteq Commits(t)
    /\ \A d \in C : d.view <= v /\ d.inst < certifiedCheckpoint(r).low + Window
    /\ \A c \in Commits(t) : c.view <= v => Covered(r, C, c)

AckedCertify(r) ==
    \A s \in Replica : \A a \in vc[r].acked[s] : Certifies(r, s, a.view, a.commits)
CertsCertify(r) ==
    \A v \in vc[r].ongoing : \A c \in vc[r].certs : Certifies(r, c.owner, v, c.commits)
NewViewCertified(r, m) ==
    \E C \in SUBSET StateCertificate :
        /\ m.commits = UNION {c.commits : c \in C}
        /\ Cardinality({c.owner : c \in C}) >= Quorum
        /\ \A c \in C : Certifies(r, c.owner, m.view - 1, c.commits)
PendingCertified(r) ==
    \A m \in vc[r].pending : /\ NewViewCertified(r, m)
                             /\ leader(At(r)) = r => m.view >= At(r)

(* A quorum left the views before q's, and q has the value of their last    *)
(* commit, if there is one.                                                 *)
SafeFor(q, Q) ==
    \A t \in Q :
        /\ At(t) >= q.view
        /\ \A c \in Commits(t) : c.inst = q.inst /\ c.view < q.view =>
              \E u \in Q : \E d \in Commits(u) :
                 /\ d.inst = q.inst /\ d.view >= c.view /\ d.view < q.view
                 /\ d.val = q.val
Safe(q) == \E Q \in SUBSET Replica : Cardinality(Q) >= Quorum /\ SafeFor(q, Q)

(* A quorum that reached view v committed nothing of the views before v at  *)
(* or above instance i.                                                     *)
FreshFrom(v, i) ==
    \E Q \in SUBSET Replica :
        /\ Cardinality(Q) >= Quorum
        /\ \A t \in Q : At(t) >= v /\ \A c \in Commits(t) : c.view < v => c.inst < i

(* What r holds to propose is safe, and so is any other batch above it. *)
SlotsOK(r) ==
    /\ \A k \in 1 .. Len(proposer[r].to_propose) : Safe(proposer[r].to_propose[k])
    /\ FreshFrom(At(r), proposer[r].next_proposal)

SlotsSafe(r) ==
    (leader(At(r)) = r /\ At(r) > 0 /\ vc[r].ongoing = {} /\ vc[r].pending = {})
        => SlotsOK(r)
PreparesSafe(r) == \A p \in Prepares(r) : p.view > 0 => Safe(p)

(* The leader's part. *)
CarryInv(r) == /\ AckedCertify(r) /\ CertsCertify(r) /\ PendingCertified(r)
               /\ SlotsSafe(r) /\ PreparesSafe(r)

ChosenInvAt(r) ==
    /\ HeldProposed(r) /\ CommitsProposed(r) /\ CommitsInView(r)
    /\ \A s \in Replica \ {r} : KeepsLast(r, s)
    /\ OwnKeepsLast(r)
    /\ CarryInv(r)
ChosenInv == \A r \in Replica : ChosenInvAt(r)

-----------------------------------------------------------------------------
(* What no step undoes *)

LaterAt(t) ==
    /\ At(t) <= At(t)'
    /\ Commits(t) \subseteq Commits(t)'
    /\ \A c \in Commits(t)' : c \in Commits(t) \/ c.view >= At(t)
    /\ Prepares(t) \subseteq Prepares(t)'
    /\ certifiedCheckpoint(t).low <= certifiedCheckpoint(t)'.low
Later == \A t \in Replica : LaterAt(t)

LEMMA CommitsType ==
    ASSUME NEW r \in Replica
    PROVE  /\ TypeOK => Commits(r) \in SUBSET Proposal
           /\ TypeOK' => Commits(r)' \in SUBSET Proposal
<1>1. ASSUME TypeOK PROVE Commits(r) \in SUBSET Proposal
  <2>1. \A p \in Commits(r) : \E k \in 1 .. Len(cb[r]) :
           cb[r][k].kind = "Commit" /\ p = cb[r][k].p
    BY DEF Commits, Broadcast
  <2>2. cb[r] \in Seq(Message)
    BY <1>1 DEF TypeOK
  <2>3. \A k \in 1 .. Len(cb[r]) : cb[r][k] \in Message
    BY <2>2
  <2> QED BY <2>1, <2>3, MessageParts
<1>2. ASSUME TypeOK' PROVE Commits(r)' \in SUBSET Proposal
  <2>1. \A p \in Commits(r)' : \E k \in 1 .. Len(cb'[r]) :
           cb'[r][k].kind = "Commit" /\ p = cb'[r][k].p
    BY DEF Commits, Broadcast
  <2>2. cb'[r] \in Seq(Message)
    BY <1>2 DEF TypeOK
  <2>3. \A k \in 1 .. Len(cb'[r]) : cb'[r][k] \in Message
    BY <2>2
  <2> QED BY <2>1, <2>3, MessageParts
<1> QED BY <1>1, <1>2

LEMMA CommitsAt ==
    ASSUME NEW r
    PROVE  /\ \A c \in Commits(r) : \E k \in 1 .. Len(cb[r]) :
                 cb[r][k].kind = "Commit" /\ c = cb[r][k].p
           /\ \A k \in 1 .. Len(cb[r]) : cb[r][k].kind = "Commit" => cb[r][k].p \in Commits(r)
BY DEF Commits, Broadcast

LEMMA CommitsAdd ==
    ASSUME TypeOK, NEW r \in Replica, NEW m \in Message, broadcast(r, m)
    PROVE  Commits(r)' = IF m.kind = "Commit" THEN Commits(r) \cup {m.p} ELSE Commits(r)
<1>1. Broadcast(r, "Commit")' = IF m.kind = "Commit" THEN Broadcast(r, "Commit") \cup {m}
                                ELSE Broadcast(r, "Commit")
  BY BroadcastAdds
<1> QED BY <1>1 DEF Commits

LEMMA PreparesGrow ==
    ASSUME TypeOK, NEW r \in Replica, NEW m \in Message, broadcast(r, m)
    PROVE  Prepares(r) \subseteq Prepares(r)'
<1>1. Broadcast(r, "Prepare") \subseteq Broadcast(r, "Prepare")'
  BY BroadcastAdds
<1> QED BY <1>1 DEF Prepares

(* Certified checkpoints only grow. *)
LEMMA CheckpointsGrow ==
    ASSUME TypeOK, TypeOK', NEW r \in Replica, Step(r), NEW q \in Replica
    PROVE  certifiedCheckpoint(q).low <= certifiedCheckpoint(q)'.low
<1>0. certifiedCheckpoint(q).low \in Nat /\ certifiedCheckpoint(r).low \in Nat
  BY CheckpointLowType
<1>1. CASE checkpoints' = checkpoints
  BY <1>0, <1>1 DEF certifiedCheckpoint
<1>2. CASE q # r
  <2>1. checkpoints'[q] = checkpoints[q]
    BY <1>2, StepLocal DEF Untouched
  <2> QED BY <1>0, <2>1 DEF certifiedCheckpoint
<1>3. ASSUME NEW c \in Checkpoint, Adopt(r, c)
      PROVE  certifiedCheckpoint(r).low <= certifiedCheckpoint(r)'.low
  BY <1>3, AdoptGrows
<1>4. CASE Decide(r)
  <2>1. checkpoints \in [Replica -> Checkpoints] /\ checkpoints[r] \in Checkpoints
    BY DEF TypeOK
  <2>2. checkpoints'[r].certified = checkpoints[r].certified
    BY <1>4, <2>1 DEF Decide, Checkpoints
  <2> QED BY <1>0, <1>2, <2>2 DEF certifiedCheckpoint
<1>5. CASE PollCheckpointCertificate(r)
  <2>1. PICK c \in checkpoints[r].local : Adopt(r, c)
    BY <1>5 DEF PollCheckpointCertificate
  <2>2. c \in Checkpoint
    BY <2>1 DEF TypeOK, Checkpoints
  <2> QED BY <1>2, <1>3, <2>1, <2>2
<1>6. ASSUME NEW s \in Replica, NEW c \in Checkpoint, handleCheckpoint(r, s, c)
      PROVE  certifiedCheckpoint(r).low <= certifiedCheckpoint(r)'.low
  <2>1. CASE checkpoints' = checkpoints
    BY <1>0, <2>1 DEF certifiedCheckpoint
  <2> QED BY <1>3, <1>6, <2>1 DEF handleCheckpoint
<1>7. CASE BroadcastCheckpoint(r)
  <2>1. certifiedCheckpoint(r) \in Checkpoint
    BY DEF TypeOK, Checkpoints, certifiedCheckpoint
  <2> QED BY <1>2, <1>6, <1>7, <2>1 DEF BroadcastCheckpoint
<1>8. ASSUME NEW s \in Replica, PollCheckpoint(r, s)
      PROVE  certifiedCheckpoint(q).low <= certifiedCheckpoint(q)'.low
  <2>1. NextCb(r, s).c \in Checkpoint /\ handleCheckpoint(r, s, NextCb(r, s).c)
    BY <1>8, NextCbType, MessageParts DEF PollCheckpoint, PollCb
  <2> QED BY <1>2, <1>6, <2>1
<1> QED BY <1>1, <1>4, <1>5, <1>7, <1>8
        DEF Step, GetSlot, AcceptRequest, Propose, CertifyPrepare, PollPromise,
            PollPrepareCertificate, PollVerifiedCommit, ChangeView, StartView,
            PollPrepare, PollCommit, PollSealView, PollNewView, PollFastCommit,
            PollVcStateCertificate, handlePrepare, handleCommit

LEMMA StepLater ==
    ASSUME TypeOK, TypeOK', NEW r \in Replica, Step(r)
    PROVE  Later
<1> SUFFICES ASSUME NEW t \in Replica PROVE LaterAt(t)
  BY DEF Later
<1>1. certifiedCheckpoint(t).low <= certifiedCheckpoint(t)'.low
  BY CheckpointsGrow
<1>2. At(t) \in Nat
  BY LeaderTypes
<1>3. ASSUME cb'[t] = cb[t], At(t)' = At(t) PROVE LaterAt(t)
  BY <1>1, <1>2, <1>3 DEF LaterAt, Commits, Prepares, Broadcast
<1>4. CASE t # r
  <2>1. Untouched(t)
    BY <1>4, StepLocal
  <2> QED BY <1>3, <2>1 DEF Untouched, At
<1>5. CASE t = r
  <2>1. CASE Idle(r) \/ \E s \in Replica : Receives(r, s)
    <3>1. cb' = cb /\ Same(states'[r][r], states[r][r])
      BY <2>1 DEF Idle, Receives, Unseen
    <3> QED BY <1>3, <1>5, <3>1 DEF Same, At
  <2>2. ASSUME NEW m, Sends(r, m) PROVE LaterAt(r)
    <3>1. /\ m \in Message /\ broadcast(r, m)
          /\ Effect(states'[r][r], states[r][r], m) \/ Same(states'[r][r], states[r][r])
          /\ m.kind = "Commit" => m.p.view = At(r)
      BY <2>2 DEF Sends
    <3>2. At(r)' = At(r) \/ At(r)' = At(r) + 1
      BY <3>1 DEF Effect, Same, At
    <3>3. At(r) <= At(r)'
      BY <1>2, <1>5, <3>2
    <3>4. /\ Commits(r)' = IF m.kind = "Commit" THEN Commits(r) \cup {m.p} ELSE Commits(r)
          /\ Prepares(r) \subseteq Prepares(r)'
      BY <3>1, CommitsAdd, PreparesGrow
    <3>5. \A c \in Commits(r)' : c \in Commits(r) \/ c.view >= At(r)
      BY <1>2, <1>5, <3>1, <3>4
    <3>6. Commits(r) \subseteq Commits(r)'
      BY <3>4
    <3> QED BY <1>1, <1>5, <3>3, <3>4, <3>5, <3>6 DEF LaterAt
  <2> QED BY <1>5, <2>1, <2>2, StepKinds
<1> QED BY <1>4, <1>5

LEMMA CoveredLater ==
    ASSUME TypeOK, TypeOK', NEW r \in Replica, LaterAt(r), NEW C, NEW c \in Proposal,
           Covered(r, C, c)
    PROVE  Covered(r, C, c)'
<1>1. /\ certifiedCheckpoint(r).low \in Nat /\ certifiedCheckpoint(r)'.low \in Nat
      /\ certifiedCheckpoint(r).low <= certifiedCheckpoint(r)'.low
      /\ c.inst \in Nat
  BY CheckpointLowType, ProposalTypes DEF LaterAt
<1> QED BY <1>1 DEF Covered

LEMMA CertifiesLater ==
    ASSUME TypeOK, TypeOK', Later, NEW r \in Replica, NEW t \in Replica, NEW v \in Nat,
           NEW C, Certifies(r, t, v, C)
    PROVE  Certifies(r, t, v, C)'
<1>1. /\ LaterAt(r) /\ LaterAt(t)
      /\ At(t) \in Nat /\ At(t)' \in Nat
      /\ certifiedCheckpoint(r).low \in Nat /\ certifiedCheckpoint(r)'.low \in Nat
  BY CheckpointLowType DEF Later
<1>2. Commits(t) \in SUBSET Proposal /\ Commits(t)' \in SUBSET Proposal
  BY CommitsType
<1>3. At(t)' > v
  BY <1>1 DEF Certifies, LaterAt
<1>4. C \subseteq Commits(t)'
  BY <1>1 DEF Certifies, LaterAt
<1>5. ASSUME NEW d \in C
      PROVE  d.view <= v /\ d.inst < certifiedCheckpoint(r)'.low + Window
  <2>1. d.inst \in Nat
    BY <1>2, <1>4, ProposalTypes
  <2>2. d.view <= v /\ d.inst < certifiedCheckpoint(r).low + Window
    BY DEF Certifies
  <2> QED BY <1>1, <2>1, <2>2, ConstantsAssumption DEF LaterAt
<1>6. ASSUME NEW c \in Commits(t)', c.view <= v PROVE Covered(r, C, c)'
  <2>1. c \in Proposal /\ c.view \in Nat
    BY <1>2, ProposalTypes
  <2>2. c \in Commits(t)
    BY <1>1, <1>6, <2>1 DEF LaterAt, Certifies
  <2>3. Covered(r, C, c)
    BY <1>6, <2>2 DEF Certifies
  <2> QED BY <1>1, <2>1, <2>3, CoveredLater
<1> QED BY <1>3, <1>4, <1>5, <1>6 DEF Certifies

LEMMA SafeLater ==
    ASSUME TypeOK, TypeOK', Later, NEW q \in Proposal, Safe(q)
    PROVE  Safe(q)'
<1>1. PICK Q \in SUBSET Replica : Cardinality(Q) >= Quorum /\ SafeFor(q, Q)
  BY DEF Safe
<1>2. q.view \in Nat
  BY ProposalTypes
<1>3. ASSUME NEW t \in Q
      PROVE  /\ At(t)' >= q.view
             /\ \A c \in Commits(t)' : c.inst = q.inst /\ c.view < q.view =>
                   \E u \in Q : \E d \in Commits(u)' :
                      /\ d.inst = q.inst /\ d.view >= c.view /\ d.view < q.view
                      /\ d.val = q.val
  <2>1. LaterAt(t) /\ At(t) \in Nat /\ At(t)' \in Nat
    BY CheckpointLowType DEF Later
  <2>2. At(t) >= q.view
    BY <1>1 DEF SafeFor
  <2>3. At(t)' >= q.view
    BY <1>2, <2>1, <2>2 DEF LaterAt
  <2>4. ASSUME NEW c \in Commits(t)', c.inst = q.inst, c.view < q.view
        PROVE  \E u \in Q : \E d \in Commits(u)' :
                  /\ d.inst = q.inst /\ d.view >= c.view /\ d.view < q.view
                  /\ d.val = q.val
    <3>1. c.view \in Nat
      <4>1. Commits(t)' \in SUBSET Proposal
        BY CommitsType
      <4> QED BY <4>1, ProposalTypes
    <3>2. c \in Commits(t)
      BY <1>2, <2>1, <2>2, <2>4, <3>1 DEF LaterAt
    <3>3. PICK u \in Q : \E d \in Commits(u) :
             d.inst = q.inst /\ d.view >= c.view /\ d.view < q.view /\ d.val = q.val
      BY <1>1, <2>4, <3>2 DEF SafeFor
    <3>4. Commits(u) \subseteq Commits(u)'
      BY DEF Later, LaterAt
    <3> QED BY <3>3, <3>4
  <2> QED BY <2>3, <2>4
<1> QED BY <1>1, <1>3 DEF Safe, SafeFor

-----------------------------------------------------------------------------
(* Only prepares that were proposed are held, and committed *)

LEMMA LeaderIsReplica == \A v \in Nat : leader(v) \in Replica
BY ConstantsAssumption DEF leader, Replica

LEMMA ProposedLater ==
    ASSUME Later, NEW p \in Proposal, Proposed(p)
    PROVE  Proposed(p)'
<1>1. p.view \in Nat /\ leader(p.view) \in Replica
  BY LeaderIsReplica, ProposalTypes
<1> QED BY <1>1 DEF Later, LaterAt, Proposed, leader

LEMMA CertifyHolds ==
    ASSUME TypeOK, NEW r \in Replica, NEW p, tryCertifyPrepare(r, p)
    PROVE  \A q \in prepare_certifier'[r].tail : q \in prepare_certifier[r].tail \/ q = p
<1>1. prepare_certifier \in [Replica -> PrepareCertifier]
  BY DEF TypeOK
<1>2. prepare_certifier[r] \in PrepareCertifier
  BY <1>1
<1>3. CASE prepare_certifier' = prepare_certifier
  BY <1>3
<1>4. CASE prepare_certifier' = [prepare_certifier EXCEPT
             ![r].tail = {q \in @ : InTail(Index(q), Index(p))} \cup {p},
             ![r].min = Index(p)]
  <2>1. prepare_certifier'[r].tail =
           {q \in prepare_certifier[r].tail : InTail(Index(q), Index(p))} \cup {p}
    BY <1>1, <1>2, <1>4 DEF PrepareCertifier
  <2> QED BY <2>1
<1> QED BY <1>3, <1>4 DEF tryCertifyPrepare

(* A prepare is held if it comes from its leader, is of the view and not    *)
(* checkpointed.                                                            *)
Accepts(r, s, p) ==
    /\ leader(p.view) = s /\ p.view = At(r)
    /\ ~(p.inst < certifiedCheckpoint(r).low)

LEMMA PrepareHolds ==
    ASSUME TypeOK, NEW r \in Replica, NEW s \in Replica, NEW p, handlePrepare(r, s, p)
    PROVE  /\ \A q \in prepare_certifier'[r].tail :
                 q \in prepare_certifier[r].tail \/ (q = p /\ Accepts(r, s, p))
           /\ \A q \in instance_states'[r] :
                 q \in instance_states[r] \/ (q = p /\ Accepts(r, s, p))
<1>1. CASE prepare_certifier' = prepare_certifier /\ instance_states' = instance_states
  BY <1>1
<1>2. CASE /\ ~ByzantinePrepare(r, s, p)
           /\ ~(p.view # At(r) \/ p.inst < certifiedCheckpoint(r).low)
           /\ instance_states' = [instance_states EXCEPT ![r] =
                {q \in @ : InTail(q.inst, p.inst)} \cup {p}]
           /\ tryCertifyPrepare(r, p)
  <2>1. Accepts(r, s, p)
    BY <1>2 DEF ByzantinePrepare, Accepts
  <2>2. instance_states'[r] = {q \in instance_states[r] : InTail(q.inst, p.inst)} \cup {p}
    BY <1>2 DEF TypeOK
  <2> QED BY <1>2, <2>1, <2>2, CertifyHolds
<1> QED BY <1>1, <1>2 DEF handlePrepare, instVars

LEMMA SameHolds ==
    ASSUME TypeOK, NEW r \in Replica, NEW s \in Replica,
           \/ \E val \in Value : GetSlot(r, val) \/ AcceptRequest(r, val)
           \/ PollPromise(r) \/ PollPrepareCertificate(r)
           \/ PollVerifiedCommit(r) \/ Decide(r) \/ PollCheckpointCertificate(r)
           \/ BroadcastCheckpoint(r) \/ ChangeView(r) \/ StartView(r) \/ PollCommit(r, s)
           \/ PollCheckpoint(r, s) \/ PollSealView(r, s) \/ PollNewView(r, s)
           \/ PollFastCommit(r, s) \/ PollVcStateCertificate(r, s)
    PROVE  /\ prepare_certifier'[r].tail \subseteq prepare_certifier[r].tail
           /\ instance_states'[r] \subseteq instance_states[r]
<1>1. /\ prepare_certifier \in [Replica -> PrepareCertifier]
      /\ prepare_certifier[r] \in PrepareCertifier
      /\ instance_states \in [Replica -> SUBSET Proposal]
  BY DEF TypeOK
<1>2. CASE PollPromise(r)
  <2>1. PICK i : prepare_certifier' = [prepare_certifier EXCEPT ![r].next_promise = i]
    BY <1>2 DEF PollPromise
  <2>2. prepare_certifier'[r].tail = prepare_certifier[r].tail
    BY <1>1, <2>1 DEF PrepareCertifier
  <2> QED BY <1>2, <2>2 DEF PollPromise
<1>3. CASE PollPrepareCertificate(r)
  <2>1. PICK i : prepare_certifier' = [prepare_certifier EXCEPT ![r].next_certificate = i]
    BY <1>3 DEF PollPrepareCertificate
  <2>2. prepare_certifier'[r].tail = prepare_certifier[r].tail
    BY <1>1, <2>1 DEF PrepareCertifier
  <2>3. instance_states' = instance_states
    BY <1>3 DEF PollPrepareCertificate, handleCommit
  <2> QED BY <2>2, <2>3
<1>4. CASE BroadcastCheckpoint(r)
  <2> DEFINE low == certifiedCheckpoint(r).low
  <2>1. /\ prepare_certifier' = [prepare_certifier EXCEPT ![r].tail =
              {p \in @ : Index(p) > pack(At(r), low - 1)}]
        /\ instance_states' = [instance_states EXCEPT ![r] = ForgetBelow(@, low)]
    BY <1>4 DEF BroadcastCheckpoint
  <2> HIDE DEF low
  <2>2. prepare_certifier'[r].tail =
           {p \in prepare_certifier[r].tail : Index(p) > pack(At(r), low - 1)}
    BY <1>1, <2>1 DEF PrepareCertifier
  <2>3. instance_states'[r] = ForgetBelow(instance_states[r], low)
    BY <1>1, <2>1
  <2> QED BY <2>2, <2>3 DEF ForgetBelow
<1>5. CASE ChangeView(r)
  <2>1. /\ prepare_certifier' = [prepare_certifier EXCEPT ![r].tail =
              {p \in @ : Index(p) > pack(At(r) + 1, 0)}]
        /\ instance_states' = [instance_states EXCEPT ![r] = {}]
    BY <1>5 DEF ChangeView
  <2>2. prepare_certifier'[r].tail =
           {p \in prepare_certifier[r].tail : Index(p) > pack(At(r) + 1, 0)}
    BY <1>1, <2>1 DEF PrepareCertifier
  <2>3. instance_states'[r] = {}
    BY <1>1, <2>1
  <2> QED BY <2>2, <2>3
<1>6. CASE prepare_certifier' = prepare_certifier /\ instance_states' = instance_states
  BY <1>6
<1> QED BY <1>2, <1>3, <1>4, <1>5, <1>6
        DEF GetSlot, AcceptRequest, PollVerifiedCommit, Decide,
            PollCheckpointCertificate, StartView, PollCommit, PollCheckpoint,
            PollSealView, PollNewView, PollFastCommit, PollVcStateCertificate,
            handleCommit, instVars

LEMMA HeldStep ==
    ASSUME TypeOK, TypeOK', NEW r \in Replica, Step(r), HeldProposed(r)
    PROVE  HeldProposed(r)'
<1> DEFINE Held == prepare_certifier[r].tail \cup instance_states[r]
           New == prepare_certifier'[r].tail \cup instance_states'[r]
<1>1. Later
  BY StepLater
<1>2. /\ Held \in SUBSET Proposal /\ \A p \in Held : Proposed(p)
      /\ New \in SUBSET Proposal
  BY DEF HeldProposed, TypeOK, PrepareCertifier
<1>3. \A p \in Held : Proposed(p)'
  BY <1>1, <1>2, ProposedLater
<1>4. SUFFICES \A p \in New : p \in Held \/ p \in Prepares(leader(p.view))'
  BY <1>3, <1>4 DEF HeldProposed, Proposed, leader
<1>5. CASE CertifyPrepare(r)
  <2>1. PICK p \in instance_states[r] : tryCertifyPrepare(r, p)
    BY <1>5 DEF CertifyPrepare
  <2>2. instance_states' = instance_states
    BY <1>5 DEF CertifyPrepare, instVars
  <2> QED BY <2>1, <2>2, CertifyHolds
<1>6. CASE Propose(r)
  <2> DEFINE p == Head(proposer[r].to_propose)
  <2>1. handlePrepare(r, r, p) /\ Prepares(r)' = Prepares(r) \cup {p}
    BY <1>6, ProposeSteps DEF Propose, ProposeStep
  <2> HIDE DEF p
  <2> QED BY <2>1, PrepareHolds DEF Accepts
<1>7. ASSUME NEW s \in Replica, PollPrepare(r, s)
      PROVE  \A p \in New : p \in Held \/ p \in Prepares(leader(p.view))'
  <2> DEFINE p == NextCb(r, s).p
  <2>1. /\ handlePrepare(r, s, p) /\ cb' = cb
        /\ states[r][s].next_cb < Len(cb[s]) /\ NextCb(r, s).kind = "Prepare"
    BY <1>7 DEF PollPrepare, PollCb
  <2>2. states[r][s].next_cb + 1 \in 1 .. Len(cb[s])
    BY <2>1, ReplayTypes
  <2>3. p \in Prepares(s)
    BY <2>1, <2>2 DEF Prepares, Broadcast, NextCb
  <2>4. Prepares(s)' = Prepares(s)
    BY <2>1 DEF Prepares, Broadcast
  <2> HIDE DEF p
  <2> QED BY <2>1, <2>3, <2>4, PrepareHolds DEF Accepts
<1>8. CASE New \subseteq Held
  BY <1>8
<1> QED BY <1>5, <1>6, <1>7, <1>8, SameHolds DEF Step

LEMMA CommitsProposedStep ==
    ASSUME TypeOK, TypeOK', NEW r \in Replica, Step(r), HeldProposed(r), CommitsProposed(r)
    PROVE  CommitsProposed(r)'
<1>1. Later /\ Commits(r) \in SUBSET Proposal
  BY StepLater, CommitsType
<1>2. \A c \in Commits(r) : Proposed(c)'
  BY <1>1, ProposedLater DEF CommitsProposed
<1>3. CASE cb' = cb
  BY <1>2, <1>3 DEF CommitsProposed, Commits, Broadcast
<1>4. ASSUME NEW m, Sends(r, m) PROVE CommitsProposed(r)'
  <2>1. /\ m \in Message /\ broadcast(r, m)
        /\ m.kind = "Commit" => m.p \in prepare_certifier[r].tail
    BY <1>4 DEF Sends
  <2>2. Commits(r)' = IF m.kind = "Commit" THEN Commits(r) \cup {m.p} ELSE Commits(r)
    BY <2>1, CommitsAdd
  <2>3. ASSUME m.kind = "Commit" PROVE Proposed(m.p)'
    <3>1. m.p \in Proposal /\ Proposed(m.p)
      BY <2>1, <2>3, MessageParts DEF HeldProposed
    <3> QED BY <1>1, <3>1, ProposedLater
  <2> QED BY <1>2, <2>2, <2>3 DEF CommitsProposed
<1> QED BY <1>3, <1>4, StepKinds DEF Idle, Receives

-----------------------------------------------------------------------------
(* The last commits are kept *)

(* A commit is replaced by one of the same instance that is no older, or    *)
(* pruned by a checkpoint that r adopts.                                    *)
LEMMA EffectCovers ==
    ASSUME TypeOK, TypeOK', NEW r \in Replica, LaterAt(r),
           NEW st, NEW st2, NEW m \in Message, Effect(st2, st, m),
           st.at_view \in Nat, st.commits \in SUBSET Proposal,
           \A d \in st.commits : d.view <= st.at_view,
           st2.low \in Nat, st2.low <= certifiedCheckpoint(r)'.low
    PROVE  /\ \A d \in st2.commits : d.view <= st2.at_view
           /\ \A c \in Proposal : Covered(r, st.commits, c) =>
                 \/ c.inst < certifiedCheckpoint(r)'.low
                 \/ \E d \in st2.commits : d.inst = c.inst /\ d.view >= c.view
           /\ m.kind = "Commit" => m.p \in st2.commits /\ m.p.view \in Nat
<1>1. /\ certifiedCheckpoint(r).low \in Nat /\ certifiedCheckpoint(r)'.low \in Nat
      /\ certifiedCheckpoint(r).low <= certifiedCheckpoint(r)'.low
  BY CheckpointLowType DEF LaterAt
<1>2. \A d \in st.commits : d.view \in Nat /\ d.inst \in Nat /\ d.view <= st.at_view
  BY ProposalTypes
<1>3. CASE m.kind = "Commit"
  <2>1. m.p \in Proposal /\ m.p.view \in Nat /\ m.p.inst \in Nat
    BY <1>3, MessageParts, ProposalTypes
  <2>2. /\ st2.commits = {d \in st.commits : d.inst # m.p.inst} \cup {m.p}
        /\ m.p.view = st.at_view /\ st2.at_view = st.at_view
    BY <1>3 DEF Effect
  <2>3. \A d \in st2.commits : d.view <= st2.at_view
    BY <1>2, <2>1, <2>2
  <2>4. ASSUME NEW c \in Proposal, NEW d \in st.commits, d.inst = c.inst, d.view >= c.view
        PROVE  \E e \in st2.commits : e.inst = c.inst /\ e.view >= c.view
    <3>1. c.view \in Nat /\ d.view \in Nat /\ d.view <= st.at_view
      BY <1>2, ProposalTypes
    <3>2. CASE d.inst = m.p.inst
      <4>1. m.p.view >= c.view
        BY <2>2, <2>4, <3>1
      <4> QED BY <2>2, <2>4, <3>2, <4>1
    <3>3. CASE d.inst # m.p.inst
      BY <2>2, <2>4, <3>3
    <3> QED BY <3>2, <3>3
  <2>5. ASSUME NEW c \in Proposal, c.inst < certifiedCheckpoint(r).low
        PROVE  c.inst < certifiedCheckpoint(r)'.low
    BY <1>1, <2>5, ProposalTypes
  <2> QED BY <2>1, <2>2, <2>3, <2>4, <2>5 DEF Covered
<1>4. CASE m.kind = "Checkpoint"
  <2>1. /\ st2.commits = {d \in st.commits : d.inst >= m.c.low}
        /\ st2.at_view = st.at_view /\ st2.low = m.c.low
    BY <1>4 DEF Effect, PruneCommits
  <2>2. ASSUME NEW c \in Proposal, Covered(r, st.commits, c)
        PROVE  \/ c.inst < certifiedCheckpoint(r)'.low
               \/ \E d \in st2.commits : d.inst = c.inst /\ d.view >= c.view
    <3>1. c.inst \in Nat
      BY ProposalTypes
    <3>2. CASE c.inst < certifiedCheckpoint(r).low
      BY <1>1, <3>1, <3>2
    <3>3. CASE \E d \in st.commits : d.inst = c.inst /\ d.view >= c.view
      <4>1. PICK d \in st.commits : d.inst = c.inst /\ d.view >= c.view
        BY <3>3
      <4>2. CASE c.inst >= m.c.low
        BY <2>1, <4>1, <4>2
      <4>3. CASE ~(c.inst >= m.c.low)
        <5>1. c.inst < st2.low
          BY <2>1, <3>1, <4>3
        <5> QED BY <1>1, <3>1, <5>1
      <4> QED BY <4>2, <4>3
    <3> QED BY <2>2, <3>2, <3>3 DEF Covered
  <2>3. \A d \in st2.commits : d.view <= st2.at_view
    BY <2>1
  <2> QED BY <1>4, <2>2, <2>3
<1>5. CASE m.kind \notin {"Commit", "Checkpoint"}
  <2>1. /\ st2.commits = st.commits
        /\ st2.at_view = st.at_view \/ st2.at_view = st.at_view + 1
    BY <1>5 DEF Effect
  <2>2. \A d \in st2.commits : d.view <= st2.at_view
    BY <1>2, <2>1
  <2>3. ASSUME NEW c \in Proposal, c.inst < certifiedCheckpoint(r).low
        PROVE  c.inst < certifiedCheckpoint(r)'.low
    BY <1>1, <2>3, ProposalTypes
  <2> QED BY <1>5, <2>1, <2>2, <2>3 DEF Covered
<1> QED BY <1>3, <1>4, <1>5

LEMMA UnseenKeeps ==
    ASSUME TypeOK, TypeOK', Grows, NEW r \in Replica, LaterAt(r), NEW s \in Replica \ {r},
           Replayed(r, s), Unseen(r, s), KeepsLast(r, s)
    PROVE  KeepsLast(r, s)'
<1> DEFINE n == states[r][s].next_cb
           C == states[r][s].commits
<1>1. /\ n \in Nat /\ Len(cb[s]) \in Nat /\ n <= Len(cb[s]) /\ cb[s] \in Seq(Message)
      /\ states'[r][s].next_cb = n /\ states'[r][s].commits = C
      /\ states'[r][s].at_view = states[r][s].at_view
  BY ReplayTypes DEF Replayed, Unseen, Same
<1>2. ASSUME NEW j \in 1 .. n, cb'[s][j].kind = "Commit"
      PROVE  \/ cb'[s][j].p.inst < certifiedCheckpoint(r)'.low
             \/ \E d \in C : d.inst = cb'[s][j].p.inst /\ d.view >= cb'[s][j].p.view
  <2>1. j \in 1 .. Len(cb[s])
    BY <1>1
  <2>2. cb'[s][j] = cb[s][j] /\ cb[s][j] \in Message
    BY <1>1, <2>1 DEF Grows
  <2>3. Covered(r, C, cb[s][j].p)
    BY <1>2, <2>2 DEF KeepsLast
  <2>4. cb[s][j].p \in Proposal /\ cb[s][j].p.inst \in Nat
    BY <1>2, <2>2, MessageParts, ProposalTypes
  <2>5. /\ certifiedCheckpoint(r).low \in Nat /\ certifiedCheckpoint(r)'.low \in Nat
        /\ certifiedCheckpoint(r).low <= certifiedCheckpoint(r)'.low
    BY CheckpointLowType DEF LaterAt
  <2>6. CASE cb[s][j].p.inst < certifiedCheckpoint(r).low
    BY <2>2, <2>4, <2>5, <2>6
  <2> QED BY <2>2, <2>3, <2>6 DEF Covered
<1>3. \A d \in C : d.view <= states[r][s].at_view
  BY DEF KeepsLast
<1> QED BY <1>1, <1>2, <1>3 DEF KeepsLast, Covered

LEMMA ReceiveKeeps ==
    ASSUME TypeOK, TypeOK', NEW r \in Replica, LaterAt(r), NEW s \in Replica,
           Receives(r, s), WindowsCertified(r)', KeepsLast(r, s)
    PROVE  KeepsLast(r, s)'
<1> DEFINE n == states[r][s].next_cb
           st == states[r][s]
           st2 == states'[r][s]
           m == NextCb(r, s)
<1>1. /\ n \in Nat /\ Len(cb[s]) \in Nat /\ n < Len(cb[s]) /\ cb[s] \in Seq(Message)
      /\ st2.next_cb = n + 1 /\ cb' = cb /\ Effect(st2, st, m)
      /\ st.at_view \in Nat /\ st.commits \in SUBSET Proposal
  BY ReplayTypes DEF Receives
<1>2. m \in Message /\ m = cb[s][n + 1]
  BY <1>1, NextCbType DEF NextCb
<1>3. st2.low \in Nat /\ st2.low <= certifiedCheckpoint(r)'.low
  <2>1. st2 \in ReplicaState
    BY DEF TypeOK
  <2> QED BY <2>1 DEF ReplicaState, WindowsCertified
<1>4. \A d \in st.commits : d.view <= st.at_view
  BY DEF KeepsLast
<1>5. /\ \A d \in st2.commits : d.view <= st2.at_view
      /\ \A c \in Proposal : Covered(r, st.commits, c) =>
            \/ c.inst < certifiedCheckpoint(r)'.low
            \/ \E d \in st2.commits : d.inst = c.inst /\ d.view >= c.view
      /\ m.kind = "Commit" => m.p \in st2.commits /\ m.p.view \in Nat
  <2> HIDE DEF st, st2, m
  <2> QED BY SMTT(20), <1>1, <1>2, <1>3, <1>4, EffectCovers
<1>6. ASSUME NEW j \in 1 .. n + 1, cb[s][j].kind = "Commit"
      PROVE  \/ cb[s][j].p.inst < certifiedCheckpoint(r)'.low
             \/ \E d \in st2.commits : d.inst = cb[s][j].p.inst /\ d.view >= cb[s][j].p.view
  <2>1. CASE j = n + 1
    <3>1. m = cb[s][j] /\ m.p \in st2.commits /\ m.p.view >= m.p.view
      BY <1>2, <1>5, <1>6, <2>1
    <3> QED BY <3>1
  <2>2. CASE j # n + 1
    <3>1. j \in 1 .. n /\ j \in 1 .. Len(cb[s])
      BY <1>1, <2>2
    <3>2. cb[s][j] \in Message
      BY <1>1, <3>1
    <3>3. Covered(r, st.commits, cb[s][j].p) /\ cb[s][j].p \in Proposal
      BY <1>6, <3>1, <3>2, MessageParts DEF KeepsLast
    <3> QED BY <1>5, <3>3
  <2> QED BY <2>1, <2>2
<1> QED BY <1>1, <1>5, <1>6 DEF KeepsLast, Covered

LEMMA SendKeeps ==
    ASSUME TypeOK, TypeOK', NEW r \in Replica, LaterAt(r), NEW m, Sends(r, m),
           WindowsCertified(r)', OwnKeepsLast(r)
    PROVE  OwnKeepsLast(r)'
<1> DEFINE st == states[r][r]
           st2 == states'[r][r]
<1> SUFFICES ASSUME err'[r] = "ok"
             PROVE  /\ \A d \in st2.commits : d.view <= st2.at_view
                    /\ \A c \in Commits(r)' :
                          \/ c.inst < certifiedCheckpoint(r)'.low
                          \/ \E d \in st2.commits : d.inst = c.inst /\ d.view >= c.view
  BY DEF OwnKeepsLast, Covered, At
<1>1. /\ m \in Message /\ broadcast(r, m) /\ err[r] = "ok" /\ Effect(st2, st, m)
      /\ st.at_view \in Nat /\ st.commits \in SUBSET Proposal
  BY ReplayTypes DEF Sends
<1>2. st2.low \in Nat /\ st2.low <= certifiedCheckpoint(r)'.low
  <2>1. st2 \in ReplicaState
    BY DEF TypeOK
  <2> QED BY <2>1 DEF ReplicaState, WindowsCertified
<1>3. /\ \A d \in st.commits : d.view <= st.at_view
      /\ \A c \in Commits(r) : Covered(r, st.commits, c)
  BY <1>1 DEF OwnKeepsLast, At
<1>4. /\ \A d \in st2.commits : d.view <= st2.at_view
      /\ \A c \in Proposal : Covered(r, st.commits, c) =>
            \/ c.inst < certifiedCheckpoint(r)'.low
            \/ \E d \in st2.commits : d.inst = c.inst /\ d.view >= c.view
      /\ m.kind = "Commit" => m.p \in st2.commits /\ m.p.view \in Nat
  <2> HIDE DEF st, st2
  <2> QED BY <1>1, <1>2, <1>3, EffectCovers
<1>5. Commits(r)' = IF m.kind = "Commit" THEN Commits(r) \cup {m.p} ELSE Commits(r)
  BY <1>1, CommitsAdd
<1>6. Commits(r) \in SUBSET Proposal
  BY CommitsType
<1>7. m.kind = "Commit" =>
         \E d \in st2.commits : d.inst = m.p.inst /\ d.view >= m.p.view
  BY <1>4
<1> QED BY <1>3, <1>4, <1>5, <1>6, <1>7

LEMMA SameOwnKeeps ==
    ASSUME TypeOK, TypeOK', NEW r \in Replica, LaterAt(r), OwnKeepsLast(r),
           cb'[r] = cb[r], Same(states'[r][r], states[r][r]),
           err'[r] = "ok" => err[r] = "ok"
    PROVE  OwnKeepsLast(r)'
<1> DEFINE C == states[r][r].commits
<1> SUFFICES ASSUME err'[r] = "ok"
             PROVE  /\ \A d \in C : d.view <= At(r)
                    /\ \A c \in Commits(r) :
                          \/ c.inst < certifiedCheckpoint(r)'.low
                          \/ \E d \in C : d.inst = c.inst /\ d.view >= c.view
  BY DEF OwnKeepsLast, Covered, At, Same, Commits, Broadcast
<1>1. /\ \A d \in C : d.view <= At(r)
      /\ \A c \in Commits(r) : Covered(r, C, c)
  BY DEF OwnKeepsLast
<1>2. /\ certifiedCheckpoint(r).low \in Nat /\ certifiedCheckpoint(r)'.low \in Nat
      /\ certifiedCheckpoint(r).low <= certifiedCheckpoint(r)'.low
  BY CheckpointLowType DEF LaterAt
<1>3. \A c \in Commits(r) : c.inst \in Nat
  BY CommitsType, ProposalTypes
<1>4. \A c \in Commits(r) : c.inst < certifiedCheckpoint(r).low =>
         c.inst < certifiedCheckpoint(r)'.low
  BY <1>2, <1>3
<1> QED BY <1>1, <1>4 DEF Covered

LEMMA InViewStep ==
    ASSUME TypeOK, NEW r \in Replica, OwnReplayed(r), CommitsInView(r),
           cb'[r] = cb[r] \/ \E m : Sends(r, m)
    PROVE  CommitsInView(r)'
<1>1. CASE cb'[r] = cb[r]
  BY <1>1 DEF CommitsInView
<1>2. ASSUME NEW m, Sends(r, m) PROVE CommitsInView(r)'
  <2> DEFINE n == Len(cb[r])
             q == cb[r]
             q2 == cb'[r]
  <2>1. n \in Nat /\ Len(q2) = n + 1 /\ q2[n + 1] = m /\ \A j \in 1 .. n : q2[j] = q[j]
    <3>1. m \in Message /\ broadcast(r, m)
      BY <1>2 DEF Sends
    <3> QED BY <3>1, BroadcastsGrow, ReplayTypes DEF Grows
  <2> HIDE DEF q, q2, n
  <2>2. ASSUME NEW j \in 1 .. n + 1, q2[j].kind = "Commit"
        PROVE  q2[j].p.view = Seals(q2, j)
    <3>1. CASE j \in 1 .. n
      <4>1. q2[j] = q[j] /\ j \in Nat /\ \A i \in 1 .. j : q2[i] = q[i]
        BY <2>1, <3>1
      <4>2. Seals(q2, j) = Seals(q, j)
        BY <4>1, PrefixKept
      <4> QED BY <2>2, <3>1, <4>1, <4>2 DEF CommitsInView, q, n
    <3>2. CASE j \notin 1 .. n
      <4>1. j = n + 1
        BY <2>1, <3>2
      <4>2. m.kind = "Commit" /\ m.p.view = At(r)
        BY <1>2, <2>1, <2>2, <4>1 DEF Sends
      <4>3. At(r) = Seals(q, n)
        BY DEF OwnReplayed, q, n
      <4>4. Seals(q2, n) = Seals(q, n)
        BY <2>1, PrefixKept
      <4>5. Seals(q2, n + 1) = Seals(q2, n)
        BY <2>1, <4>2, SealsStep
      <4> QED BY <2>1, <4>1, <4>2, <4>3, <4>4, <4>5
    <3> QED BY <3>1, <3>2
  <2> QED BY <2>1, <2>2 DEF CommitsInView, q2
<1> QED BY <1>1, <1>2

-----------------------------------------------------------------------------
(* What is certified of a replica that seals a view *)

LEMMA KeptWereSent ==
    ASSUME NEW s, NEW n \in Nat, NEW l \in Nat, l = Len(cb[s]), n <= l
    PROVE  Kept(cb[s], n) \subseteq Commits(s)
<1>1. ASSUME NEW j \in 1 .. n, cb[s][j].kind = "Commit" PROVE cb[s][j].p \in Commits(s)
  <2>1. j \in 1 .. Len(cb[s])
    OBVIOUS
  <2> QED BY <1>1, <2>1, CommitsAt
<1> QED BY <1>1 DEF Kept, KeptAt

LEMMA WindowBelow ==
    ASSUME TypeOK, NEW r \in Replica, NEW s \in Replica, WindowsCertified(r), InWindow(r, s)
    PROVE  \A d \in states[r][s].commits : d.inst < certifiedCheckpoint(r).low + Window
<1>1. /\ states[r][s].low \in Nat /\ states[r][s].commits \in SUBSET Proposal
      /\ certifiedCheckpoint(r).low \in Nat /\ Window \in Nat
  BY ReplayTypes, CheckpointLowType, ConstantsAssumption
<1>2. states[r][s].low <= certifiedCheckpoint(r).low
  BY DEF WindowsCertified
<1>3. ASSUME NEW d \in states[r][s].commits
      PROVE  d.inst < certifiedCheckpoint(r).low + Window
  <2>1. d.inst \in Nat /\ d.inst < states[r][s].low + Window
    BY <1>1, ProposalTypes DEF InWindow
  <2> QED BY <1>1, <1>2, <2>1
<1> QED BY <1>3

LEMMA PolledSealCertifies ==
    ASSUME TypeOK, TypeOK', ReplayInv, NEW r \in Replica, NEW s \in Replica,
           PollSealView(r, s), WindowsCertified(r), KeepsLast(r, s), CommitsInView(s),
           NEW a, a = serializeState(r, s)
    PROVE  Certifies(r, s, a.view, a.commits)'
<1> DEFINE n == states[r][s].next_cb
           q == cb[s]
<1>1. /\ s # r /\ cb' = cb /\ checkpoints' = checkpoints
      /\ n < Len(q) /\ q[n + 1].kind = "SealView"
  BY DEF PollSealView, PollCb, NextCb
<1>2. n \in Nat /\ Len(q) \in Nat
  BY ReplayTypes
<1>3. /\ a.view = Seals(q, n) /\ a.commits = Kept(q, n)
      /\ a.view = states[r][s].at_view /\ a.commits = states[r][s].commits
  BY <1>1 DEF serializeState, ReplayInv, ReplayInvAt, Replayed
<1>4. At(s)' = Seals(q, Len(q))
  <2>1. Untouched(s)
    BY <1>1, StepLocal DEF Step
  <2> QED BY <2>1 DEF Untouched, At, ReplayInv, ReplayInvAt, OwnReplayed
<1>5. /\ Seals(q, n) \in Nat /\ Seals(q, n + 1) = Seals(q, n) + 1
      /\ \A k \in Nat : n + 1 <= k => Seals(q, k) >= Seals(q, n) + 1 /\ Seals(q, k) \in Nat
  <2>1. Seals(q, n) \in Nat /\ Seals(q, n + 1) = Seals(q, n) + 1
    BY <1>1, <1>2, SealsStep, SealsFinite
  <2>2. \A k \in Nat : n + 1 <= k => Seals(q, n + 1) <= Seals(q, k) /\ Seals(q, k) \in Nat
    BY <1>2, SealsGrow, SealsFinite
  <2> HIDE DEF q, n
  <2> QED BY <1>2, <2>1, <2>2
<1>6. Commits(s)' = Commits(s) /\ certifiedCheckpoint(r)' = certifiedCheckpoint(r)
  BY <1>1 DEF Commits, Broadcast, certifiedCheckpoint
<1>7. At(s)' > a.view
  <2>1. n + 1 <= Len(q)
    BY <1>1, <1>2
  <2> QED BY <1>2, <1>3, <1>4, <1>5, <2>1
<1>8. a.commits \subseteq Commits(s)
  <2>1. n <= Len(q)
    BY <1>1, <1>2
  <2> QED BY <1>2, <1>3, <2>1, KeptWereSent
<1>9. \A d \in a.commits : d.view <= a.view /\ d.inst < certifiedCheckpoint(r).low + Window
  BY <1>3, WindowBelow DEF KeepsLast, ReplayInv, ReplayInvAt
<1>10. ASSUME NEW c \in Commits(s), c.view <= a.view PROVE Covered(r, a.commits, c)
  <2>1. PICK k \in 1 .. Len(q) : q[k].kind = "Commit" /\ c = q[k].p
    BY CommitsAt
  <2>2. c.view = Seals(q, k)
    BY <2>1 DEF CommitsInView
  <2>3. k \in 1 .. n
    <3> SUFFICES ASSUME k \notin 1 .. n PROVE FALSE
      OBVIOUS
    <3>1. k \in Nat /\ n + 1 <= k
      BY <1>2
    <3>2. Seals(q, k) >= Seals(q, n) + 1 /\ Seals(q, k) \in Nat
      BY <1>5, <3>1
    <3> QED BY <1>3, <1>5, <1>10, <2>2, <3>2
  <2> QED BY <1>3, <2>1, <2>3 DEF KeepsLast
<1> QED BY <1>6, <1>7, <1>8, <1>9, <1>10 DEF Certifies, Covered

LEMMA OwnSealCertifies ==
    ASSUME TypeOK, TypeOK', ReplayInv, NEW r \in Replica, ChangeView(r),
           WindowsCertified(r), OwnKeepsLast(r), NEW a, a = serializeState(r, r)
    PROVE  Certifies(r, r, a.view, a.commits)'
<1>1. /\ err[r] = "ok" /\ checkpoints' = checkpoints
      /\ broadcast(r, SealViewMessage) /\ handleSealView(r, r)
  BY DEF ChangeView, Running
<1>2. a.view = At(r) /\ a.commits = states[r][r].commits /\ At(r) \in Nat
  BY LeaderTypes DEF serializeState, At
<1>3. At(r)' = At(r) + 1
  <2>1. SealViewMessage.kind = "SealView"
    BY DEF SealViewMessage
  <2>2. Effect(states'[r][r], states[r][r], SealViewMessage)
    BY <1>1, <2>1, SealViewEffect
  <2> QED BY <2>1, <2>2 DEF Effect, At
<1>4. Commits(r)' = Commits(r) /\ certifiedCheckpoint(r)' = certifiedCheckpoint(r)
  <2>1. SealViewMessage \in Message /\ SealViewMessage.kind # "Commit"
    BY MessageTypes DEF SealViewMessage
  <2> QED BY <1>1, <2>1, CommitsAdd DEF certifiedCheckpoint
<1>5. a.commits \subseteq Commits(r)
  <2>1. a.commits = Kept(cb[r], Len(cb[r])) /\ Len(cb[r]) \in Nat
    BY <1>1, <1>2, ReplayTypes DEF ReplayInv, ReplayInvAt, OwnReplayed
  <2> QED BY <2>1, KeptWereSent
<1>6. \A d \in a.commits : d.view <= a.view /\ d.inst < certifiedCheckpoint(r).low + Window
  BY <1>1, <1>2, WindowBelow DEF OwnKeepsLast, ReplayInv, ReplayInvAt
<1>7. \A c \in Commits(r) : Covered(r, a.commits, c)
  BY <1>1, <1>2 DEF OwnKeepsLast
<1>8. At(r)' > a.view
  BY <1>2, <1>3
<1> QED BY <1>4, <1>5, <1>6, <1>7, <1>8 DEF Certifies, Covered

-----------------------------------------------------------------------------
(* What is certified stays so *)

LEMMA FreshLater ==
    ASSUME TypeOK, TypeOK', Later, NEW v \in Nat, NEW i \in Nat, NEW j \in Nat, i <= j,
           FreshFrom(v, i)
    PROVE  FreshFrom(v, j)'
<1>1. PICK Q \in SUBSET Replica :
         /\ Cardinality(Q) >= Quorum
         /\ \A t \in Q : At(t) >= v /\ \A c \in Commits(t) : c.view < v => c.inst < i
  BY DEF FreshFrom
<1>2. ASSUME NEW t \in Q
      PROVE  At(t)' >= v /\ \A c \in Commits(t)' : c.view < v => c.inst < j
  <2>1. /\ LaterAt(t) /\ At(t) \in Nat /\ At(t)' \in Nat /\ At(t) >= v
        /\ Commits(t)' \in SUBSET Proposal
    BY <1>1, CheckpointLowType, CommitsType DEF Later
  <2>2. At(t)' >= v
    BY <2>1 DEF LaterAt
  <2>3. ASSUME NEW c \in Commits(t)', c.view < v PROVE c.inst < j
    <3>1. c.view \in Nat /\ c.inst \in Nat
      BY <2>1, ProposalTypes
    <3>2. c \in Commits(t)
      BY <2>1, <2>3, <3>1 DEF LaterAt
    <3> QED BY <1>1, <2>3, <3>1, <3>2
  <2> QED BY <2>2, <2>3
<1> QED BY <1>1, <1>2 DEF FreshFrom

LEMMA AckedLater ==
    ASSUME TypeOK, TypeOK', Later, NEW r \in Replica, AckedCertify(r)
    PROVE  \A s \in Replica : \A a \in vc[r].acked[s] : Certifies(r, s, a.view, a.commits)'
<1>1. ASSUME NEW s \in Replica, NEW a \in vc[r].acked[s]
      PROVE  Certifies(r, s, a.view, a.commits)'
  <2>1. a.view \in Nat /\ Certifies(r, s, a.view, a.commits)
    BY LeaderTypes DEF AckedCertify
  <2> QED BY <2>1, CertifiesLater
<1> QED BY <1>1

LEMMA CertsLater ==
    ASSUME TypeOK, TypeOK', Later, NEW r \in Replica, CertsCertify(r)
    PROVE  \A v \in vc[r].ongoing : \A c \in vc[r].certs : Certifies(r, c.owner, v, c.commits)'
<1>1. ASSUME NEW v \in vc[r].ongoing, NEW c \in vc[r].certs
      PROVE  Certifies(r, c.owner, v, c.commits)'
  <2>1. v \in Nat /\ c.owner \in Replica /\ Certifies(r, c.owner, v, c.commits)
    BY LeaderTypes DEF CertsCertify
  <2> QED BY <2>1, CertifiesLater
<1> QED BY <1>1

LEMMA PendingLater ==
    ASSUME TypeOK, TypeOK', Later, NEW r \in Replica, Announced(r), PendingCertified(r)
    PROVE  \A m \in vc[r].pending : NewViewCertified(r, m)'
<1>1. ASSUME NEW m \in vc[r].pending PROVE NewViewCertified(r, m)'
  <2>1. m.view \in Nat /\ m.view > 0 /\ m.view - 1 \in Nat
    BY LeaderTypes DEF Announced
  <2>2. PICK C \in SUBSET StateCertificate :
           /\ m.commits = UNION {c.commits : c \in C}
           /\ Cardinality({c.owner : c \in C}) >= Quorum
           /\ \A c \in C : Certifies(r, c.owner, m.view - 1, c.commits)
    BY DEF PendingCertified, NewViewCertified
  <2>3. ASSUME NEW c \in C PROVE Certifies(r, c.owner, m.view - 1, c.commits)'
    <3>1. c.owner \in Replica
      BY DEF StateCertificate
    <3> QED BY <2>1, <2>2, <3>1, CertifiesLater
  <2> QED BY <2>2, <2>3 DEF NewViewCertified
<1> QED BY <1>1

LEMMA PreparesLater ==
    ASSUME TypeOK, TypeOK', Later, NEW r \in Replica, PreparesSafe(r)
    PROVE  \A p \in Prepares(r) : p.view > 0 => Safe(p)'
<1>1. ASSUME NEW p \in Prepares(r), p.view > 0 PROVE Safe(p)'
  <2>1. p \in Proposal /\ Safe(p)
    BY <1>1, PreparesType DEF PreparesSafe
  <2> QED BY <2>1, SafeLater
<1> QED BY <1>1

LEMMA SlotsLater ==
    ASSUME TypeOK, TypeOK', Later, NEW r \in Replica, At(r)' = At(r),
           proposer'[r] = proposer[r], SlotsOK(r)
    PROVE  SlotsOK(r)'
<1> DEFINE tp == proposer[r].to_propose
           n == proposer[r].next_proposal
<1>1. tp \in Seq(Proposal) /\ n \in Nat /\ At(r) \in Nat
  BY LeaderTypes
<1>2. \A k \in 1 .. Len(tp) : Safe(tp[k])
  BY DEF SlotsOK
<1>3. ASSUME NEW p \in Proposal, Safe(p) PROVE Safe(p)'
  BY <1>3, SafeLater
<1>4. ASSUME NEW k \in 1 .. Len(proposer'[r].to_propose)
      PROVE  Safe(proposer[r].to_propose[k])'
  <2>1. PICK p \in Proposal : p = tp[k] /\ Safe(p)
    BY <1>1, <1>2
  <2>2. Safe(p)' /\ p = proposer'[r].to_propose[k]
    BY <1>3, <2>1
  <2> QED BY <2>2 DEF Safe, SafeFor
<1>5. PICK v \in Nat, i \in Nat : v = At(r) /\ i = n /\ FreshFrom(v, i)
  BY <1>1 DEF SlotsOK
<1>6. FreshFrom(v, i)' /\ v = At(r)' /\ i = proposer'[r].next_proposal
  BY <1>5, FreshLater
<1>7. FreshFrom(At(r), proposer[r].next_proposal)'
  BY <1>6 DEF FreshFrom
<1> QED BY <1>4, <1>7 DEF SlotsOK

-----------------------------------------------------------------------------
(* The steps of the leader *)

LEMMA SameViews ==
    ASSUME NEW r \in Replica, Views(r)' = Views(r)
    PROVE  At(r)' = At(r)
<1>1. Views(r)'[r] = Views(r)[r]
  OBVIOUS
<1> QED BY <1>1 DEF Views, At

LEMMA SameCarries ==
    ASSUME TypeOK, TypeOK', Later, NEW r \in Replica, LeaderInvAt(r), CarryInv(r),
           LeaderSame(r)
    PROVE  CarryInv(r)'
<1>1. /\ Prepares(r)' = Prepares(r) /\ proposer'[r] = proposer[r] /\ vc'[r] = vc[r]
      /\ At(r)' = At(r)
  BY SameViews DEF LeaderSame
<1>2. AckedCertify(r)' /\ CertsCertify(r)'
  BY <1>1, AckedLater, CertsLater DEF CarryInv, AckedCertify, CertsCertify
<1>3. PendingCertified(r)'
  BY <1>1, PendingLater DEF CarryInv, PendingCertified, LeaderInvAt, leader
<1>4. PreparesSafe(r)'
  BY <1>1, PreparesLater DEF CarryInv, PreparesSafe
<1>5. SlotsSafe(r)'
  BY <1>1, SlotsLater DEF CarryInv, SlotsSafe, leader
<1> QED BY <1>2, <1>3, <1>4, <1>5 DEF CarryInv

LEMMA SealCarries ==
    ASSUME TypeOK, TypeOK', Later, NEW r \in Replica, NEW s \in Replica, NEW a,
           LeaderInvAt(r), CarryInv(r), SealStep(r, s, a),
           Certifies(r, s, a.view, a.commits)',
           s = r => \A m \in vc[r].pending : At(r) < m.view,
           s # r => vc[r].pending = {}
    PROVE  CarryInv(r)'
<1> DEFINE v == states[r][s].at_view
<1>1. /\ Prepares(r)' = Prepares(r) /\ proposer'[r] = proposer[r]
      /\ states'[r][s].at_view = v + 1
      /\ \A t \in Replica \ {s} : states'[r][t].at_view = states[r][t].at_view
      /\ vc'[r].acked[s] = {a}
      /\ \A t \in Replica \ {s} : vc'[r].acked[t] = vc[r].acked[t]
      /\ vc'[r].pending = vc[r].pending
  BY DEF SealStep
<1>2. /\ Starts(r, v) => vc'[r].ongoing = {v} /\ vc'[r].certs = {}
      /\ ~Starts(r, v) => vc'[r].ongoing = vc[r].ongoing /\ vc'[r].certs = vc[r].certs
  BY DEF SealStep
<1>3. v \in Nat /\ At(r) \in Nat /\ vc[r].ongoing \in SUBSET Nat
      /\ \A m \in vc[r].pending : m.view \in Nat
  BY LeaderTypes
<1>4. AckedCertify(r)'
  <2>1. ASSUME NEW t \in Replica, NEW b \in vc'[r].acked[t]
        PROVE  Certifies(r, t, b.view, b.commits)'
    <3>1. CASE t = s
      BY <1>1, <3>1
    <3>2. CASE t # s
      BY <1>1, <3>2, AckedLater DEF CarryInv
    <3> QED BY <3>1, <3>2
  <2> QED BY <2>1 DEF AckedCertify
<1>5. CertsCertify(r)'
  <2>1. CASE Starts(r, v)
    BY <1>2, <2>1 DEF CertsCertify
  <2>2. CASE ~Starts(r, v)
    BY <1>2, <2>2, CertsLater DEF CertsCertify, CarryInv
  <2> QED BY <2>1, <2>2
<1>6. PendingCertified(r)'
  <2>1. CASE s # r
    BY <1>1, <2>1 DEF PendingCertified
  <2>2. CASE s = r
    <3>1. At(r)' = At(r) + 1
      BY <1>1, <2>2 DEF At
    <3>2. ASSUME NEW m \in vc[r].pending PROVE NewViewCertified(r, m)' /\ m.view >= At(r)'
      BY <1>3, <2>2, <3>1, PendingLater DEF CarryInv, LeaderInvAt
    <3> QED BY <1>1, <3>2 DEF PendingCertified
  <2> QED BY <2>1, <2>2
<1>7. PreparesSafe(r)'
  BY <1>1, PreparesLater DEF CarryInv, PreparesSafe
<1>8. SlotsSafe(r)'
  <2> SUFFICES ASSUME leader(At(r)') = r, At(r)' > 0, vc'[r].ongoing = {}, vc'[r].pending = {}
               PROVE  SlotsOK(r)'
    BY DEF SlotsSafe, leader
  <2>1. ~Starts(r, v) /\ vc[r].ongoing = {} /\ vc[r].pending = {}
    BY <1>1, <1>2
  <2>2. s # r
    <3> SUFFICES ASSUME s = r PROVE FALSE
      OBVIOUS
    <3>1. At(r)' = v + 1
      BY <1>1 DEF At
    <3> QED BY <2>1, <3>1 DEF Starts
  <2>3. At(r)' = At(r)
    BY <1>1, <2>2 DEF At
  <2> QED BY <1>1, <2>1, <2>3, SlotsLater DEF CarryInv, SlotsSafe
<1> QED BY <1>4, <1>5, <1>6, <1>7, <1>8 DEF CarryInv

LEMMA CollectedCertify ==
    ASSUME TypeOK, TypeOK', Later, NEW r \in Replica, NEW s \in Replica,
           NEW a \in vc[r].acked[s], LeaderInvAt(r), CarryInv(r)
    PROVE  \A v \in vc[r].ongoing : \A c \in Collected(r, s, a) :
              Certifies(r, c.owner, v, c.commits)'
<1>1. ASSUME NEW v \in vc[r].ongoing, NEW c \in vc[r].certs
      PROVE  Certifies(r, c.owner, v, c.commits)'
  BY CertsLater DEF CarryInv
<1>2. ASSUME NEW v \in vc[r].ongoing, a.view \in vc[r].ongoing,
             NEW c, c = [owner |-> s, commits |-> a.commits]
      PROVE  Certifies(r, c.owner, v, c.commits)'
  <2>1. v = a.view /\ c.owner = s /\ c.commits = a.commits
    BY <1>2 DEF LeaderInvAt, Collecting
  <2>2. Certifies(r, s, a.view, a.commits)'
    BY AckedLater DEF CarryInv
  <2> QED BY <2>1, <2>2
<1> QED BY <1>1, <1>2 DEF Collected

LEMMA CollectCarries ==
    ASSUME TypeOK, TypeOK', Later, NEW r \in Replica, NEW s \in Replica, NEW a,
           LeaderInvAt(r), CarryInv(r), CollectStep(r, s, a)
    PROVE  CarryInv(r)'
<1>1. /\ Prepares(r)' = Prepares(r) /\ proposer'[r] = proposer[r]
      /\ At(r)' = At(r)
      /\ a \in vc[r].acked[s]
      /\ vc'[r].acked[s] = {}
      /\ \A t \in Replica \ {s} : vc'[r].acked[t] = vc[r].acked[t]
      /\ vc'[r].certs = Collected(r, s, a)
      /\ vc'[r].pending = vc[r].pending
      /\ vc'[r].ongoing = vc[r].ongoing
  BY SameViews DEF CollectStep
<1>2. AckedCertify(r)'
  <2>1. ASSUME NEW t \in Replica, NEW b \in vc'[r].acked[t] PROVE b \in vc[r].acked[t]
    BY <1>1
  <2> QED BY <2>1, AckedLater DEF AckedCertify, CarryInv
<1>3. CertsCertify(r)'
  BY <1>1, CollectedCertify DEF CertsCertify
<1>4. PendingCertified(r)'
  BY <1>1, PendingLater DEF CarryInv, PendingCertified, LeaderInvAt, leader
<1>5. PreparesSafe(r)'
  BY <1>1, PreparesLater DEF CarryInv, PreparesSafe
<1>6. SlotsSafe(r)'
  BY <1>1, SlotsLater DEF CarryInv, SlotsSafe, leader
<1> QED BY <1>2, <1>3, <1>4, <1>5, <1>6 DEF CarryInv

LEMMA AnnounceCarries ==
    ASSUME TypeOK, TypeOK', Later, NEW r \in Replica, NEW s \in Replica, NEW a, NEW m,
           LeaderInvAt(r), CarryInv(r), AnnounceStep(r, s, a, m)
    PROVE  CarryInv(r)'
<1> DEFINE C == Collected(r, s, a)
<1>1. /\ Prepares(r)' = Prepares(r) /\ proposer'[r] = proposer[r]
      /\ At(r)' = At(r) /\ Views(r)' = Views(r)
      /\ vc[r].pending = {}
      /\ a \in vc[r].acked[s] /\ Cardinality(C) = Quorum
      /\ vc'[r].acked[s] = {}
      /\ \A t \in Replica \ {s} : vc'[r].acked[t] = vc[r].acked[t]
      /\ vc'[r].certs = {} /\ vc'[r].ongoing = {}
      /\ vc'[r].pending = {m} /\ m.view = a.view + 1
      /\ m.commits = UNION {c.commits : c \in C}
  BY SameViews DEF AnnounceStep
<1>2. a.view \in Nat /\ At(r) \in Nat /\ vc[r].ongoing \in SUBSET Nat
  BY <1>1, LeaderTypes
<1>3. a.view \in vc[r].ongoing
  <2> SUFFICES ASSUME a.view \notin vc[r].ongoing PROVE FALSE
    OBVIOUS
  <2>1. Cardinality(vc[r].certs) < Quorum /\ C = vc[r].certs
    BY DEF LeaderInvAt, Collecting, Collected
  <2> QED BY <1>1, <2>1, ReplicasFinite
<1>4. /\ \A c, d \in C : c.owner = d.owner => c = d
      /\ C \in SUBSET StateCertificate
      /\ \A c \in C : c.owner \in Replica
  <2>1. \A c, d \in C : c.owner = d.owner => c = d
    BY <1>1, PollConsumes
  <2>2. vc[r].certs \in SUBSET StateCertificate /\ a.commits \in SUBSET Proposal
    BY <1>1, LeaderTypes DEF SerializedState
  <2>3. [owner |-> s, commits |-> a.commits] \in StateCertificate
    BY <2>2 DEF StateCertificate
  <2>4. C \in SUBSET StateCertificate
    BY <2>2, <2>3 DEF Collected
  <2>5. \A c \in C : c.owner \in Replica
    BY <2>4 DEF StateCertificate
  <2> HIDE DEF C
  <2> QED BY <2>1, <2>4, <2>5
<1>5. NewViewCertified(r, m)'
  <2>1. \A c \in C : Certifies(r, c.owner, a.view, c.commits)'
    BY <1>1, <1>3, CollectedCertify
  <2>2. m.view - 1 = a.view
    BY <1>1, <1>2
  <2>3. PICK D : D = C
    OBVIOUS
  <2>4. /\ D \in SUBSET StateCertificate /\ m.commits = UNION {c.commits : c \in D}
        /\ \A c \in D : Certifies(r, c.owner, m.view - 1, c.commits)'
    BY <1>1, <1>4, <2>1, <2>2, <2>3
  <2>5. Cardinality({c.owner : c \in D}) >= Quorum
    <3> HIDE DEF C
    <3>1. Cardinality({c.owner : c \in D}) = Cardinality(D)
      BY <1>4, <2>3, OwnersCount
    <3> QED BY <1>1, <2>3, <3>1, ReplicasFinite
  <2> QED BY <2>4, <2>5 DEF NewViewCertified
<1>6. ASSUME leader(At(r)) = r PROVE m.view >= At(r)
  <2>1. CASE \E v \in vc[r].ongoing : v + 1 >= At(r)
    BY <1>1, <1>2, <1>3, <2>1 DEF LeaderInvAt, Collecting
  <2>2. CASE At(r) = 0
    BY <1>1, <1>2, <2>2
  <2>3. CASE At(r) # 0 /\ Closed(r, At(r) - 1)
    <3> SUFFICES ASSUME At(r) > a.view + 1 PROVE FALSE
      BY <1>1, <1>2
    <3>1. At(r) - 1 \in Nat /\ a.view <= At(r) - 1
      BY <1>2, <2>3
    <3> HIDE DEF C
    <3>2. ~Closed(r, At(r) - 1)
      BY <1>1, <1>3, <1>4, <3>1, AnnouncedOpen DEF C
    <3> QED BY <2>3, <3>2
  <2> QED BY <1>1, <1>6, <2>1, <2>2, <2>3 DEF LeaderInvAt, Leading
<1>7. PendingCertified(r)'
  BY <1>1, <1>5, <1>6 DEF PendingCertified, leader
<1>8. AckedCertify(r)'
  <2>1. ASSUME NEW t \in Replica, NEW b \in vc'[r].acked[t] PROVE b \in vc[r].acked[t]
    BY <1>1
  <2> QED BY <2>1, AckedLater DEF AckedCertify, CarryInv
<1>9. PreparesSafe(r)'
  BY <1>1, PreparesLater DEF CarryInv, PreparesSafe
<1>10. CertsCertify(r)' /\ SlotsSafe(r)'
  BY <1>1 DEF CertsCertify, SlotsSafe
<1> QED BY <1>7, <1>8, <1>9, <1>10 DEF CarryInv

(* validValues has, for what a quorum committed above r's checkpoint, a     *)
(* commit that is no older.                                                 *)
LEMMA NewViewRecovers ==
    ASSUME TypeOK, NEW r \in Replica, NEW m, NEW w \in Nat, m.view = w + 1,
           NEW C \in SUBSET StateCertificate,
           m.commits = UNION {c.commits : c \in C},
           \A c \in C : Certifies(r, c.owner, w, c.commits)
    PROVE  /\ \A x \in validValues(m.commits) : \E e \in C :
                 x \in Commits(e.owner) /\ x.view <= w
           /\ \A e \in C : \A c \in Commits(e.owner) :
                 c.view <= w /\ ~(c.inst < certifiedCheckpoint(r).low) =>
                    /\ \E x \in validValues(m.commits) : x.inst = c.inst
                    /\ \A x \in validValues(m.commits) : x.inst = c.inst =>
                          x.view >= c.view
<1> DEFINE low == certifiedCheckpoint(r).low
           M == m.commits
<1>1. low \in Nat /\ Window \in Nat
  BY CheckpointLowType, ConstantsAssumption
<1>2. ASSUME NEW x \in M
      PROVE  /\ \E e \in C : x \in Commits(e.owner)
             /\ x.view <= w /\ x.inst < low + Window
             /\ x \in Proposal /\ x.view \in Nat /\ x.inst \in Nat
  <2>1. PICK e \in C : x \in e.commits
    OBVIOUS
  <2>2. /\ x \in Commits(e.owner) /\ x.view <= w /\ x.inst < low + Window
        /\ e.owner \in Replica
    BY <2>1 DEF Certifies, StateCertificate
  <2>3. x \in Proposal
    BY <2>2, CommitsType
  <2> QED BY <2>2, <2>3, ProposalTypes
<1>3. \A x \in validValues(M) : x \in M
  BY DEF validValues
<1>4. \A x \in validValues(M) : \E e \in C : x \in Commits(e.owner) /\ x.view <= w
  BY <1>2, <1>3
<1>5. ASSUME NEW e \in C, NEW c \in Commits(e.owner), c.view <= w, ~(c.inst < low)
      PROVE  /\ \E x \in validValues(M) : x.inst = c.inst
             /\ \A x \in validValues(M) : x.inst = c.inst => x.view >= c.view
  <2>1. c \in Proposal /\ c.inst \in Nat /\ c.view \in Nat
    BY CommitsType, ProposalTypes DEF StateCertificate
  <2>2. PICK d \in e.commits : d.inst = c.inst /\ d.view >= c.view
    BY <1>5 DEF Certifies, Covered
  <2>3. d \in M
    BY <2>2
  <2> DEFINE S == {x.view : x \in {y \in M : y.inst = c.inst}}
  <2>4. S \in SUBSET Nat /\ S # {} /\ \A n \in S : n <= w
    BY <1>2, <2>2, <2>3
  <2>5. PICK n \in S : \A k \in S : k <= n
    <3> HIDE DEF S
    <3> QED BY <2>4, NatMax
  <2>6. PICK x \in M : x.inst = c.inst /\ x.view = n
    BY <2>5
  <2>7. \A y \in M : y.inst = x.inst => y.view <= x.view
    BY <2>5, <2>6
  <2>8. ASSUME NEW y \in M PROVE y.inst < x.inst + Window
    <3>1. y.inst < low + Window /\ y.inst \in Nat
      BY <1>2
    <3>2. low <= x.inst /\ x.inst \in Nat
      BY <1>1, <1>5, <2>1, <2>6
    <3> HIDE DEF low
    <3> QED BY <1>1, <3>1, <3>2
  <2>9. x \in validValues(M)
    BY <2>7, <2>8 DEF validValues
  <2>10. ASSUME NEW y \in validValues(M), y.inst = c.inst PROVE y.view >= c.view
    <3>1. y \in M /\ d.view <= y.view
      BY <1>3, <2>2, <2>3, <2>10 DEF validValues
    <3>2. y.view \in Nat /\ d.view \in Nat
      BY <1>2, <2>3, <3>1
    <3> QED BY <2>1, <2>2, <3>1, <3>2
  <2> QED BY <2>6, <2>9, <2>10
<1> QED BY <1>4, <1>5

LEMMA StartSafe ==
    ASSUME TypeOK, TypeOK', NEW r \in Replica, NEW m, NEW n, NEW first,
           LeaderInvAt(r), CarryInv(r), StartStep(r, m, n, first), leader(At(r)) = r
    PROVE  /\ \A k \in 1 .. n : \A q : q = proposer'[r].to_propose[k] => Safe(q)
           /\ FreshFrom(At(r), first + n)
<1>1. /\ m \in vc[r].pending /\ At(r) >= m.view
      /\ n \in Nat /\ first \in Nat /\ first = certifiedCheckpoint(r).low
      /\ \A k \in 1 .. n : /\ proposer'[r].to_propose[k].view = At(r)
                           /\ proposer'[r].to_propose[k].inst = first + k - 1
      /\ \A x \in validValues(m.commits) : x.inst < first + n
      /\ \A k \in 1 .. n :
            (\E x \in validValues(m.commits) : x.inst = first + k - 1) =>
               \E x \in validValues(m.commits) :
                  x.inst = first + k - 1 /\ proposer'[r].to_propose[k].val = x.val
  BY DEF StartStep
<1>2. /\ m.view \in Nat /\ m.view > 0 /\ At(r) \in Nat
      /\ NewViewCertified(r, m) /\ m.view >= At(r)
  BY <1>1, LeaderTypes DEF LeaderInvAt, Announced, CarryInv, PendingCertified
<1>3. PICK w \in Nat : m.view = w + 1 /\ w = m.view - 1
  <2>1. m.view - 1 \in Nat /\ m.view = (m.view - 1) + 1
    BY <1>2
  <2> QED BY <2>1
<1>4. At(r) = w + 1
  BY <1>1, <1>2, <1>3
<1>5. PICK C \in SUBSET StateCertificate :
         /\ m.commits = UNION {c.commits : c \in C}
         /\ Cardinality({c.owner : c \in C}) >= Quorum
         /\ \A c \in C : Certifies(r, c.owner, w, c.commits)
  BY <1>2, <1>3 DEF NewViewCertified
<1>6. /\ \A x \in validValues(m.commits) : \E e \in C :
            x \in Commits(e.owner) /\ x.view <= w
      /\ \A e \in C : \A c \in Commits(e.owner) :
            c.view <= w /\ ~(c.inst < first) =>
               /\ \E x \in validValues(m.commits) : x.inst = c.inst
               /\ \A x \in validValues(m.commits) : x.inst = c.inst => x.view >= c.view
  <2>1. /\ \A x \in validValues(m.commits) : \E e \in C :
              x \in Commits(e.owner) /\ x.view <= w
        /\ \A e \in C : \A c \in Commits(e.owner) :
              c.view <= w /\ ~(c.inst < certifiedCheckpoint(r).low) =>
                 /\ \E x \in validValues(m.commits) : x.inst = c.inst
                 /\ \A x \in validValues(m.commits) : x.inst = c.inst =>
                       x.view >= c.view
    <3>1. m.view = w + 1
      BY <1>3
    <3>2. /\ m.commits = UNION {c.commits : c \in C}
          /\ \A c \in C : Certifies(r, c.owner, w, c.commits)
      BY <1>5
    <3> QED BY ONLY TypeOK, r \in Replica, w \in Nat, C \in SUBSET StateCertificate,
               <3>1, <3>2, NewViewRecovers
  <2> QED BY <1>1, <2>1
<1> DEFINE Q == {c.owner : c \in C}
<1>7. Q \in SUBSET Replica
  BY DEF StateCertificate
<1>8. \A t \in Q : At(t) \in Nat /\ At(t) > w /\ Commits(t) \in SUBSET Proposal
  BY <1>5, <1>7, CheckpointLowType, CommitsType DEF Certifies
<1>9. FreshFrom(At(r), first + n)
  <2>1. ASSUME NEW t \in Q, NEW c \in Commits(t), c.view < At(r) PROVE c.inst < first + n
    <3>1. PICK e \in C : e.owner = t
      OBVIOUS
    <3>2. c.view \in Nat /\ c.inst \in Nat
      BY <1>8, ProposalTypes
    <3>3. CASE c.inst < first
      BY <1>1, <3>2, <3>3
    <3>4. CASE ~(c.inst < first)
      <4>1. c.view <= w
        BY <1>4, <2>1, <3>2
      <4> QED BY <1>1, <1>6, <3>1, <3>4, <4>1
    <3> QED BY <3>3, <3>4
  <2>2. \A t \in Q : At(t) >= At(r)
    BY <1>4, <1>8
  <2> HIDE DEF Q
  <2> QED BY <1>5, <1>7, <2>1, <2>2 DEF FreshFrom, Q
<1>10. ASSUME NEW k \in 1 .. n, NEW q, q = proposer'[r].to_propose[k] PROVE Safe(q)
  <2>1. q.view = w + 1 /\ q.inst = first + k - 1
    BY <1>1, <1>4, <1>10
  <2>2. ~(q.inst < first)
    BY <1>1, <2>1
  <2>3. ASSUME NEW t \in Q, NEW c \in Commits(t), c.inst = q.inst, c.view < q.view
        PROVE  \E u \in Q : \E d \in Commits(u) :
                  /\ d.inst = q.inst /\ d.view >= c.view /\ d.view < q.view
                  /\ d.val = q.val
    <3>1. PICK e \in C : e.owner = t
      OBVIOUS
    <3>2. c.view \in Nat
      BY <1>8, ProposalTypes
    <3>3. c.view <= w
      BY <2>1, <2>3, <3>2
    <3>4. /\ \E x \in validValues(m.commits) : x.inst = c.inst
          /\ \A x \in validValues(m.commits) : x.inst = c.inst => x.view >= c.view
      BY <1>6, <2>2, <2>3, <3>1, <3>3
    <3>5. PICK x \in validValues(m.commits) : x.inst = q.inst /\ x.val = q.val
      BY <1>1, <1>10, <2>1, <2>3, <3>4
    <3>6. PICK u \in Q : x \in Commits(u) /\ x.view <= w
      BY <1>6
    <3>7. x.view \in Nat
      BY <1>8, <3>6, ProposalTypes
    <3>8. x.view < q.view
      BY <2>1, <3>6, <3>7
    <3> QED BY <2>3, <3>4, <3>5, <3>6, <3>8
  <2>4. \A t \in Q : At(t) >= q.view
    BY <1>8, <2>1
  <2>5. SafeFor(q, Q)
    <3> HIDE DEF Q
    <3> QED BY <2>3, <2>4 DEF SafeFor
  <2> QED BY <1>5, <1>7, <2>5 DEF Safe
<1> QED BY <1>9, <1>10

LEMMA StartCarries ==
    ASSUME TypeOK, TypeOK', Later, NEW r \in Replica, NEW m, NEW n, NEW first,
           LeaderInvAt(r), CarryInv(r), StartStep(r, m, n, first)
    PROVE  CarryInv(r)'
<1>1. /\ Prepares(r)' = Prepares(r) /\ At(r)' = At(r)
      /\ vc'[r].pending = {}
      /\ vc'[r].ongoing = vc[r].ongoing /\ vc'[r].certs = vc[r].certs
      /\ vc'[r].acked = vc[r].acked
      /\ n \in Nat /\ first \in Nat
      /\ proposer'[r].next_proposal = first + n
      /\ Len(proposer'[r].to_propose) = n
  BY SameViews DEF StartStep
<1>2. AckedCertify(r)' /\ CertsCertify(r)'
  BY <1>1, AckedLater, CertsLater DEF CarryInv, AckedCertify, CertsCertify
<1>3. PendingCertified(r)'
  BY <1>1 DEF PendingCertified
<1>4. PreparesSafe(r)'
  BY <1>1, PreparesLater DEF CarryInv, PreparesSafe
<1>5. ASSUME leader(At(r)) = r PROVE SlotsOK(r)'
  <2>1. /\ \A k \in 1 .. n : \A q : q = proposer'[r].to_propose[k] => Safe(q)
        /\ FreshFrom(At(r), first + n)
    BY <1>5, StartSafe
  <2>2. At(r) \in Nat /\ proposer'[r].to_propose \in Seq(Proposal)
    BY LeaderTypes DEF TypeOK, Proposer
  <2>3. ASSUME NEW k \in 1 .. n PROVE Safe(proposer[r].to_propose[k])'
    <3>1. PICK q \in Proposal : q = proposer'[r].to_propose[k]
      BY <1>1, <2>2
    <3>2. Safe(q)'
      BY <2>1, <3>1, SafeLater
    <3> QED BY <3>1, <3>2 DEF Safe, SafeFor
  <2>4. PICK v \in Nat, i \in Nat : v = At(r) /\ i = first + n /\ FreshFrom(v, i)
    BY <1>1, <2>1, <2>2
  <2>5. FreshFrom(v, i)' /\ v = At(r)' /\ i = proposer'[r].next_proposal
    BY <1>1, <2>4, FreshLater
  <2>6. FreshFrom(At(r), proposer[r].next_proposal)'
    BY <2>5 DEF FreshFrom
  <2> QED BY <1>1, <2>3, <2>6 DEF SlotsOK
<1>6. SlotsSafe(r)'
  BY <1>1, <1>5 DEF SlotsSafe, leader
<1> QED BY <1>2, <1>3, <1>4, <1>6 DEF CarryInv

LEMMA FreshIsSafe ==
    ASSUME TypeOK, NEW v \in Nat, NEW i \in Nat, FreshFrom(v, i), NEW q \in Proposal,
           q.view = v, q.inst >= i
    PROVE  Safe(q)
<1>1. PICK Q \in SUBSET Replica :
         /\ Cardinality(Q) >= Quorum
         /\ \A t \in Q : At(t) >= v /\ \A c \in Commits(t) : c.view < v => c.inst < i
  BY DEF FreshFrom
<1>2. ASSUME NEW t \in Q, NEW c \in Commits(t), c.inst = q.inst, c.view < q.view PROVE FALSE
  <2>1. c.inst < i /\ q.inst \in Nat
    BY <1>1, <1>2, ProposalTypes
  <2> QED BY <1>2, <2>1
<1>3. SafeFor(q, Q)
  BY <1>1, <1>2 DEF SafeFor
<1> QED BY <1>1, <1>3 DEF Safe

LEMMA SlotCarries ==
    ASSUME TypeOK, TypeOK', Later, NEW r \in Replica, NEW p, LeaderInvAt(r), CarryInv(r),
           SlotStep(r, p)
    PROVE  CarryInv(r)'
<1> DEFINE tp == proposer[r].to_propose
           n == proposer[r].next_proposal
<1>1. /\ Prepares(r)' = Prepares(r) /\ At(r)' = At(r) /\ vc'[r] = vc[r]
      /\ p \in Proposal /\ p.view = At(r) /\ p.inst = n
      /\ proposer'[r].next_proposal = n + 1
      /\ proposer'[r].to_propose = Append(tp, p)
      /\ n \in Nat /\ At(r) \in Nat /\ tp \in Seq(Proposal)
  BY SameViews, LeaderTypes DEF SlotStep
<1>2. AckedCertify(r)' /\ CertsCertify(r)'
  BY <1>1, AckedLater, CertsLater DEF CarryInv, AckedCertify, CertsCertify
<1>3. PendingCertified(r)'
  BY <1>1, PendingLater DEF CarryInv, PendingCertified, LeaderInvAt, leader
<1>4. PreparesSafe(r)'
  BY <1>1, PreparesLater DEF CarryInv, PreparesSafe
<1>5. ASSUME SlotsOK(r) PROVE SlotsOK(r)'
  <2>1. PICK v \in Nat, i \in Nat : v = At(r) /\ i = n /\ FreshFrom(v, i)
    BY <1>1, <1>5 DEF SlotsOK
  <2>2. i + 1 \in Nat /\ i <= i + 1
    OBVIOUS
  <2>3. FreshFrom(v, i + 1)' /\ v = At(r)' /\ i + 1 = proposer'[r].next_proposal
    BY <1>1, <2>1, <2>2, FreshLater
  <2>4. FreshFrom(At(r), proposer[r].next_proposal)'
    BY <2>3 DEF FreshFrom
  <2>5. Safe(p)
    BY <1>1, <2>1, FreshIsSafe
  <2>6. ASSUME NEW k \in 1 .. Len(proposer'[r].to_propose)
        PROVE  Safe(proposer[r].to_propose[k])'
    <3>1. \E q \in Proposal : q = proposer'[r].to_propose[k] /\ Safe(q)
      <4>1. /\ Len(Append(tp, p)) = Len(tp) + 1 /\ Len(tp) \in Nat
            /\ \A j \in 1 .. Len(tp) : Append(tp, p)[j] = tp[j]
            /\ Append(tp, p)[Len(tp) + 1] = p
        BY <1>1, AppendElements
      <4>2. CASE k \in 1 .. Len(tp)
        <5>1. tp[k] \in Proposal /\ Safe(tp[k])
          BY <1>1, <1>5, <4>2 DEF SlotsOK
        <5> QED BY <1>1, <4>1, <4>2, <5>1
      <4>3. CASE k = Len(tp) + 1
        BY <1>1, <2>5, <4>1, <4>3
      <4> QED BY <1>1, <4>1, <4>2, <4>3
    <3>2. PICK q \in Proposal : q = proposer'[r].to_propose[k] /\ Safe(q)
      BY <3>1
    <3>3. Safe(q)'
      BY <3>2, SafeLater
    <3> QED BY <3>2, <3>3 DEF Safe, SafeFor
  <2> QED BY <2>4, <2>6 DEF SlotsOK
<1>6. SlotsSafe(r)'
  BY <1>1, <1>5 DEF CarryInv, SlotsSafe, leader
<1> QED BY <1>2, <1>3, <1>4, <1>6 DEF CarryInv

LEMMA ProposeCarries ==
    ASSUME TypeOK, TypeOK', Later, NEW r \in Replica, LeaderInvAt(r), CarryInv(r),
           ProposeStep(r)
    PROVE  CarryInv(r)'
<1> DEFINE tp == proposer[r].to_propose
           n == proposer[r].next_proposal
<1>1. /\ Prepares(r)' = Prepares(r) \cup {Head(tp)} /\ At(r)' = At(r) /\ vc'[r] = vc[r]
      /\ leader(At(r)) = r /\ vc[r].ongoing = {} /\ vc[r].pending = {}
      /\ tp # << >> /\ proposer'[r].next_proposal = n
      /\ proposer'[r].to_propose = Tail(tp)
      /\ n \in Nat /\ At(r) \in Nat /\ tp \in Seq(Proposal)
  BY SameViews, LeaderTypes DEF ProposeStep
<1>2. AckedCertify(r)' /\ CertsCertify(r)'
  BY <1>1, AckedLater, CertsLater DEF CarryInv, AckedCertify, CertsCertify
<1>3. PendingCertified(r)'
  BY <1>1, PendingLater DEF CarryInv, PendingCertified, LeaderInvAt, leader
<1>4. /\ 1 \in 1 .. Len(tp) /\ Head(tp) = tp[1] /\ Head(tp) \in Proposal
      /\ Len(Tail(tp)) = Len(tp) - 1 /\ Len(tp) \in Nat
      /\ \A k \in 1 .. Len(tp) - 1 : Tail(tp)[k] = tp[k + 1]
  BY <1>1
<1>5. ASSUME At(r) > 0 PROVE SlotsOK(r)
  BY <1>1, <1>5 DEF CarryInv, SlotsSafe
<1>6. Head(tp).view = At(r)
  BY <1>1, <1>4 DEF LeaderInvAt, Leading
<1>7. ASSUME Head(tp).view > 0 PROVE Safe(Head(tp)) /\ SlotsOK(r)
  BY <1>4, <1>5, <1>6, <1>7 DEF SlotsOK
<1>8. PreparesSafe(r)'
  <2>1. PICK h \in Proposal : h = Head(tp)
    BY <1>4
  <2>2. h.view > 0 => Safe(h)'
    BY <1>7, <2>1, SafeLater
  <2>3. \A p \in Prepares(r) : p.view > 0 => Safe(p)'
    BY PreparesLater DEF CarryInv
  <2> HIDE DEF tp
  <2>4. ASSUME NEW p \in Prepares(r)', p.view > 0 PROVE Safe(p)'
    BY <1>1, <2>1, <2>2, <2>3, <2>4
  <2> QED BY <2>4 DEF PreparesSafe
<1>9. ASSUME SlotsOK(r) PROVE SlotsOK(r)'
  <2>1. PICK v \in Nat, i \in Nat : v = At(r) /\ i = n /\ FreshFrom(v, i)
    BY <1>1, <1>9 DEF SlotsOK
  <2>2. FreshFrom(v, i)' /\ v = At(r)' /\ i = proposer'[r].next_proposal
    BY <1>1, <2>1, FreshLater
  <2>3. FreshFrom(At(r), proposer[r].next_proposal)'
    BY <2>2 DEF FreshFrom
  <2>4. ASSUME NEW k \in 1 .. Len(proposer'[r].to_propose)
        PROVE  Safe(proposer[r].to_propose[k])'
    <3>1. k \in 1 .. Len(tp) - 1 /\ k + 1 \in 1 .. Len(tp)
      BY <1>1, <1>4
    <3>2. tp[k + 1] \in Proposal /\ Safe(tp[k + 1]) /\ proposer'[r].to_propose[k] = tp[k + 1]
      BY <1>1, <1>4, <1>9, <3>1 DEF SlotsOK
    <3>3. PICK q \in Proposal : q = tp[k + 1] /\ Safe(q)
      BY <3>2
    <3>4. Safe(q)'
      BY <3>3, SafeLater
    <3> QED BY <3>2, <3>3, <3>4 DEF Safe, SafeFor
  <2> QED BY <2>3, <2>4 DEF SlotsOK
<1>10. SlotsSafe(r)'
  BY <1>1, <1>5, <1>9 DEF SlotsSafe, leader
<1> QED BY <1>2, <1>3, <1>8, <1>10 DEF CarryInv

-----------------------------------------------------------------------------
(* The invariant *)

LEMMA OthersChosen ==
    ASSUME TypeOK, TypeOK', Later, Grows, NEW q \in Replica,
           ReplayInvAt(q), LeaderInvAt(q), ChosenInvAt(q),
           Untouched(q), LeaderSame(q), err'[q] = err[q]
    PROVE  ChosenInvAt(q)'
<1>1. LaterAt(q)
  BY DEF Later
<1>2. /\ cb'[q] = cb[q] /\ states'[q] = states[q]
      /\ prepare_certifier'[q] = prepare_certifier[q]
      /\ instance_states'[q] = instance_states[q]
  BY DEF Untouched
<1>3. HeldProposed(q)'
  <2>1. /\ \A p \in prepare_certifier[q].tail : p \in Proposal /\ Proposed(p)
        /\ \A p \in instance_states[q] : p \in Proposal /\ Proposed(p)
    BY DEF ChosenInvAt, HeldProposed, TypeOK, PrepareCertifier
  <2> QED BY <1>2, <2>1, ProposedLater DEF HeldProposed
<1>4. CommitsProposed(q)' /\ CommitsInView(q)'
  <2>1. Commits(q)' = Commits(q) /\ Commits(q) \in SUBSET Proposal
    BY <1>2, CommitsType DEF Commits, Broadcast
  <2> QED BY <1>2, <2>1, ProposedLater DEF ChosenInvAt, CommitsProposed, CommitsInView
<1>5. ASSUME NEW s \in Replica \ {q} PROVE KeepsLast(q, s)'
  <2>1. Unseen(q, s) /\ Replayed(q, s) /\ KeepsLast(q, s)
    BY <1>2 DEF Unseen, Same, ReplayInvAt, ChosenInvAt
  <2> QED BY <1>1, <2>1, UnseenKeeps
<1>6. OwnKeepsLast(q)'
  BY <1>1, <1>2, SameOwnKeeps DEF Same, ChosenInvAt
<1>7. CarryInv(q)'
  BY SameCarries DEF ChosenInvAt
<1> QED BY <1>3, <1>4, <1>5, <1>6, <1>7 DEF ChosenInvAt

LEMMA StepCarries ==
    ASSUME TypeOK, TypeOK', SealInv, LeaderInv, ReplayInv, ChosenInv,
           NEW r \in Replica, Step(r)
    PROVE  CarryInv(r)'
<1>1. /\ Later /\ LeaderInvAt(r) /\ CarryInv(r) /\ WindowsCertified(r)
      /\ \A s \in Replica : CommitsInView(s)
      /\ \A s \in Replica \ {r} : KeepsLast(r, s)
      /\ OwnKeepsLast(r)
  BY StepLater DEF LeaderInv, ChosenInv, ChosenInvAt, SealInv, SealInvAt
<1>2. ASSUME NEW s \in Replica,
             \/ \E val \in Value : AcceptRequest(r, val)
             \/ CertifyPrepare(r) \/ PollPromise(r) \/ PollPrepareCertificate(r)
             \/ PollVerifiedCommit(r) \/ Decide(r) \/ PollCheckpointCertificate(r)
             \/ BroadcastCheckpoint(r) \/ PollPrepare(r, s) \/ PollCommit(r, s)
             \/ PollCheckpoint(r, s) \/ PollNewView(r, s) \/ PollFastCommit(r, s)
      PROVE  CarryInv(r)'
  BY <1>1, <1>2, OtherSteps, SameCarries
<1>3. ASSUME NEW val \in Value, GetSlot(r, val) PROVE CarryInv(r)'
  BY <1>1, <1>3, GetSlotSteps, SlotCarries
<1>4. CASE Propose(r)
  BY <1>1, <1>4, ProposeSteps, ProposeCarries
<1>5. CASE ChangeView(r)
  <2>1. PICK a : a = serializeState(r, r)
    OBVIOUS
  <2>2. SealStep(r, r, a)
    <3>1. handleSealView(r, r) /\ proposer' = proposer /\ broadcast(r, SealViewMessage)
      BY <1>5 DEF ChangeView
    <3>2. Prepares(r)' = Prepares(r)
      <4>1. SealViewMessage \in Message /\ SealViewMessage.kind # "Prepare"
        BY MessageTypes DEF SealViewMessage
      <4> QED BY <3>1, <4>1, PreparesAdd
    <3> QED BY <2>1, <3>1, <3>2, SealSteps
  <2>3. Certifies(r, r, a.view, a.commits)'
    BY <1>1, <1>5, <2>1, OwnSealCertifies
  <2>4. \A m \in vc[r].pending : At(r) < m.view
    BY <1>5 DEF ChangeView, Running
  <2> QED BY <1>1, <2>2, <2>3, <2>4, SealCarries
<1>6. ASSUME NEW s \in Replica, PollSealView(r, s) PROVE CarryInv(r)'
  <2>1. PICK a : a = serializeState(r, s)
    OBVIOUS
  <2>2. s # r /\ vc[r].pending = {}
    BY <1>6 DEF PollSealView, PollCb, Free
  <2>3. SealStep(r, s, a)
    <3>1. handleSealView(r, s) /\ proposer' = proposer /\ cb' = cb
      BY <1>6 DEF PollSealView, PollCb
    <3>2. Prepares(r)' = Prepares(r)
      BY <3>1 DEF Prepares, Broadcast
    <3> QED BY <2>1, <3>1, <3>2, SealSteps
  <2>4. Certifies(r, s, a.view, a.commits)'
    BY <1>1, <1>6, <2>1, <2>2, PolledSealCertifies
  <2> QED BY <1>1, <2>2, <2>3, <2>4, SealCarries
<1>7. ASSUME NEW s \in Replica, PollVcStateCertificate(r, s) PROVE CarryInv(r)'
  BY <1>1, <1>7, PollVcSteps, CollectCarries, AnnounceCarries
<1>8. CASE StartView(r)
  BY <1>1, <1>8, StartSteps, StartCarries
<1> QED BY <1>2, <1>3, <1>4, <1>5, <1>6, <1>7, <1>8 DEF Step

LEMMA NextChosen ==
    ASSUME TypeOK, TypeOK', SealInv, SealInv', LeaderInv, ReplayInv, ChosenInv, Next
    PROVE  ChosenInv'
<1>1. PICK r \in Replica : Step(r)
  BY DEF Next
<1>2. Later
  BY <1>1, StepLater
<1>3. Grows
  <2>1. cb' = cb \/ \E m \in Message : broadcast(r, m)
    BY <1>1, StepKinds DEF Idle, Receives, Sends
  <2> QED BY <2>1, BroadcastsGrow
<1>4. ASSUME NEW q \in Replica \ {r} PROVE ChosenInvAt(q)'
  <2>1. Untouched(q) /\ LeaderSame(q) /\ err'[q] = err[q]
    BY <1>1, StepLocal, OthersLead, OthersKept
  <2> QED BY <1>2, <1>3, <2>1, OthersChosen DEF ReplayInv, LeaderInv, ChosenInv
<1>5. ChosenInvAt(r)'
  <2>1. /\ ChosenInvAt(r) /\ ReplayInvAt(r) /\ LaterAt(r) /\ WindowsCertified(r)'
    BY <1>2 DEF ChosenInv, ReplayInv, Later, SealInv, SealInvAt
  <2>2. HeldProposed(r)' /\ CommitsProposed(r)'
    BY <1>1, <2>1, HeldStep, CommitsProposedStep DEF ChosenInvAt
  <2>3. CommitsInView(r)'
    <3>1. cb'[r] = cb[r] \/ \E m : Sends(r, m)
      BY <1>1, StepKinds DEF Idle, Receives
    <3> QED BY <2>1, <3>1, InViewStep DEF ChosenInvAt, ReplayInvAt
  <2>4. ASSUME NEW s \in Replica \ {r} PROVE KeepsLast(r, s)'
    <3>1. Replayed(r, s) /\ KeepsLast(r, s)
      BY <2>1 DEF ReplayInvAt, ChosenInvAt
    <3>2. CASE Unseen(r, s)
      BY <1>3, <2>1, <3>1, <3>2, UnseenKeeps
    <3>3. CASE Receives(r, s)
      BY <2>1, <3>1, <3>3, ReceiveKeeps
    <3>4. Unseen(r, s) \/ Receives(r, s)
      BY <1>1, StepKinds DEF Idle, Receives, Sends
    <3> QED BY <3>2, <3>3, <3>4
  <2>5. OwnKeepsLast(r)'
    <3>1. ASSUME NEW m, Sends(r, m) PROVE OwnKeepsLast(r)'
      BY <2>1, <3>1, SendKeeps DEF ChosenInvAt
    <3>2. CASE Idle(r) \/ \E s \in Replica : Receives(r, s)
      <4>1. /\ cb'[r] = cb[r] /\ Same(states'[r][r], states[r][r])
            /\ err'[r] = "ok" => err[r] = "ok"
        BY <3>2 DEF Idle, Receives, Unseen
      <4> QED BY <2>1, <4>1, SameOwnKeeps DEF ChosenInvAt
    <3> QED BY <1>1, <3>1, <3>2, StepKinds
  <2>6. CarryInv(r)'
    BY <1>1, StepCarries
  <2> QED BY <2>2, <2>3, <2>4, <2>5, <2>6 DEF ChosenInvAt
<1> QED BY <1>4, <1>5 DEF ChosenInv

LEMMA InitChosen == ASSUME Init PROVE ChosenInv
<1> SUFFICES ASSUME NEW r \in Replica PROVE ChosenInvAt(r)
  BY DEF ChosenInv
<1>1. /\ cb[r] = << >> /\ instance_states[r] = {} /\ prepare_certifier[r].tail = {}
      /\ vc[r].ongoing = {} /\ vc[r].pending = {} /\ vc[r].certs = {}
      /\ \A s \in Replica : vc[r].acked[s] = {} /\ states[r][s] = InitState
      /\ proposer[r].to_propose = << >>
  BY DEF Init
<1>2. /\ \A s \in Replica : states[r][s].commits = {} /\ states[r][s].next_cb = 0
      /\ At(r) = 0
  BY <1>1 DEF InitState, At
<1>3. Len(cb[r]) = 0 /\ Commits(r) = {} /\ Prepares(r) = {}
  BY <1>1 DEF Commits, Prepares, Broadcast
<1>4. HeldProposed(r) /\ CommitsProposed(r) /\ CommitsInView(r)
  BY <1>1, <1>3 DEF HeldProposed, CommitsProposed, CommitsInView
<1>5. OwnKeepsLast(r) /\ \A s \in Replica : KeepsLast(r, s)
  BY <1>2, <1>3 DEF OwnKeepsLast, KeepsLast
<1>6. CarryInv(r)
  BY <1>1, <1>2, <1>3
     DEF CarryInv, AckedCertify, CertsCertify, PendingCertified, SlotsSafe, PreparesSafe
<1> QED BY <1>4, <1>5, <1>6 DEF ChosenInvAt

LEMMA AlwaysChosen == Spec => []ChosenInv
<1>1. Init => ChosenInv
  BY InitChosen
<1>2. /\ TypeOK /\ TypeOK' /\ SealInv /\ SealInv' /\ LeaderInv /\ ReplayInv
      /\ ChosenInv /\ [Next]_vars
      => ChosenInv'
  <2> SUFFICES ASSUME TypeOK, TypeOK', SealInv, SealInv', LeaderInv, ReplayInv,
                      ChosenInv, [Next]_vars
               PROVE  ChosenInv'
    OBVIOUS
  <2>1. CASE Next
    BY <2>1, NextChosen
  <2>2. CASE UNCHANGED vars
    <3>1. \A q \in Replica : LeaderSame(q) /\ Untouched(q) /\ err'[q] = err[q]
      BY <2>2 DEF vars, LeaderSame, Prepares, Broadcast, Views, Untouched
    <3>2. Grows
      BY <2>2, BroadcastsGrow DEF vars
    <3>3. ASSUME NEW t \in Replica PROVE LaterAt(t)
      <4>1. /\ At(t)' = At(t) /\ Commits(t)' = Commits(t) /\ Prepares(t)' = Prepares(t)
            /\ certifiedCheckpoint(t)' = certifiedCheckpoint(t)
        BY <2>2 DEF vars, At, Commits, Prepares, Broadcast, certifiedCheckpoint
      <4>2. At(t) \in Nat /\ certifiedCheckpoint(t).low \in Nat
        BY CheckpointLowType
      <4> QED BY <4>1, <4>2 DEF LaterAt
    <3> QED BY <3>1, <3>2, <3>3, OthersChosen
            DEF ChosenInv, ReplayInv, LeaderInv, Later
  <2> QED BY <2>1, <2>2
<1> QED BY <1>1, <1>2, TypeCorrect, AlwaysSealed, AlwaysLeading, AlwaysReplayed, PTL DEF Spec

-----------------------------------------------------------------------------
(* The theorem *)

(* By the least view in which another batch is proposed. *)
LEMMA CommittedSurvives ==
    ASSUME TypeOK, LeaderInv, ChosenInv, NEW r \in Replica, NEW p \in Prepares(r),
           Cardinality({t \in Replica : p \in Commits(t)}) >= Quorum,
           NEW s \in Replica, NEW q \in Prepares(s), p.inst = q.inst, p.view < q.view
    PROVE  p.val = q.val
<1> DEFINE Bad(t, b) == p.inst = b.inst /\ p.view < b.view /\ p.val # b.val
           V == {v \in Nat : \E t \in Replica : \E b \in Prepares(t) :
                               Bad(t, b) /\ b.view = v}
<1>1. \A t \in Replica : Prepares(t) \in SUBSET Proposal
  BY PreparesType
<1>2. \A t \in Replica : \A b \in Prepares(t) : b.view \in Nat
  BY <1>1, ProposalTypes
<1> SUFFICES ASSUME p.val # q.val PROVE FALSE
  OBVIOUS
<1>3. q.view \in V
  BY <1>2
<1>4. PICK n \in V : \A v \in V : n <= v
  <2>1. V \in SUBSET Nat /\ V # {}
    BY <1>3
  <2> HIDE DEF V
  <2> QED BY <2>1, NatMin
<1>5. PICK t \in Replica : \E b \in Prepares(t) : Bad(t, b) /\ b.view = n
  BY <1>4
<1>6. PICK b \in Prepares(t) : Bad(t, b) /\ b.view = n
  BY <1>5
<1>7. p.view \in Nat /\ b.view \in Nat /\ b.view > 0
  BY <1>2, <1>6
<1>8. PICK Q \in SUBSET Replica : Cardinality(Q) >= Quorum /\ SafeFor(b, Q)
  BY <1>7 DEF ChosenInv, ChosenInvAt, CarryInv, PreparesSafe, Safe
<1>9. PICK u \in Q : p \in Commits(u)
  <2>1. {x \in Replica : p \in Commits(x)} \in SUBSET Replica
    OBVIOUS
  <2>2. {x \in Replica : p \in Commits(x)} \cap Q # {}
    BY <1>8, <2>1, QuorumsMeet
  <2> QED BY <2>2
<1>10. PICK w \in Q : \E d \in Commits(w) :
          /\ d.inst = b.inst /\ d.view >= p.view /\ d.view < b.view /\ d.val = b.val
  BY <1>6, <1>8, <1>9 DEF SafeFor
<1>11. PICK d \in Commits(w) :
          /\ d.inst = b.inst /\ d.view >= p.view /\ d.view < b.view /\ d.val = b.val
  BY <1>10
<1>12. /\ d.view \in Nat /\ leader(d.view) \in Replica /\ d \in Prepares(leader(d.view))
  <2>1. d \in Proposal
    BY CommitsType
  <2> QED BY <2>1, ProposalTypes, LeaderIsReplica
          DEF ChosenInv, ChosenInvAt, CommitsProposed, Proposed
<1>13. CASE d.view = p.view
  <2>1. d = p
    BY <1>6, <1>11, <1>12, <1>13, LeadersAgree DEF OneProposal
  <2> QED BY <1>6, <1>11, <2>1
<1>14. CASE d.view # p.view
  <2>1. p.view < d.view
    BY <1>7, <1>11, <1>12, <1>14
  <2>2. d.view \in V
    BY <1>6, <1>11, <1>12, <2>1
  <2>3. n <= d.view
    BY <1>4, <2>2
  <2> QED BY <1>6, <1>7, <1>11, <1>12, <2>3
<1> QED BY <1>13, <1>14

(* Who left the view of a fast commit committed it, so a quorum did once a  *)
(* later leader is safe.                                                    *)
LEMMA FastCommittedByQuorum ==
    ASSUME TypeOK, SealInv, LeaderInv, ChosenInv, NEW r \in Replica, NEW p \in Prepares(r),
           \A t \in Replica : /\ [view |-> p.view, inst |-> p.inst] \in FastCommits(t)
                              /\ ~(p.inst < certifiedCheckpoint(t).low),
           NEW s \in Replica, NEW q \in Prepares(s), p.view < q.view
    PROVE  Cardinality({t \in Replica : p \in Commits(t)}) >= Quorum
<1> DEFINE K == {t \in Replica : p \in Commits(t)}
<1>1. p.view \in Nat /\ q.view \in Nat /\ q.view > 0
  <2>1. p \in Proposal /\ q \in Proposal
    BY PreparesType
  <2> QED BY <2>1, ProposalTypes
<1>2. PICK Q \in SUBSET Replica : Cardinality(Q) >= Quorum /\ SafeFor(q, Q)
  BY <1>1 DEF ChosenInv, ChosenInvAt, CarryInv, PreparesSafe, Safe
<1>3. ASSUME NEW t \in Q PROVE p \in Commits(t)
  <2>1. At(t) \in Nat /\ At(t) >= q.view
    BY <1>2, CheckpointLowType DEF SafeFor
  <2>2. PICK f \in FastCommits(t) : f.view = p.view /\ f.inst = p.inst
    BY DEF FastCommits
  <2>3. f.view < At(t) /\ ~(f.inst < certifiedCheckpoint(t).low)
    BY <1>1, <2>1, <2>2
  <2>4. PICK c \in Commits(t) : c.view = p.view /\ c.inst = p.inst
    BY <2>2, <2>3 DEF SealInv, SealInvAt, EarlierSealed
  <2>5. leader(c.view) \in Replica /\ c \in Prepares(leader(c.view))
    BY <1>1, <2>4, LeaderIsReplica DEF ChosenInv, ChosenInvAt, CommitsProposed, Proposed
  <2>6. c = p
    BY <2>4, <2>5, LeadersAgree DEF OneProposal
  <2> QED BY <2>4, <2>6
<1>4. Q \subseteq K /\ K \in SUBSET Replica
  BY <1>3
<1>5. IsFiniteSet(K)
  BY <1>4, ReplicasFinite, FS_Subset
<1> HIDE DEF K
<1>6. /\ Cardinality(Q) <= Cardinality(K)
      /\ Cardinality(K) \in Nat /\ Cardinality(Q) \in Nat
  <2>1. IsFiniteSet(Q)
    BY <1>4, <1>5, FS_Subset
  <2> QED BY <1>4, <1>5, <2>1, FS_Subset, FS_CardinalityType
<1>7. Cardinality(K) >= Quorum
  BY <1>2, <1>6, ReplicasFinite
<1> QED BY <1>7 DEF K

LEMMA ChosenInvSuffices == TypeOK /\ SealInv /\ LeaderInv /\ ChosenInv => ChosenValueSurvives
<1> SUFFICES ASSUME TypeOK, SealInv, LeaderInv, ChosenInv,
                    NEW r \in Replica, NEW s \in Replica,
                    NEW p \in Prepares(r), NEW q \in Prepares(s),
                    p.inst = q.inst, p.view < q.view,
                    \/ Cardinality({t \in Replica : p \in Commits(t)}) >= Quorum
                    \/ \A t \in Replica :
                          /\ [view |-> p.view, inst |-> p.inst] \in FastCommits(t)
                          /\ ~(p.inst < certifiedCheckpoint(t).low)
             PROVE  p.val = q.val
  BY DEF ChosenValueSurvives
<1>1. Cardinality({t \in Replica : p \in Commits(t)}) >= Quorum
  BY FastCommittedByQuorum
<1> QED BY <1>1, CommittedSurvives

(* In every view, with any number of replicas and any window: the batch     *)
(* that a quorum committed in a view, or that everyone fast committed and   *)
(* no checkpoint covers, is what every later leader prepares for the        *)
(* instance.  So no view change (changeView, handleSealView,                *)
(* pollVcStateCertificates, validValues) loses a decision.                  *)
THEOREM ChosenValuesSurvive == Spec => []ChosenValueSurvives
BY AlwaysChosen, AlwaysSealed, AlwaysLeading, TypeCorrect, ChosenInvSuffices, PTL

-----------------------------------------------------------------------------
(***************************************************************************)
(* What the replicas decide, for every value of Consensus's constants.     *)
(*                                                                         *)
(* handleVerifiedCommit and pollFastCommits count a vote for the prepare   *)
(* that is held for its instance, whatever the view of the vote, so        *)
(* replicas may disagree once one of them has left the first view.  Until  *)
(* then every vote is of that view (VotesOfView), and the consensus        *)
(* implements the replicated log over any number of windows and            *)
(* checkpoints.                                                            *)
(***************************************************************************)


(* What r counts as s's vote for an instance is a vote of r's view. *)
VotesOfViewAt(r) ==
    \A s \in Replica, i \in Nat :
        /\ <<s, i>> \in committed[r] => \E c \in Commits(s) : c.inst = i /\ c.view = At(r)
        /\ <<s, i>> \in fast_committed[r] =>
              [view |-> At(r), inst |-> i] \in FastCommits(s)
VotesOfView == \A r \in Replica : VotesOfViewAt(r)

(* What r counts, buffers or verifies was sent, in some view. *)
BufferedSent(r) ==
    \A s \in Replica : \A k \in 1 .. Len(buffered_commits[r][s]) :
        buffered_commits[r][s][k] \in Commits(s)
VerifyingSent(r) == \A w \in verifying[r] : w[2] \in Commits(w[1])
CountedSent(r) == \A b \in committed[r] : \E c \in Commits(b[1]) : c.inst = b[2]
FastCountedSent(r) ==
    \A b \in fast_committed[r] : \E f \in FastCommits(b[1]) : f.inst = b[2]
VotesSentAt(r) ==
    BufferedSent(r) /\ VerifyingSent(r) /\ CountedSent(r) /\ FastCountedSent(r)
VotesSent == \A r \in Replica : VotesSentAt(r)

(* r holds the prepare of instance i of view v, unless it sealed v or has a  *)
(* checkpoint above i.                                                       *)
Usable(r, v, i) ==
    \/ v = At(r) /\ i \in Instances(r)
    \/ v < At(r)
    \/ i < certifiedCheckpoint(r).low

(* So it is for what r proposed, what it promised to certify and what the    *)
(* others fast commit.                                                       *)
ProposedUsable(r) == \A p \in Prepares(r) : Usable(r, p.view, p.inst)
PromisedUsable(r) ==
    \A n \in sent[r].promises :
        \E p \in Proposal : Index(p) = n /\ Usable(r, p.view, p.inst)
OthersUsable(r) ==
    \A s \in Replica \ {r} : \A f \in FastCommits(s) : Usable(r, f.view, f.inst)
UsableAt(r) ==
    err[r] = "ok" => ProposedUsable(r) /\ PromisedUsable(r) /\ OthersUsable(r)
UsableInv == \A r \in Replica : UsableAt(r)

(* p was chosen in its view. *)
Decided(p) ==
    \/ Cardinality({t \in Replica : p \in Commits(t)}) >= Quorum
    \/ \A t \in Replica : [view |-> p.view, inst |-> p.inst] \in FastCommits(t)

(* Batch number k of a log or of a checkpoint was chosen. *)
Justified(k, b) ==
    \E p \in Proposal : p.inst = k - 1 /\ p.val = b /\ Proposed(p) /\ Decided(p)
LogJustified(r) == \A k \in 1 .. Len(log[r]) : Justified(k, log[r][k])

(* A checkpoint, held or broadcast, is of batches that were chosen. *)
CheckpointJustified(c) ==
    Len(c.digest) = c.low /\ \A k \in 1 .. c.low : Justified(k, c.digest[k])
CheckpointsJustified(r) ==
    /\ CheckpointJustified(certifiedCheckpoint(r))
    /\ \A c \in checkpoints[r].local : CheckpointJustified(c)
    /\ \A m \in Broadcast(r, "Checkpoint") : CheckpointJustified(m.c)
DecisionInv == \A r \in Replica : LogJustified(r) /\ CheckpointsJustified(r)

(* What t fast committed it has committed too, if it holds, committed or    *)
(* fast committed a prepare of a later view for the instance: it would have *)
(* ignored that prepare, had a checkpoint covered the fast commit.          *)
CommittedFast(t, f) == \E d \in Commits(t) : d.view = f.view /\ d.inst = f.inst
FastThenCommitted(t) ==
    \A f \in FastCommits(t) :
        /\ \A p \in prepare_certifier[t].tail \cup instance_states[t] \cup Commits(t) :
              p.inst = f.inst /\ f.view < p.view => CommittedFast(t, f)
        /\ \A g \in FastCommits(t) :
              g.inst = f.inst /\ f.view < g.view => CommittedFast(t, f)
FastInv == \A t \in Replica : FastThenCommitted(t)
-----------------------------------------------------------------------------
(* Fast commits *)

LEMMA FastCommitsStep ==
    ASSUME TypeOK, NEW r \in Replica, Step(r)
    PROVE  /\ \A t \in Replica : FastCommits(t) \subseteq FastCommits(t)'
           /\ \A t \in Replica \ {r} : FastCommits(t)' = FastCommits(t)
           /\ \A f \in FastCommits(r)' :
                 \/ f \in FastCommits(r)
                 \/ \E p \in prepare_certifier[r].tail :
                       f.view = p.view /\ f.inst = p.inst
           /\ (\E f \in FastCommits(r)' : f \notin FastCommits(r)) => PollPromise(r)
<1>1. CASE fast_commits' = fast_commits
  BY <1>1 DEF FastCommits
<1>2. CASE PollPromise(r) /\ fast_commits' # fast_commits
  <2> DEFINE q == fast_commits[r]
  <2>1. PICK p \in prepare_certifier[r].tail :
           fast_commits' = [fast_commits EXCEPT ![r] =
                              Append(@, [view |-> p.view, inst |-> p.inst])]
    BY <1>2 DEF PollPromise
  <2>2. p \in Proposal /\ [view |-> p.view, inst |-> p.inst] \in FastCommit
    <3>1. p \in Proposal
      BY DEF TypeOK, PrepareCertifier
    <3> QED BY <3>1, ProposalTypes DEF FastCommit
  <2>3. PICK f \in FastCommit : f = [view |-> p.view, inst |-> p.inst]
    BY <2>2
  <2>4. /\ fast_commits \in [Replica -> Seq(FastCommit)]
        /\ fast_commits' = [fast_commits EXCEPT ![r] = Append(@, f)]
    BY <2>1, <2>3 DEF TypeOK, FastCommit
  <2>5. /\ q \in Seq(FastCommit) /\ fast_commits'[r] = Append(q, f)
        /\ \A t \in Replica \ {r} : fast_commits'[t] = fast_commits[t]
    BY <2>4
  <2>6. /\ Len(Append(q, f)) = Len(q) + 1 /\ Len(q) \in Nat
        /\ \A k \in 1 .. Len(q) : Append(q, f)[k] = q[k]
        /\ Append(q, f)[Len(q) + 1] = f
    BY <2>5, AppendElements
  <2>7. \A t \in Replica \ {r} : FastCommits(t)' = FastCommits(t)
    BY <2>5 DEF FastCommits
  <2>8. FastCommits(r) \subseteq FastCommits(r)'
    <3>1. ASSUME NEW k \in 1 .. Len(q) PROVE q[k] \in FastCommits(r)'
      <4>1. k \in 1 .. Len(Append(q, f)) /\ Append(q, f)[k] = q[k]
        BY <2>6
      <4> QED BY <2>5, <4>1 DEF FastCommits
    <3> QED BY <3>1 DEF FastCommits
  <2>9. \A g \in FastCommits(r)' : g \in FastCommits(r) \/ g = f
    <3>1. ASSUME NEW k \in 1 .. Len(Append(q, f))
          PROVE  Append(q, f)[k] \in FastCommits(r) \/ Append(q, f)[k] = f
      <4>1. k \in 1 .. Len(q) \/ k = Len(q) + 1
        BY <2>6
      <4> QED BY <2>6, <4>1 DEF FastCommits
    <3> QED BY <2>5, <3>1 DEF FastCommits
  <2>10. f.view = p.view /\ f.inst = p.inst
    BY <2>3
  <2> QED BY <1>2, <2>7, <2>8, <2>9, <2>10
<1> QED BY <1>1, <1>2
        DEF Step, GetSlot, AcceptRequest, Propose, CertifyPrepare,
            PollPrepareCertificate, PollVerifiedCommit, Decide,
            PollCheckpointCertificate, BroadcastCheckpoint, ChangeView, StartView,
            PollPrepare, PollCommit, PollCheckpoint, PollSealView, PollNewView,
            PollFastCommit, PollVcStateCertificate, handlePrepare, handleCommit,
            fastVars
(* What a step of r adds to the prepares that r holds. *)
Held(r) == prepare_certifier[r].tail \cup instance_states[r]

LEMMA HeldGrows ==
    ASSUME TypeOK, NEW r \in Replica, Step(r)
    PROVE  \A q \in Held(r)' : \/ q \in Held(r)
                               \/ q.view = At(r) /\ ~(q.inst < certifiedCheckpoint(r).low)
<1> USE DEF Held
<1>1. CASE CertifyPrepare(r)
  <2>1. PICK p \in instance_states[r] : tryCertifyPrepare(r, p)
    BY <1>1 DEF CertifyPrepare
  <2>2. instance_states' = instance_states
    BY <1>1 DEF CertifyPrepare, instVars
  <2> QED BY <2>1, <2>2, CertifyHolds
<1>2. ASSUME NEW s \in Replica, NEW p, handlePrepare(r, s, p)
      PROVE  \A q \in Held(r)' : \/ q \in Held(r)
                                 \/ q.view = At(r) /\ ~(q.inst < certifiedCheckpoint(r).low)
  BY <1>2, PrepareHolds DEF Accepts
<1>3. CASE Held(r)' \subseteq Held(r)
  BY <1>3
<1> QED BY <1>1, <1>2, <1>3, SameHolds DEF Step, Propose, PollPrepare

LEMMA CommitsPast ==
    ASSUME TypeOK, NEW r \in Replica, OwnReplayed(r), CommitsInView(r)
    PROVE  \A c \in Commits(r) : c.view <= At(r)
<1>1. Len(cb[r]) \in Nat /\ At(r) \in Nat
  BY ReplayTypes, CheckpointLowType
<1>2. ASSUME NEW j \in 1 .. Len(cb[r]) PROVE Seals(cb[r], j) <= Seals(cb[r], Len(cb[r]))
  BY <1>1, SealsGrow
<1>3. ASSUME NEW c \in Commits(r) PROVE c.view <= At(r)
  <2>1. PICK j \in 1 .. Len(cb[r]) : cb[r][j].kind = "Commit" /\ c = cb[r][j].p
    BY CommitsAt
  <2> QED BY <1>2, <2>1 DEF OwnReplayed, CommitsInView
<1> QED BY <1>3

LEMMA CommitsFromTail ==
    ASSUME TypeOK, NEW r \in Replica, Step(r)
    PROVE  \A c \in Commits(r)' : c \in Commits(r) \/ c \in prepare_certifier[r].tail
<1>1. CASE cb' = cb
  BY <1>1 DEF Commits, Broadcast
<1>2. ASSUME NEW m, Sends(r, m)
      PROVE  \A c \in Commits(r)' : c \in Commits(r) \/ c \in prepare_certifier[r].tail
  <2>1. /\ m \in Message /\ broadcast(r, m)
        /\ m.kind = "Commit" => m.p \in prepare_certifier[r].tail
    BY <1>2 DEF Sends
  <2>2. Commits(r)' = IF m.kind = "Commit" THEN Commits(r) \cup {m.p} ELSE Commits(r)
    BY <2>1, CommitsAdd
  <2> QED BY <2>1, <2>2
<1> QED BY <1>1, <1>2, StepKinds DEF Idle, Receives

LEMMA FastStep ==
    ASSUME TypeOK, TypeOK', SealInv, SealInv', NEW r \in Replica, Step(r),
           ReplayInvAt(r)', ChosenInvAt(r)', FastThenCommitted(r)
    PROVE  FastThenCommitted(r)'
<1>1. /\ FastCommits(r) \subseteq FastCommits(r)'
      /\ \A f \in FastCommits(r)' :
            \/ f \in FastCommits(r)
            \/ \E p \in prepare_certifier[r].tail : f.view = p.view /\ f.inst = p.inst
      /\ (\E f \in FastCommits(r)' : f \notin FastCommits(r)) => PollPromise(r)
  BY FastCommitsStep
<1>2. /\ \A q \in Held(r)' : \/ q \in Held(r)
                             \/ q.view = At(r) /\ ~(q.inst < certifiedCheckpoint(r).low)
      /\ \A c \in Commits(r)' : c \in Commits(r) \/ c \in prepare_certifier[r].tail
      /\ Commits(r) \subseteq Commits(r)'
  BY HeldGrows, CommitsFromTail, StepLater DEF Later, LaterAt
<1>3. /\ SealInvAt(r) /\ SealInvAt(r)' /\ At(r) \in Nat /\ At(r)' \in Nat
      /\ \A c \in Commits(r)' : c \in Proposal /\ c.view \in Nat
      /\ \A f \in FastCommits(r)' : f.view \in Nat
  <2>1. SealInvAt(r) /\ SealInvAt(r)' /\ At(r) \in Nat /\ At(r)' \in Nat
    BY CheckpointLowType DEF SealInv
  <2>2. \A c \in Commits(r)' : c \in Proposal /\ c.view \in Nat
    BY CommitsType, ProposalTypes
  <2> QED BY <2>1, <2>2, FastCommitType
<1>4. \A q \in Held(r) : q.view = At(r)
  BY <1>3 DEF Held, SealInvAt, InCurrentView
(* An old fast commit. *)
<1>5. ASSUME NEW f \in FastCommits(r), NEW p \in Held(r)' \cup Commits(r)',
             p.inst = f.inst, f.view < p.view
      PROVE  CommittedFast(r, f)
  <2>1. CASE p \in Held(r) \cup Commits(r)
    BY <1>5, <2>1 DEF FastThenCommitted, Held
  <2>2. CASE p.view = At(r) /\ ~(p.inst < certifiedCheckpoint(r).low)
    BY <1>3, <1>5, <2>2 DEF SealInvAt, EarlierSealed, CommittedFast
  <2> QED BY <1>2, <2>1, <2>2 DEF Held
<1>6. ASSUME NEW f \in FastCommits(r), NEW g \in FastCommits(r)',
             g.inst = f.inst, f.view < g.view
      PROVE  CommittedFast(r, f)
  BY <1>1, <1>6 DEF FastThenCommitted
<1>7. ASSUME NEW f, CommittedFast(r, f) PROVE CommittedFast(r, f)'
  BY <1>2, <1>7 DEF CommittedFast
(* A new one is of the current view. *)
<1>8. ASSUME NEW f \in FastCommits(r)', f \notin FastCommits(r)
      PROVE  /\ \A p \in Held(r)' \cup Commits(r)' : ~(f.view < p.view)
             /\ \A g \in FastCommits(r)' : ~(f.view < g.view)
  <2>1. f.view = At(r) /\ At(r)' = At(r)
    <3>1. f.view = At(r)
      BY <1>1, <1>4, <1>8 DEF Held
    <3>2. PollPromise(r)
      BY <1>1, <1>8
    <3> QED BY <3>1, <3>2 DEF PollPromise, At
  <2>2. \A p \in Held(r)' : p.view = At(r)'
    BY <1>3 DEF Held, SealInvAt, InCurrentView
  <2>3. \A p \in Commits(r)' : p.view <= At(r)'
    <3>1. OwnReplayed(r)' /\ CommitsInView(r)'
      BY DEF ReplayInvAt, ChosenInvAt
    <3>2. Len(cb'[r]) \in Nat
      BY DEF TypeOK
    <3>3. ASSUME NEW j \in 1 .. Len(cb'[r])
          PROVE  Seals(cb'[r], j) <= Seals(cb'[r], Len(cb'[r]))
      BY <3>2, SealsGrow
    <3>4. ASSUME NEW c \in Commits(r)' PROVE c.view <= At(r)'
      <4>1. PICK j \in 1 .. Len(cb'[r]) : cb'[r][j].kind = "Commit" /\ c = cb'[r][j].p
        BY DEF Commits, Broadcast
      <4> QED BY <3>1, <3>3, <4>1 DEF OwnReplayed, CommitsInView
    <3> QED BY <3>4
  <2>4. \A g \in FastCommits(r)' : g.view <= At(r)'
    BY <1>3 DEF SealInvAt, FastCommitsMarked
  <2> QED BY <1>3, <2>1, <2>2, <2>3, <2>4
<1>9. ASSUME NEW f \in FastCommits(r)'
      PROVE  /\ \A p \in Held(r)' \cup Commits(r)' :
                   p.inst = f.inst /\ f.view < p.view => CommittedFast(r, f)'
             /\ \A g \in FastCommits(r)' :
                   g.inst = f.inst /\ f.view < g.view => CommittedFast(r, f)'
  BY <1>5, <1>6, <1>7, <1>8
<1> QED BY <1>9 DEF FastThenCommitted, Held

LEMMA AlwaysFast == Spec => []FastInv
<1>1. Init => FastInv
  BY DEF Init, FastInv, FastThenCommitted, FastCommits
<1>2. /\ TypeOK /\ TypeOK' /\ SealInv /\ SealInv' /\ ReplayInv' /\ ChosenInv'
      /\ FastInv /\ [Next]_vars
      => FastInv'
  <2> SUFFICES ASSUME TypeOK, TypeOK', SealInv, SealInv', ReplayInv', ChosenInv',
                      FastInv, [Next]_vars
               PROVE  FastInv'
    OBVIOUS
  <2>1. ASSUME NEW q \in Replica, Untouched(q) PROVE FastThenCommitted(q)'
    <3>1. /\ Commits(q)' = Commits(q) /\ FastCommits(q)' = FastCommits(q)
          /\ prepare_certifier'[q] = prepare_certifier[q]
          /\ instance_states'[q] = instance_states[q]
      BY <2>1 DEF Untouched, Commits, FastCommits, Broadcast
    <3> QED BY <3>1 DEF FastInv, FastThenCommitted, CommittedFast
  <2>2. ASSUME NEW r \in Replica, Step(r) PROVE FastInv'
    <3>1. \A q \in Replica \ {r} : FastThenCommitted(q)'
      BY <2>1, <2>2, StepLocal
    <3>2. FastThenCommitted(r)'
      BY <2>2, FastStep DEF FastInv, ReplayInv, ChosenInv
    <3> QED BY <3>1, <3>2 DEF FastInv
  <2>3. CASE UNCHANGED vars
    BY <2>1, <2>3 DEF vars, Untouched, FastInv
  <2> QED BY <2>2, <2>3 DEF Next
<1> QED BY <1>1, <1>2, TypeCorrect, AlwaysSealed, AlwaysReplayed, AlwaysChosen, PTL DEF Spec
-----------------------------------------------------------------------------
(* One batch is chosen for an instance *)

LEMMA MoreReplicas ==
    ASSUME NEW A \in SUBSET Replica, NEW B \in SUBSET Replica, A \subseteq B,
           Cardinality(A) >= Quorum
    PROVE  Cardinality(B) >= Quorum
<1>1. IsFiniteSet(A) /\ IsFiniteSet(B) /\ Quorum \in Nat
  BY ReplicasFinite, FS_Subset
<1>2. /\ Cardinality(A) <= Cardinality(B)
      /\ Cardinality(A) \in Nat /\ Cardinality(B) \in Nat
  BY <1>1, FS_Subset, FS_CardinalityType
<1> QED BY <1>1, <1>2

LEMMA EveryoneIsQuorum == Cardinality(Replica) >= Quorum
BY ReplicasFinite, ConstantsAssumption DEF Quorum

LEMMA SameViewSame ==
    ASSUME TypeOK, LeaderInv, NEW p \in Proposal, Proposed(p),
           NEW q \in Proposal, Proposed(q), p.inst = q.inst, p.view = q.view
    PROVE  p = q
<1>1. leader(p.view) \in Replica /\ leader(q.view) \in Replica
  BY LeaderIsReplica, ProposalTypes
<1> QED BY <1>1, LeadersAgree DEF Proposed, OneProposal

LEMMA DecidedEarlier ==
    ASSUME TypeOK, LeaderInv, ChosenInv, FastInv,
           NEW p \in Proposal, Proposed(p), Decided(p),
           NEW q \in Proposal, Proposed(q), Decided(q), p.inst = q.inst, p.view < q.view
    PROVE  p.val = q.val
<1> DEFINE K == {t \in Replica : p \in Commits(t)}
           f == [view |-> p.view, inst |-> p.inst]
<1>1. leader(p.view) \in Replica /\ leader(q.view) \in Replica
  BY LeaderIsReplica, ProposalTypes
<1>2. ASSUME NEW t \in Replica, CommittedFast(t, f) PROVE t \in K
  <2>1. PICK d \in Commits(t) : d.view = p.view /\ d.inst = p.inst
    BY <1>2 DEF CommittedFast
  <2>2. d \in Proposal /\ Proposed(d)
    BY CommitsType DEF ChosenInv, ChosenInvAt, CommitsProposed
  <2>3. d = p
    BY <2>1, <2>2, SameViewSame
  <2> QED BY <2>1, <2>3
<1>3. Cardinality(K) >= Quorum
  <2>1. CASE Cardinality(K) >= Quorum
    BY <2>1
  <2>2. CASE \A t \in Replica : f \in FastCommits(t)
    <3>1. f.view = p.view /\ f.inst = p.inst
      OBVIOUS
    <3> HIDE DEF f
    <3>2. CASE Cardinality({t \in Replica : q \in Commits(t)}) >= Quorum
      <4> DEFINE M == {t \in Replica : q \in Commits(t)}
      <4>1. ASSUME NEW t \in M PROVE t \in K
        <5>1. CommittedFast(t, f)
          BY <2>2, <3>1 DEF FastInv, FastThenCommitted
        <5> QED BY <1>2, <5>1
      <4>2. M \in SUBSET Replica /\ K \in SUBSET Replica /\ M \subseteq K
        BY <4>1
      <4>3. Cardinality(M) >= Quorum
        BY <3>2
      <4> HIDE DEF M, K
      <4> QED BY <4>2, <4>3, MoreReplicas
    <3>3. CASE \A t \in Replica : [view |-> q.view, inst |-> q.inst] \in FastCommits(t)
      <4> DEFINE g == [view |-> q.view, inst |-> q.inst]
      <4>1. g.view = q.view /\ g.inst = q.inst /\ \A t \in Replica : g \in FastCommits(t)
        BY <3>3
      <4> HIDE DEF g
      <4>2. \A t \in Replica : CommittedFast(t, f)
        BY <2>2, <3>1, <4>1 DEF FastInv, FastThenCommitted
      <4>3. K = Replica
        BY <1>2, <4>2
      <4> QED BY <4>3, EveryoneIsQuorum
    <3> QED BY <3>2, <3>3 DEF Decided
  <2> QED BY <2>1, <2>2 DEF Decided
<1> QED BY <1>1, <1>3, CommittedSurvives DEF Proposed

LEMMA OneChosen ==
    ASSUME TypeOK, LeaderInv, ChosenInv, FastInv, NEW k \in Nat,
           NEW a, Justified(k, a), NEW b, Justified(k, b)
    PROVE  a = b
<1>1. PICK p \in Proposal : p.inst = k - 1 /\ p.val = a /\ Proposed(p) /\ Decided(p)
  BY DEF Justified
<1>2. PICK q \in Proposal : q.inst = k - 1 /\ q.val = b /\ Proposed(q) /\ Decided(q)
  BY DEF Justified
<1>3. p.view < q.view \/ q.view < p.view \/ p.view = q.view
  BY ProposalTypes
<1>4. CASE p.view = q.view
  BY <1>1, <1>2, <1>4, SameViewSame
<1>5. CASE p.view < q.view
  BY <1>1, <1>2, <1>5, DecidedEarlier
<1>6. CASE q.view < p.view
  <2>1. q.val = p.val
    BY <1>1, <1>2, <1>6, DecidedEarlier
  <2> QED BY <1>1, <1>2, <2>1
<1> QED BY <1>3, <1>4, <1>5, <1>6

(* A choice stays. *)
LEMMA JustifiedLater ==
    ASSUME TypeOK, TypeOK', NEW r \in Replica, Step(r), NEW k, NEW b, Justified(k, b)
    PROVE  Justified(k, b)'
<1>1. PICK p \in Proposal : p.inst = k - 1 /\ p.val = b /\ Proposed(p) /\ Decided(p)
  BY DEF Justified
<1>2. Later
  BY StepLater
<1>3. Proposed(p)'
  BY <1>1, <1>2, ProposedLater
<1>4. CASE Cardinality({t \in Replica : p \in Commits(t)}) >= Quorum
  <2> DEFINE A == {t \in Replica : p \in Commits(t)}
             B == {t \in Replica : p \in Commits(t)'}
  <2>1. A \in SUBSET Replica /\ B \in SUBSET Replica /\ A \subseteq B
    BY <1>2 DEF Later, LaterAt
  <2>2. Cardinality(A) >= Quorum
    BY <1>4
  <2> HIDE DEF A, B
  <2>3. Cardinality(B) >= Quorum
    BY <2>1, <2>2, MoreReplicas
  <2>4. Decided(p)'
    BY <2>3 DEF Decided, B
  <2> QED BY <1>1, <1>3, <2>4 DEF Justified
<1>5. CASE \A t \in Replica : [view |-> p.view, inst |-> p.inst] \in FastCommits(t)
  <2>1. Decided(p)'
    BY <1>5, FastCommitsStep DEF Decided
  <2> QED BY <1>1, <1>3, <2>1 DEF Justified
<1> QED BY <1>1, <1>4, <1>5 DEF Decided
-----------------------------------------------------------------------------
(* Logs and checkpoints hold what was chosen *)

LEMMA LogTypes ==
    ASSUME NEW r \in Replica
    PROVE  /\ TypeOK => log[r] \in Seq(Batch) /\ Len(log[r]) \in Nat
           /\ TypeOK' => log'[r] \in Seq(Batch) /\ Len(log'[r]) \in Nat
<1>1. TypeOK => log[r] \in Seq(Batch)
  BY DEF TypeOK
<1>2. TypeOK' => log'[r] \in Seq(Batch)
  BY DEF TypeOK
<1>3. ASSUME NEW q \in Seq(Batch) PROVE Len(q) \in Nat
  OBVIOUS
<1> QED BY <1>1, <1>2, <1>3

(* pollDecision hands out a batch that was chosen. *)
LEMMA DecideChosen ==
    ASSUME TypeOK, SealInv, LeaderInv, ChosenInv, NEW r \in Replica, VotesOfViewAt(r),
           NEW p \in instance_states[r], Decidable(r, p)
    PROVE  p \in Proposal /\ Justified(Len(log[r]) + 1, p.val)
<1>1. p \in Proposal /\ p.inst = Len(log[r]) /\ Len(log[r]) \in Nat
  BY LogTypes DEF TypeOK, Decidable
<1>2. p.view = At(r) /\ Proposed(p)
  BY DEF SealInv, SealInvAt, InCurrentView, ChosenInv, ChosenInvAt, HeldProposed
<1>3. Decided(p)
  <2>1. CASE \A s \in Replica : <<s, p.inst>> \in fast_committed[r]
    BY <1>1, <1>2, <2>1 DEF VotesOfViewAt, Decided
  <2>2. CASE Cardinality({s \in Replica : <<s, p.inst>> \in committed[r]}) >= Quorum
    <3> DEFINE A == {s \in Replica : <<s, p.inst>> \in committed[r]}
               B == {s \in Replica : p \in Commits(s)}
    <3>1. ASSUME NEW s \in A PROVE s \in B
      <4>1. PICK c \in Commits(s) : c.inst = p.inst /\ c.view = At(r)
        BY <1>1 DEF VotesOfViewAt
      <4>2. c \in Proposal /\ Proposed(c)
        BY CommitsType DEF ChosenInv, ChosenInvAt, CommitsProposed
      <4>3. c = p
        BY <1>1, <1>2, <4>1, <4>2, SameViewSame
      <4> QED BY <4>1, <4>3
    <3>2. A \in SUBSET Replica /\ B \in SUBSET Replica /\ A \subseteq B
      BY <3>1
    <3>3. Cardinality(A) >= Quorum
      BY <2>2
    <3> HIDE DEF A, B
    <3>4. Cardinality(B) >= Quorum
      BY <3>2, <3>3, MoreReplicas
    <3> QED BY <3>4 DEF Decided, B
  <2> QED BY <2>1, <2>2 DEF Decidable, decidable
<1>4. p.inst = (Len(log[r]) + 1) - 1
  BY <1>1
<1> QED BY <1>1, <1>2, <1>3, <1>4 DEF Justified

(* What a decision of r appends. *)
LEMMA DecideAppends ==
    ASSUME TypeOK, SealInv, LeaderInv, ChosenInv, NEW r \in Replica, VotesOfViewAt(r),
           Decide(r)
    PROVE  \E b \in Batch :
              /\ log' = [log EXCEPT ![r] = Append(@, b)]
              /\ log'[r] = Append(log[r], b)
              /\ Len(log'[r]) = Len(log[r]) + 1
              /\ \A k \in 1 .. Len(log[r]) : log'[r][k] = log[r][k]
              /\ log'[r][Len(log[r]) + 1] = b
              /\ \A s \in Replica \ {r} : log'[s] = log[s]
              /\ Justified(Len(log[r]) + 1, b)
<1>1. PICK p \in instance_states[r] :
         Decidable(r, p) /\ log' = [log EXCEPT ![r] = Append(@, p.val)]
  BY DEF Decide
<1>2. p \in Proposal /\ Justified(Len(log[r]) + 1, p.val)
  BY <1>1, DecideChosen
<1>3. PICK b \in Batch : b = p.val
  BY <1>2 DEF Proposal
<1>4. log \in [Replica -> Seq(Batch)] /\ log[r] \in Seq(Batch)
  BY DEF TypeOK
<1>5. log'[r] = Append(log[r], b) /\ \A s \in Replica \ {r} : log'[s] = log[s]
  BY <1>1, <1>3, <1>4
<1>6. /\ Len(Append(log[r], b)) = Len(log[r]) + 1
      /\ \A k \in 1 .. Len(log[r]) : Append(log[r], b)[k] = log[r][k]
      /\ Append(log[r], b)[Len(log[r]) + 1] = b
  BY <1>4, AppendElements
<1> QED BY <1>1, <1>2, <1>3, <1>5, <1>6

LEMMA OnlyDecideLogs ==
    ASSUME NEW r \in Replica, Step(r), log' # log
    PROVE  Decide(r)
BY DEF Step, GetSlot, AcceptRequest, Propose, CertifyPrepare, PollPromise,
       PollPrepareCertificate, PollVerifiedCommit, PollCheckpointCertificate,
       BroadcastCheckpoint, ChangeView, StartView, PollPrepare, PollCommit,
       PollCheckpoint, PollSealView, PollNewView, PollFastCommit,
       PollVcStateCertificate, handlePrepare, handleCommit

LEMMA LogsStep ==
    ASSUME TypeOK, TypeOK', SealInv, LeaderInv, ChosenInv, VotesOfView,
           NEW r \in Replica, Step(r), \A s \in Replica : LogJustified(s)
    PROVE  \A s \in Replica : LogJustified(s)'
<1>1. \A k, b : Justified(k, b) => Justified(k, b)'
  BY JustifiedLater
<1>2. ASSUME NEW s \in Replica, log'[s] = log[s] PROVE LogJustified(s)'
  BY <1>1, <1>2 DEF LogJustified
<1>3. CASE Decide(r)
  <2>1. PICK b \in Batch :
           /\ Len(log'[r]) = Len(log[r]) + 1
           /\ \A k \in 1 .. Len(log[r]) : log'[r][k] = log[r][k]
           /\ log'[r][Len(log[r]) + 1] = b
           /\ \A s \in Replica \ {r} : log'[s] = log[s]
           /\ Justified(Len(log[r]) + 1, b)
    BY <1>3, DecideAppends DEF VotesOfView
  <2>2. ASSUME NEW k \in 1 .. Len(log'[r]), NEW x, x = log'[r][k] PROVE Justified(k, x)'
    <3>1. Len(log[r]) \in Nat
      BY LogTypes
    <3>2. k \in 1 .. Len(log[r]) \/ k = Len(log[r]) + 1
      BY <2>1, <3>1
    <3>3. Justified(k, x)
      BY <2>1, <2>2, <3>2 DEF LogJustified
    <3> QED BY <1>1, <3>3
  <2>3. LogJustified(r)'
    BY <2>2 DEF LogJustified
  <2> QED BY <1>2, <2>1, <2>3
<1>4. CASE log' = log
  BY <1>2, <1>4
<1> QED BY <1>3, <1>4, OnlyDecideLogs
LEMMA CheckpointLater ==
    ASSUME TypeOK, TypeOK', NEW r \in Replica, Step(r), NEW c, CheckpointJustified(c)
    PROVE  CheckpointJustified(c)'
<1>1. \A k, b : Justified(k, b) => Justified(k, b)'
  BY JustifiedLater
<1> QED BY <1>1 DEF CheckpointJustified

(* The checkpoint certified last was r's own, or came with a broadcast. *)
LEMMA CertifiedFrom ==
    ASSUME TypeOK, NEW r \in Replica, Step(r)
    PROVE  \/ certifiedCheckpoint(r)' = certifiedCheckpoint(r)
           \/ certifiedCheckpoint(r)' \in checkpoints[r].local
           \/ \E s \in Replica : \E m \in Broadcast(s, "Checkpoint") :
                 certifiedCheckpoint(r)' = m.c
<1>1. checkpoints \in [Replica -> Checkpoints] /\ checkpoints[r] \in Checkpoints
  BY DEF TypeOK
<1>2. CASE checkpoints' = checkpoints
  BY <1>2 DEF certifiedCheckpoint
<1>3. ASSUME NEW c, Adopt(r, c)
      PROVE  certifiedCheckpoint(r)' = certifiedCheckpoint(r) \/ certifiedCheckpoint(r)' = c
  BY <1>1, <1>3 DEF Adopt, Checkpoints, certifiedCheckpoint
<1>4. CASE Decide(r)
  BY <1>1, <1>4 DEF Decide, Checkpoints, certifiedCheckpoint
<1>5. CASE PollCheckpointCertificate(r)
  BY <1>3, <1>5 DEF PollCheckpointCertificate
<1>6. CASE BroadcastCheckpoint(r)
  BY <1>2, <1>3, <1>6 DEF BroadcastCheckpoint, handleCheckpoint
<1>7. ASSUME NEW s \in Replica, PollCheckpoint(r, s)
      PROVE  \/ certifiedCheckpoint(r)' = certifiedCheckpoint(r)
             \/ \E m \in Broadcast(s, "Checkpoint") : certifiedCheckpoint(r)' = m.c
  <2> DEFINE m == NextCb(r, s)
  <2>1. /\ m.kind = "Checkpoint" /\ handleCheckpoint(r, s, m.c)
        /\ states[r][s].next_cb < Len(cb[s])
    BY <1>7 DEF PollCheckpoint, PollCb
  <2>2. states[r][s].next_cb + 1 \in 1 .. Len(cb[s])
    BY <2>1, ReplayTypes
  <2>3. m \in Broadcast(s, "Checkpoint")
    BY <2>1, <2>2 DEF Broadcast, NextCb
  <2> HIDE DEF m
  <2> QED BY <1>2, <1>3, <2>1, <2>3 DEF handleCheckpoint, certifiedCheckpoint
<1> QED BY <1>2, <1>4, <1>5, <1>6, <1>7
        DEF Step, GetSlot, AcceptRequest, Propose, CertifyPrepare, PollPromise,
            PollPrepareCertificate, PollVerifiedCommit, ChangeView, StartView,
            PollPrepare, PollCommit, PollSealView, PollNewView, PollFastCommit,
            PollVcStateCertificate, handlePrepare, handleCommit

LEMMA LocalFrom ==
    ASSUME TypeOK, NEW r \in Replica, Step(r)
    PROVE  \A c \in checkpoints'[r].local :
              \/ c \in checkpoints[r].local
              \/ Decide(r) /\ c = AppCheckpoint(Len(log[r]), log'[r])
<1>1. checkpoints \in [Replica -> Checkpoints] /\ checkpoints[r] \in Checkpoints
  BY DEF TypeOK
<1>2. CASE checkpoints' = checkpoints
  BY <1>2
<1>3. ASSUME NEW c, Adopt(r, c) PROVE checkpoints'[r].local = checkpoints[r].local
  BY <1>1, <1>3 DEF Adopt, Checkpoints
<1>4. CASE Decide(r)
  <2>1. \/ checkpoints' = checkpoints
        \/ checkpoints' = [checkpoints EXCEPT
              ![r].local = {AppCheckpoint(Len(log[r]), log'[r])}]
    BY <1>4 DEF Decide
  <2>2. checkpoints'[r].local \subseteq
           checkpoints[r].local \cup {AppCheckpoint(Len(log[r]), log'[r])}
    BY <1>1, <2>1 DEF Checkpoints
  <2> QED BY <1>4, <2>2
<1> QED BY <1>2, <1>3, <1>4
        DEF Step, GetSlot, AcceptRequest, Propose, CertifyPrepare, PollPromise,
            PollPrepareCertificate, PollVerifiedCommit, ChangeView, StartView,
            PollPrepare, PollCommit, PollSealView, PollNewView, PollFastCommit,
            PollVcStateCertificate, handlePrepare, handleCommit,
            PollCheckpointCertificate, BroadcastCheckpoint, PollCheckpoint,
            handleCheckpoint

LEMMA CheckpointsStep ==
    ASSUME TypeOK, TypeOK', SealInv, LeaderInv, ChosenInv, VotesOfView, DecisionInv,
           NEW r \in Replica, Step(r)
    PROVE  \A s \in Replica : CheckpointsJustified(s)'
<1>1. \A c : CheckpointJustified(c) => CheckpointJustified(c)'
  BY CheckpointLater
<1>2. \A s \in Replica : CheckpointsJustified(s) /\ LogJustified(s)'
  BY LogsStep DEF DecisionInv
<1>3. ASSUME NEW s \in Replica \ {r} PROVE CheckpointsJustified(s)'
  <2>1. /\ checkpoints'[s] = checkpoints[s]
        /\ certifiedCheckpoint(s)' = certifiedCheckpoint(s)
        /\ Broadcast(s, "Checkpoint")' = Broadcast(s, "Checkpoint")
    BY StepLocal DEF Untouched, certifiedCheckpoint, Broadcast
  <2>2. CheckpointsJustified(s)
    BY <1>2
  <2>3. PICK c : c = certifiedCheckpoint(s)
    OBVIOUS
  <2>4. CheckpointJustified(certifiedCheckpoint(s))'
    BY <1>1, <2>1, <2>2, <2>3 DEF CheckpointsJustified
  <2> QED BY <1>1, <2>1, <2>2, <2>4 DEF CheckpointsJustified
<1>4. ASSUME NEW c, c = certifiedCheckpoint(r)' PROVE CheckpointJustified(c)'
  BY <1>1, <1>2, <1>4, CertifiedFrom DEF CheckpointsJustified
<1>5. ASSUME NEW c \in checkpoints'[r].local PROVE CheckpointJustified(c)'
  <2>1. CASE c \in checkpoints[r].local
    BY <1>1, <1>2, <2>1 DEF CheckpointsJustified
  <2>2. CASE Decide(r) /\ c = AppCheckpoint(Len(log[r]), log'[r])
    <3>1. Len(log'[r]) = Len(log[r]) + 1
      BY <2>2, DecideAppends DEF VotesOfView
    <3>2. c.low = Len(log'[r]) /\ c.digest = log'[r]
      BY <2>2, <3>1 DEF AppCheckpoint
    <3> QED BY <1>2, <3>2 DEF CheckpointJustified, LogJustified
  <2> QED BY <2>1, <2>2, LocalFrom
<1>6. ASSUME NEW m \in Broadcast(r, "Checkpoint")' PROVE CheckpointJustified(m.c)'
  <2>1. m \in Broadcast(r, "Checkpoint") \/ m.c = certifiedCheckpoint(r)
    <3>1. CASE cb' = cb
      BY <3>1 DEF Broadcast
    <3>2. ASSUME NEW m2, Sends(r, m2)
          PROVE  m \in Broadcast(r, "Checkpoint") \/ m.c = certifiedCheckpoint(r)
      <4>1. /\ m2 \in Message /\ broadcast(r, m2)
            /\ m2.kind = "Checkpoint" => m2.c = certifiedCheckpoint(r)
        BY <3>2 DEF Sends
      <4>2. Broadcast(r, "Checkpoint")' =
               IF m2.kind = "Checkpoint" THEN Broadcast(r, "Checkpoint") \cup {m2}
               ELSE Broadcast(r, "Checkpoint")
        BY <4>1, BroadcastAdds
      <4> QED BY <4>1, <4>2
    <3> QED BY <3>1, <3>2, StepKinds DEF Idle, Receives
  <2>2. PICK c : c = m.c
    OBVIOUS
  <2>3. CheckpointJustified(c)
    BY <1>2, <2>1, <2>2 DEF CheckpointsJustified
  <2> QED BY <1>1, <2>2, <2>3
<1>7. CheckpointsJustified(r)'
  BY <1>4, <1>5, <1>6 DEF CheckpointsJustified
<1> QED BY <1>3, <1>7
-----------------------------------------------------------------------------
(* Votes *)

VotesGrow == \A s \in Replica : /\ Commits(s) \subseteq Commits(s)'
                                /\ FastCommits(s) \subseteq FastCommits(s)'

LEMMA VoteTypes ==
    ASSUME TypeOK, NEW r \in Replica
    PROVE  /\ \A b \in committed[r] \cup fast_committed[r] : b[1] \in Replica /\ b[2] \in Nat
           /\ \A w \in verifying[r] : w[1] \in Replica /\ w[2] \in Proposal
           /\ \A s \in Replica : buffered_commits[r][s] \in Seq(Proposal)
<1>1. /\ committed[r] \subseteq Replica \X Nat
      /\ fast_committed[r] \subseteq Replica \X Nat
  BY DEF TypeOK
<1>2. verifying[r] \subseteq Replica \X Proposal
  BY DEF TypeOK
<1>3. \A s \in Replica : buffered_commits[r][s] \in Seq(Proposal)
  BY DEF TypeOK
<1>4. ASSUME NEW A, NEW B, NEW w \in A \X B PROVE w[1] \in A /\ w[2] \in B
  OBVIOUS
<1>5. \A b \in committed[r] \cup fast_committed[r] : b[1] \in Replica /\ b[2] \in Nat
  BY <1>1, <1>4
<1>6. \A w \in verifying[r] : w[1] \in Replica /\ w[2] \in Proposal
  BY <1>2, <1>4
<1> QED BY <1>3, <1>5, <1>6

LEMMA CountedKept ==
    ASSUME TypeOK, NEW r \in Replica, VotesSentAt(r), VotesGrow,
           committed'[r] \subseteq committed[r]
    PROVE  CountedSent(r)'
<1>1. ASSUME NEW b \in committed[r] PROVE \E c \in Commits(b[1])' : c.inst = b[2]
  <2>1. b[1] \in Replica /\ \E c \in Commits(b[1]) : c.inst = b[2]
    BY VoteTypes DEF VotesSentAt, CountedSent
  <2>2. Commits(b[1]) \subseteq Commits(b[1])'
    BY <2>1 DEF VotesGrow
  <2> QED BY <2>1, <2>2
<1> QED BY <1>1 DEF CountedSent

LEMMA FastCountedKept ==
    ASSUME TypeOK, NEW r \in Replica, VotesSentAt(r), VotesGrow,
           fast_committed'[r] \subseteq fast_committed[r]
    PROVE  FastCountedSent(r)'
<1>1. ASSUME NEW b \in fast_committed[r] PROVE \E f \in FastCommits(b[1])' : f.inst = b[2]
  <2>1. b[1] \in Replica /\ \E f \in FastCommits(b[1]) : f.inst = b[2]
    BY VoteTypes DEF VotesSentAt, FastCountedSent
  <2>2. FastCommits(b[1]) \subseteq FastCommits(b[1])'
    BY <2>1 DEF VotesGrow
  <2> QED BY <2>1, <2>2
<1> QED BY <1>1 DEF FastCountedSent

LEMMA BufferedKept ==
    ASSUME TypeOK, NEW r \in Replica, VotesSentAt(r), VotesGrow
    PROVE  /\ \A s \in Replica : \A k \in 1 .. Len(buffered_commits[r][s]) :
                 buffered_commits[r][s][k] \in Commits(s)'
           /\ buffered_commits'[r] = buffered_commits[r] => BufferedSent(r)'
           /\ \A w \in verifying[r] : w[2] \in Commits(w[1])'
           /\ verifying'[r] \subseteq verifying[r] => VerifyingSent(r)'
<1>1. \A s \in Replica : \A k \in 1 .. Len(buffered_commits[r][s]) :
         buffered_commits[r][s][k] \in Commits(s)'
  BY DEF VotesSentAt, BufferedSent, VotesGrow
<1>2. ASSUME NEW w \in verifying[r] PROVE w[2] \in Commits(w[1])'
  <2>1. w[1] \in Replica /\ w[2] \in Commits(w[1])
    BY VoteTypes DEF VotesSentAt, VerifyingSent
  <2>2. Commits(w[1]) \subseteq Commits(w[1])'
    BY <2>1 DEF VotesGrow
  <2> QED BY <2>1, <2>2
<1> QED BY <1>1, <1>2 DEF BufferedSent, VerifyingSent

(* A commit that is counted or buffered. *)
LEMMA CountSent ==
    ASSUME TypeOK, NEW r \in Replica, VotesSentAt(r), VotesGrow,
           NEW s \in Replica, NEW c \in Proposal, countCommit(r, s, c), c \in Commits(s)'
    PROVE  BufferedSent(r)' /\ CountedSent(r)'
<1> DEFINE q == buffered_commits[r][s]
           q1 == IF Len(q) = Window THEN Tail(q) ELSE q
           q2 == Append(q1, c)
<1>1. /\ committed \in [Replica -> SUBSET (Replica \X Nat)]
      /\ buffered_commits \in [Replica -> [Replica -> Seq(Proposal)]]
  BY DEF TypeOK
<1>2. CASE buffered_commits' = [buffered_commits EXCEPT ![r][s] = q2] /\ committed' = committed
  <2>1. q \in Seq(Proposal)
    BY <1>1
  <2>2. /\ q1 \in Seq(Proposal)
        /\ \A k \in 1 .. Len(q1) : \E j \in 1 .. Len(q) : q1[k] = q[j]
    <3>1. CASE Len(q) = Window
      <4>1. q # << >>
        BY <3>1, <2>1, ConstantsAssumption
      <4>2. /\ Tail(q) \in Seq(Proposal) /\ Len(Tail(q)) = Len(q) - 1
            /\ Len(q) \in Nat
            /\ \A k \in 1 .. Len(Tail(q)) : Tail(q)[k] = q[k + 1]
        BY <2>1, <4>1
      <4> QED BY <3>1, <4>2
    <3> QED BY <3>1, <2>1
  <2> HIDE DEF q1
  <2>3. /\ Len(q2) = Len(q1) + 1 /\ Len(q1) \in Nat
        /\ \A k \in 1 .. Len(q1) : q2[k] = q1[k]
        /\ q2[Len(q1) + 1] = c
    BY <2>2, AppendElements
  <2> HIDE DEF q2
  <2>4. ASSUME NEW k \in 1 .. Len(q2) PROVE q2[k] \in Commits(s)'
    <3>1. \A j \in 1 .. Len(q) : q[j] \in Commits(s)'
      BY BufferedKept
    <3> HIDE DEF q
    <3>2. CASE k \in 1 .. Len(q1)
      BY <3>1, <3>2, <2>2, <2>3
    <3>3. CASE k = Len(q1) + 1
      BY <3>3, <2>3
    <3> QED BY <3>2, <3>3, <2>3
  <2>5. buffered_commits'[r][s] = q2
        /\ \A t \in Replica \ {s} : buffered_commits'[r][t] = buffered_commits[r][t]
    BY <1>1, <1>2
  <2>6. BufferedSent(r)'
    BY <2>4, <2>5, BufferedKept DEF BufferedSent
  <2> QED BY <1>2, <2>6, CountedKept
<1>3. CASE UNCHANGED <<buffered_commits, committed>>
  BY <1>3, BufferedKept, CountedKept
<1>4. CASE /\ committed' = [committed EXCEPT ![r] = committed[r] \cup {<<s, c.inst>>}]
           /\ UNCHANGED buffered_commits
  <2>1. committed'[r] = committed[r] \cup {<<s, c.inst>>}
    BY <1>1, <1>4
  <2>2. ASSUME NEW b \in committed[r] PROVE \E d \in Commits(b[1])' : d.inst = b[2]
    <3>1. b[1] \in Replica /\ \E d \in Commits(b[1]) : d.inst = b[2]
      BY VoteTypes DEF VotesSentAt, CountedSent
    <3>2. Commits(b[1]) \subseteq Commits(b[1])'
      BY <3>1 DEF VotesGrow
    <3> QED BY <3>1, <3>2
  <2>3. CountedSent(r)'
    BY <2>1, <2>2 DEF CountedSent
  <2> QED BY <1>4, <2>3, BufferedKept
<1> QED BY <1>2, <1>3, <1>4 DEF countCommit

LEMMA HandleCommitSent ==
    ASSUME TypeOK, NEW r \in Replica, VotesSentAt(r), VotesGrow,
           NEW s \in Replica, NEW c \in Proposal, handleCommit(r, s, c), c \in Commits(s)'
    PROVE  VotesSentAt(r)'
<1>1. fast_committed' = fast_committed
  BY DEF handleCommit
<1>2. FastCountedSent(r)'
  BY <1>1, FastCountedKept
<1>3. CASE UNCHANGED <<committed, verifying, buffered_commits>>
  BY <1>2, <1>3, BufferedKept, CountedKept DEF VotesSentAt
<1>4. CASE countCommit(r, s, c) /\ UNCHANGED verifying
  BY <1>2, <1>4, CountSent, BufferedKept DEF VotesSentAt
<1>5. CASE /\ verifying' = [verifying EXCEPT ![r] = verifying[r] \cup {<<s, c>>}]
           /\ UNCHANGED <<committed, buffered_commits>>
  <2>1. verifying'[r] = verifying[r] \cup {<<s, c>>}
    BY <1>5 DEF TypeOK
  <2>2. VerifyingSent(r)'
    BY <2>1, BufferedKept DEF VerifyingSent
  <2> QED BY <1>2, <1>5, <2>2, BufferedKept, CountedKept DEF VotesSentAt
<1> QED BY <1>3, <1>4, <1>5 DEF handleCommit, verifyCommit
LEMMA HandlePrepareSent ==
    ASSUME TypeOK, NEW r \in Replica, VotesSentAt(r), VotesGrow,
           NEW s \in Replica, NEW p \in Proposal, handlePrepare(r, s, p)
    PROVE  VotesSentAt(r)'
<1> DEFINE left == [t \in Replica |-> DropBelow(buffered_commits[r][t], Index(p))]
           replay == {t \in Replica : left[t] # << >> /\ Index(left[t][1]) = Index(p)}
<1>1. verifying' = verifying
  BY DEF handlePrepare
<1>2. VerifyingSent(r)'
  BY <1>1, BufferedKept
<1>3. CASE UNCHANGED <<committed, fast_committed, buffered_commits>>
  BY <1>2, <1>3, BufferedKept, CountedKept, FastCountedKept DEF VotesSentAt
<1>4. CASE /\ fast_committed' = [fast_committed EXCEPT ![r] =
                 {b \in fast_committed[r] : InTail(b[2], p.inst)}]
           /\ committed' = [committed EXCEPT ![r] =
                 {b \in committed[r] : InTail(b[2], p.inst)} \cup (replay \X {p.inst})]
           /\ buffered_commits' = [buffered_commits EXCEPT ![r] =
                 [t \in Replica |-> IF t \in replay THEN Tail(left[t]) ELSE left[t]]]
  <2>1. /\ fast_committed'[r] \subseteq fast_committed[r]
        /\ committed'[r] \subseteq committed[r] \cup (replay \X {p.inst})
        /\ \A t \in Replica :
              buffered_commits'[r][t] = IF t \in replay THEN Tail(left[t]) ELSE left[t]
    BY <1>4 DEF TypeOK
  <2>2. ASSUME NEW t \in Replica
        PROVE  /\ left[t] \in Seq(Proposal)
               /\ \A k \in 1 .. Len(left[t]) : left[t][k] \in Commits(t)'
    <3> DEFINE q == buffered_commits[r][t]
    <3>1. /\ q \in Seq(Proposal) /\ Index(p) \in Nat
          /\ \A k \in 1 .. Len(q) : q[k] \in Commits(t)'
      BY VoteTypes, IndexType, BufferedKept
    <3>2. left[t] = DropBelow(q, Index(p))
      OBVIOUS
    <3> HIDE DEF q, left
    <3>3. /\ DropBelow(q, Index(p)) \in Seq(Proposal)
          /\ \A k \in 1 .. Len(DropBelow(q, Index(p))) :
                \E j \in 1 .. Len(q) : DropBelow(q, Index(p))[k] = q[j]
      BY <3>1, DropBelowType
    <3> QED BY <3>1, <3>2, <3>3
  <2>3. \A t \in replay : t \in Replica /\ left[t] # << >> /\ Index(left[t][1]) = Index(p)
    OBVIOUS
  <2> HIDE DEF left, replay
  <2>4. ASSUME NEW t \in Replica, NEW k \in 1 .. Len(buffered_commits'[r][t])
        PROVE  buffered_commits'[r][t][k] \in Commits(t)'
    <3>1. CASE t \in replay
      <4>1. left[t] \in Seq(Proposal) /\ left[t] # << >>
        BY <2>2, <2>3, <3>1
      <4>2. /\ Len(Tail(left[t])) = Len(left[t]) - 1 /\ Len(left[t]) \in Nat
            /\ \A j \in 1 .. Len(Tail(left[t])) : Tail(left[t])[j] = left[t][j + 1]
        BY <4>1
      <4>3. buffered_commits'[r][t] = Tail(left[t])
        BY <2>1, <3>1
      <4>4. k + 1 \in 1 .. Len(left[t]) /\ Tail(left[t])[k] = left[t][k + 1]
        BY <4>2, <4>3
      <4> QED BY <2>2, <4>3, <4>4
    <3>2. CASE t \notin replay
      BY <2>1, <2>2, <3>2
    <3> QED BY <3>1, <3>2
  <2>5. ASSUME NEW b \in committed'[r] PROVE \E c \in Commits(b[1])' : c.inst = b[2]
    <3>1. CASE b \in committed[r]
      <4>1. b[1] \in Replica /\ \E d \in Commits(b[1]) : d.inst = b[2]
        BY <3>1, VoteTypes DEF VotesSentAt, CountedSent
      <4>2. Commits(b[1]) \subseteq Commits(b[1])'
        BY <4>1 DEF VotesGrow
      <4> QED BY <4>1, <4>2
    <3>2. CASE b \in replay \X {p.inst}
      <4>1. PICK t \in replay : b[1] = t /\ b[2] = p.inst
        BY <3>2
      <4>2. 1 \in 1 .. Len(left[t]) /\ left[t][1] \in Proposal
        BY <2>2, <2>3
      <4>3. left[t][1].inst = p.inst
        BY <2>3, <4>2, IndexInjective
      <4> QED BY <2>2, <2>3, <4>1, <4>2, <4>3
    <3> QED BY <2>1, <3>1, <3>2
  <2>6. FastCountedSent(r)'
    BY <2>1, FastCountedKept
  <2> QED BY <1>2, <2>4, <2>5, <2>6 DEF VotesSentAt, BufferedSent, CountedSent
<1> QED BY <1>3, <1>4 DEF handlePrepare, instVars

(* A fast commit that is counted. *)
LEMMA FastMarkSent ==
    ASSUME TypeOK, NEW r \in Replica, VotesSentAt(r), VotesGrow, NEW s \in Replica, NEW i,
           fast_committed' = [fast_committed EXCEPT ![r] = fast_committed[r] \cup {<<s, i>>}],
           \E f \in FastCommits(s)' : f.inst = i,
           UNCHANGED <<committed, verifying, buffered_commits>>
    PROVE  VotesSentAt(r)'
<1>1. fast_committed'[r] = fast_committed[r] \cup {<<s, i>>}
  BY DEF TypeOK
<1>2. ASSUME NEW b \in fast_committed[r] PROVE \E f \in FastCommits(b[1])' : f.inst = b[2]
  <2>1. b[1] \in Replica /\ \E f \in FastCommits(b[1]) : f.inst = b[2]
    BY VoteTypes DEF VotesSentAt, FastCountedSent
  <2>2. FastCommits(b[1]) \subseteq FastCommits(b[1])'
    BY <2>1 DEF VotesGrow
  <2> QED BY <2>1, <2>2
<1>3. FastCountedSent(r)'
  BY <1>1, <1>2 DEF FastCountedSent
<1> QED BY <1>3, BufferedKept, CountedKept DEF VotesSentAt

LEMMA FewerVotes ==
    ASSUME TypeOK, NEW r \in Replica, VotesSentAt(r), VotesGrow,
           committed'[r] \subseteq committed[r], fast_committed'[r] \subseteq fast_committed[r],
           verifying'[r] = verifying[r], buffered_commits'[r] = buffered_commits[r]
    PROVE  VotesSentAt(r)'
BY BufferedKept, CountedKept, FastCountedKept DEF VotesSentAt

LEMMA VotesStep ==
    ASSUME TypeOK, TypeOK', NEW r \in Replica, Step(r), VotesSentAt(r)
    PROVE  VotesSentAt(r)'
<1>1. VotesGrow
  BY StepLater, FastCommitsStep DEF VotesGrow, Later, LaterAt
<1>2. CASE Propose(r)
  <2> DEFINE p == Head(proposer[r].to_propose)
  <2>1. proposer[r].to_propose \in Seq(Proposal) /\ proposer[r].to_propose # << >>
    BY <1>2, LeaderTypes DEF Propose
  <2>2. p \in Proposal /\ handlePrepare(r, r, p)
    BY <1>2, <2>1 DEF Propose
  <2> QED BY <1>1, <2>2, HandlePrepareSent
<1>3. ASSUME NEW s \in Replica, PollPrepare(r, s) PROVE VotesSentAt(r)'
  <2>1. NextCb(r, s).p \in Proposal /\ handlePrepare(r, s, NextCb(r, s).p)
    BY <1>3, NextCbType, MessageParts DEF PollPrepare, PollCb
  <2> QED BY <1>1, <2>1, HandlePrepareSent
<1>4. ASSUME NEW s \in Replica, PollCommit(r, s) PROVE VotesSentAt(r)'
  <2> DEFINE c == NextCb(r, s).p
  <2>1. /\ c \in Proposal /\ handleCommit(r, s, c) /\ NextCb(r, s).kind = "Commit"
        /\ states[r][s].next_cb < Len(cb[s])
    BY <1>4, NextCbType, MessageParts DEF PollCommit, PollCb
  <2>2. states[r][s].next_cb + 1 \in 1 .. Len(cb[s])
    BY <2>1, ReplayTypes
  <2>3. c \in Commits(s)
    BY <2>1, <2>2, CommitsAt DEF NextCb
  <2>4. c \in Commits(s)'
    BY <1>1, <2>3 DEF VotesGrow
  <2> HIDE DEF c
  <2> QED BY <1>1, <2>1, <2>4, HandleCommitSent
<1>5. CASE PollPrepareCertificate(r)
  <2>1. PICK p \in prepare_certifier[r].tail :
           \/ UNCHANGED <<committed, verifying, buffered_commits, fast_committed>>
           \/ broadcast(r, CommitMessage(p)) /\ handleCommit(r, r, p)
    BY <1>5 DEF PollPrepareCertificate
  <2>2. CASE UNCHANGED <<committed, verifying, buffered_commits, fast_committed>>
    BY <1>1, <2>2, FewerVotes
  <2>3. CASE broadcast(r, CommitMessage(p)) /\ handleCommit(r, r, p)
    <3> DEFINE m == CommitMessage(p)
    <3>1. p \in Proposal
      BY DEF TypeOK, PrepareCertifier
    <3>2. m \in Message /\ m.kind = "Commit" /\ m.p = p
      BY <3>1, MessageTypes DEF CommitMessage
    <3>3. broadcast(r, m)
      BY <2>3
    <3> HIDE DEF m
    <3>4. p \in Commits(r)'
      BY <3>2, <3>3, CommitsAdd
    <3> QED BY <1>1, <2>3, <3>1, <3>4, HandleCommitSent
  <2> QED BY <2>1, <2>2, <2>3
<1>6. CASE PollVerifiedCommit(r)
  <2>1. PICK w \in verifying[r] : /\ verifying' = [verifying EXCEPT ![r] = @ \ {w}]
                                  /\ countCommit(r, w[1], w[2])
    BY <1>6 DEF PollVerifiedCommit
  <2>2. w[1] \in Replica /\ w[2] \in Proposal /\ w[2] \in Commits(w[1])'
    BY <1>1, <2>1, VoteTypes, BufferedKept
  <2>3. PICK s \in Replica : s = w[1]
    BY <2>2
  <2>4. PICK c \in Proposal : c = w[2]
    BY <2>2
  <2>5. countCommit(r, s, c) /\ c \in Commits(s)'
    BY <2>1, <2>2, <2>3, <2>4
  <2>6. BufferedSent(r)' /\ CountedSent(r)'
    BY <1>1, <2>5, CountSent
  <2>7. verifying'[r] \subseteq verifying[r] /\ fast_committed' = fast_committed
    BY <1>6, <2>1 DEF TypeOK, PollVerifiedCommit
  <2> QED BY <1>1, <2>6, <2>7, BufferedKept, FastCountedKept DEF VotesSentAt
<1>7. CASE PollPromise(r)
  <2>1. UNCHANGED <<committed, verifying, buffered_commits>>
    BY <1>7 DEF PollPromise
  <2>2. CASE fast_committed' = fast_committed
    BY <1>1, <2>1, <2>2, FewerVotes
  <2>3. ASSUME NEW p \in prepare_certifier[r].tail,
               fast_commits' = [fast_commits EXCEPT ![r] =
                                  Append(@, [view |-> p.view, inst |-> p.inst])],
               fast_committed' = [fast_committed EXCEPT ![r] = @ \cup {<<r, p.inst>>}]
        PROVE  VotesSentAt(r)'
    <3>1. p \in Proposal
      BY DEF TypeOK, PrepareCertifier
    <3>2. PICK f \in FastCommit : f = [view |-> p.view, inst |-> p.inst]
      BY <3>1, ProposalTypes DEF FastCommit
    <3>3. fast_commits[r] \in Seq(FastCommit) /\ fast_commits'[r] = Append(fast_commits[r], f)
      BY <2>3, <3>2 DEF TypeOK, FastCommit
    <3>4. /\ Len(Append(fast_commits[r], f)) = Len(fast_commits[r]) + 1
          /\ Len(fast_commits[r]) \in Nat
          /\ Append(fast_commits[r], f)[Len(fast_commits[r]) + 1] = f
      BY <3>3, AppendElements
    <3>5. f \in FastCommits(r)'
      BY <3>3, <3>4 DEF FastCommits
    <3>6. f.inst = p.inst
      BY <3>2
    <3> QED BY <1>1, <2>1, <2>3, <3>5, <3>6, FastMarkSent
  <2> QED BY <1>7, <2>2, <2>3 DEF PollPromise
<1>8. ASSUME NEW s \in Replica, PollFastCommit(r, s) PROVE VotesSentAt(r)'
  <2> DEFINE k == polled_fast[r][s] + 1
             f == fast_commits[s][k]
  <2>1. UNCHANGED <<committed, verifying, buffered_commits>>
    BY <1>8 DEF PollFastCommit
  <2>2. CASE fast_committed' = fast_committed
    BY <1>1, <2>1, <2>2, FewerVotes
  <2>3. CASE fast_committed' = [fast_committed EXCEPT ![r] = @ \cup {<<s, f.inst>>}]
    <3>1. polled_fast[r][s] \in Nat /\ Len(fast_commits[s]) \in Nat
      BY DEF TypeOK
    <3>2. k \in 1 .. Len(fast_commits[s])
      <4>1. polled_fast[r][s] < Len(fast_commits[s])
        BY <1>8 DEF PollFastCommit
      <4> QED BY <3>1, <4>1
    <3>3. f \in FastCommits(s)
      BY <3>2 DEF FastCommits
    <3>4. f \in FastCommits(s)'
      BY <1>1, <3>3 DEF VotesGrow
    <3> HIDE DEF f
    <3> QED BY <1>1, <2>1, <2>3, <3>4, FastMarkSent
  <2> QED BY <1>8, <2>2, <2>3 DEF PollFastCommit
<1>9. CASE BroadcastCheckpoint(r)
  <2>1. /\ committed'[r] \subseteq committed[r] /\ fast_committed'[r] \subseteq fast_committed[r]
        /\ UNCHANGED <<verifying, buffered_commits>>
    BY <1>9 DEF BroadcastCheckpoint, TypeOK
  <2> QED BY <1>1, <2>1, FewerVotes
<1>10. CASE ChangeView(r)
  <2>1. /\ committed'[r] = {} /\ fast_committed'[r] = {}
        /\ UNCHANGED <<verifying, buffered_commits>>
    BY <1>10 DEF ChangeView, TypeOK
  <2> QED BY <1>1, <2>1, FewerVotes
<1>11. CASE UNCHANGED <<committed, fast_committed, verifying, buffered_commits>>
  BY <1>1, <1>11, FewerVotes
<1> QED BY <1>2, <1>3, <1>4, <1>5, <1>6, <1>7, <1>8, <1>9, <1>10, <1>11
        DEF Step, GetSlot, AcceptRequest, CertifyPrepare, Decide,
            PollCheckpointCertificate, StartView, PollCheckpoint, PollSealView,
            PollNewView, PollVcStateCertificate, instVars

LEMMA AlwaysSent == Spec => []VotesSent
<1>1. Init => VotesSent
  BY DEF Init, VotesSent, VotesSentAt, BufferedSent, VerifyingSent, CountedSent,
         FastCountedSent
<1>2. TypeOK /\ TypeOK' /\ VotesSent /\ [Next]_vars => VotesSent'
  <2> SUFFICES ASSUME TypeOK, TypeOK', VotesSent, [Next]_vars PROVE VotesSent'
    OBVIOUS
  <2>1. ASSUME NEW q \in Replica, VotesGrow, Untouched(q) PROVE VotesSentAt(q)'
    BY <2>1, FewerVotes DEF Untouched, VotesSent
  <2>2. ASSUME NEW r \in Replica, Step(r) PROVE VotesSent'
    <3>1. VotesGrow
      BY <2>2, StepLater, FastCommitsStep DEF VotesGrow, Later, LaterAt
    <3>2. \A q \in Replica \ {r} : VotesSentAt(q)'
      BY <2>1, <2>2, <3>1, StepLocal
    <3> QED BY <2>2, <3>2, VotesStep DEF VotesSent
  <2>3. CASE UNCHANGED vars
    <3>1. VotesGrow
      BY <2>3 DEF vars, VotesGrow, Commits, Broadcast, FastCommits
    <3> QED BY <2>1, <2>3, <3>1 DEF vars, Untouched, VotesSent
  <2> QED BY <2>2, <2>3 DEF Next
<1> QED BY <1>1, <1>2, TypeCorrect, PTL DEF Spec
-----------------------------------------------------------------------------
(* The theorems *)

(* No replica left the first view. *)
NoViewChange == \A r \in Replica : At(r) = 0

LEMMA FirstViewVotes ==
    ASSUME TypeOK, SealInv, ReplayInv, ChosenInv, VotesSent, NoViewChange
    PROVE  VotesOfView
<1>1. ASSUME NEW s \in Replica, NEW c \in Commits(s) PROVE c.view = 0
  <2>1. c.view \in Nat
    BY CommitsType, ProposalTypes
  <2>2. c.view <= At(s)
    BY CommitsPast DEF ReplayInv, ReplayInvAt, ChosenInv, ChosenInvAt
  <2> QED BY <2>1, <2>2 DEF NoViewChange
<1>2. ASSUME NEW s \in Replica, NEW f \in FastCommits(s)
      PROVE  f = [view |-> 0, inst |-> f.inst]
  <2>1. f \in FastCommit
    <3>1. fast_commits[s] \in Seq(FastCommit)
      BY DEF TypeOK, FastCommit
    <3>2. \A k \in 1 .. Len(fast_commits[s]) : fast_commits[s][k] \in FastCommit
      BY <3>1
    <3> QED BY <3>2 DEF FastCommits
  <2>2. f.view <= 0
    BY DEF SealInv, SealInvAt, FastCommitsMarked, NoViewChange
  <2> QED BY <2>1, <2>2 DEF FastCommit
<1>3. ASSUME NEW r \in Replica, NEW s \in Replica, NEW i \in Nat, <<s, i>> \in committed[r]
      PROVE  \E c \in Commits(s) : c.inst = i /\ c.view = At(r)
  BY <1>1, <1>3 DEF VotesSent, VotesSentAt, CountedSent, NoViewChange
<1>4. ASSUME NEW r \in Replica, NEW s \in Replica, NEW i \in Nat,
             <<s, i>> \in fast_committed[r]
      PROVE  [view |-> At(r), inst |-> i] \in FastCommits(s)
  BY <1>2, <1>4 DEF VotesSent, VotesSentAt, FastCountedSent, NoViewChange
<1> QED BY <1>3, <1>4 DEF VotesOfView, VotesOfViewAt

LEMMA NoViewChangeVotes == Spec => [](NoViewChange => VotesOfView)
<1>1. TypeOK /\ SealInv /\ ReplayInv /\ ChosenInv /\ VotesSent
      => (NoViewChange => VotesOfView)
  BY FirstViewVotes
<1> QED BY <1>1, TypeCorrect, AlwaysSealed, AlwaysReplayed, AlwaysChosen, AlwaysSent, PTL

(* Nobody returns to an earlier view. *)
LEMMA FirstViewBefore ==
    ASSUME TypeOK, TypeOK', [Next]_vars, NoViewChange'
    PROVE  NoViewChange
<1>1. CASE UNCHANGED vars
  BY <1>1 DEF vars, NoViewChange, At
<1>2. ASSUME NEW r \in Replica, Step(r) PROVE NoViewChange
  <2>1. \A t \in Replica : LaterAt(t)
    BY <1>2, StepLater DEF Later
  <2>2. ASSUME NEW t \in Replica PROVE At(t) = 0
    <3>1. At(t) \in Nat /\ At(t) <= At(t)'
      BY <2>1, LeaderTypes DEF LaterAt
    <3>2. At(t)' = 0
      BY DEF NoViewChange
    <3> QED BY <3>1, <3>2
  <2> QED BY <2>2 DEF NoViewChange
<1> QED BY <1>1, <1>2 DEF Next

LEMMA JustifiedSame == ASSUME UNCHANGED vars, NEW k, NEW b, Justified(k, b) PROVE Justified(k, b)'
<1>1. \A t : Commits(t)' = Commits(t) /\ FastCommits(t)' = FastCommits(t)
               /\ Prepares(t)' = Prepares(t)
  BY DEF vars, Commits, Prepares, Broadcast, FastCommits
<1>2. \A p : Proposed(p) /\ Decided(p) => Proposed(p)' /\ Decided(p)'
  BY <1>1 DEF Proposed, Decided
<1> QED BY <1>2 DEF Justified

LEMMA AlwaysDecided == Spec => [](NoViewChange => DecisionInv)
<1>1. Init => DecisionInv
  <2> SUFFICES ASSUME Init, NEW r \in Replica PROVE LogJustified(r) /\ CheckpointsJustified(r)
    BY DEF DecisionInv
  <2>1. /\ log[r] = << >> /\ cb[r] = << >> /\ checkpoints[r].local = {}
        /\ certifiedCheckpoint(r) = Genesis
    BY DEF Init, certifiedCheckpoint
  <2>2. CheckpointJustified(Genesis)
    BY DEF CheckpointJustified, Genesis
  <2>3. Broadcast(r, "Checkpoint") = {}
    BY <2>1 DEF Broadcast
  <2> QED BY <2>1, <2>2, <2>3 DEF LogJustified, CheckpointsJustified
<1>2. /\ TypeOK /\ TypeOK' /\ SealInv /\ LeaderInv /\ ChosenInv
      /\ (NoViewChange => VotesOfView) /\ (NoViewChange => DecisionInv)
      /\ [Next]_vars
      => (NoViewChange => DecisionInv)'
  <2> SUFFICES ASSUME TypeOK, TypeOK', SealInv, LeaderInv, ChosenInv,
                      NoViewChange => VotesOfView, NoViewChange => DecisionInv,
                      [Next]_vars, NoViewChange'
               PROVE  DecisionInv'
    OBVIOUS
  <2>3. VotesOfView /\ DecisionInv
    BY FirstViewBefore
  <2>1. CASE Next
    BY <2>1, <2>3, LogsStep, CheckpointsStep DEF Next, DecisionInv
  <2>2. CASE UNCHANGED vars
    <3>1. \A k, b : Justified(k, b) => Justified(k, b)'
      BY <2>2, JustifiedSame
    <3>2. \A c : CheckpointJustified(c) => CheckpointJustified(c)'
      BY <3>1 DEF CheckpointJustified
    <3>3. ASSUME NEW r \in Replica PROVE LogJustified(r)' /\ CheckpointsJustified(r)'
      <4>1. /\ log'[r] = log[r] /\ checkpoints'[r] = checkpoints[r]
            /\ certifiedCheckpoint(r)' = certifiedCheckpoint(r)
            /\ Broadcast(r, "Checkpoint")' = Broadcast(r, "Checkpoint")
        BY <2>2 DEF vars, certifiedCheckpoint, Broadcast
      <4>2. LogJustified(r) /\ CheckpointsJustified(r)
        BY <2>3 DEF DecisionInv
      <4>3. LogJustified(r)'
        BY <3>1, <4>1, <4>2 DEF LogJustified
      <4>4. PICK c : c = certifiedCheckpoint(r)
        OBVIOUS
      <4>5. CheckpointJustified(certifiedCheckpoint(r))'
        BY <3>2, <4>1, <4>2, <4>4 DEF CheckpointsJustified
      <4>6. CheckpointsJustified(r)'
        BY <3>2, <4>1, <4>2, <4>5 DEF CheckpointsJustified
      <4> QED BY <4>3, <4>6
    <3> QED BY <3>3 DEF DecisionInv
  <2> QED BY <2>1, <2>2
<1> QED BY <1>1, <1>2, TypeCorrect, AlwaysSealed, AlwaysLeading, AlwaysChosen,
           NoViewChangeVotes, PTL
        DEF Spec

LEMMA JustifiedAgree == TypeOK /\ LeaderInv /\ ChosenInv /\ FastInv /\ DecisionInv => Agreement
<1> SUFFICES ASSUME TypeOK, LeaderInv, ChosenInv, FastInv, DecisionInv,
                    NEW r \in Replica, NEW s \in Replica, NEW i \in 1 .. Len(log[r]),
                    i <= Len(log[s])
             PROVE  log[r][i] = log[s][i]
  BY DEF Agreement
<1>1. i \in Nat /\ i \in 1 .. Len(log[s])
  BY LogTypes
<1>2. Justified(i, log[r][i]) /\ Justified(i, log[s][i])
  BY <1>1 DEF DecisionInv, LogJustified
<1> QED BY <1>1, <1>2, OneChosen

(* While nobody has left the first view all replicas decide the same on an  *)
(* instance (pollDecision), by fast commits, by commits or by both.         *)
THEOREM AgreementWithoutViewChange == Spec => [](NoViewChange => Agreement)
BY AlwaysDecided, AlwaysFast, AlwaysChosen, AlwaysLeading, TypeCorrect, JustifiedAgree, PTL

LEMMA CheckpointsPrefix ==
    TypeOK /\ LeaderInv /\ ChosenInv /\ FastInv /\ DecisionInv => CheckpointIsPrefix
<1> SUFFICES ASSUME TypeOK, LeaderInv, ChosenInv, FastInv, DecisionInv,
                    NEW r \in Replica, NEW s \in Replica
             PROVE  /\ Len(certifiedCheckpoint(r).digest) = certifiedCheckpoint(r).low
                    /\ \A i \in 1 .. certifiedCheckpoint(r).low :
                          i <= Len(log[s]) => log[s][i] = certifiedCheckpoint(r).digest[i]
  BY DEF CheckpointIsPrefix
<1>1. CheckpointJustified(certifiedCheckpoint(r)) /\ LogJustified(s)
  BY DEF DecisionInv, CheckpointsJustified
<1>2. ASSUME NEW i \in 1 .. certifiedCheckpoint(r).low, i <= Len(log[s])
      PROVE  log[s][i] = certifiedCheckpoint(r).digest[i]
  <2>1. certifiedCheckpoint(r).low \in Nat /\ Len(log[s]) \in Nat
    BY CheckpointLowType, LogTypes
  <2>2. i \in Nat /\ i \in 1 .. Len(log[s])
    BY <1>2, <2>1
  <2>3. Justified(i, log[s][i]) /\ Justified(i, certifiedCheckpoint(r).digest[i])
    BY <1>1, <2>2 DEF LogJustified, CheckpointJustified
  <2> QED BY <2>2, <2>3, OneChosen
<1> QED BY <1>1, <1>2 DEF CheckpointJustified

(* While nobody has left the first view, the checkpoint that a replica      *)
(* adopts is a prefix of every log that reaches as far, though it was       *)
(* certified by others and it may be ahead of its own log                   *)
(* (triggerCheckpoint, handleCheckpointCertificate).                        *)
THEOREM CheckpointsWithoutViewChange == Spec => [](NoViewChange => CheckpointIsPrefix)
BY AlwaysDecided, AlwaysFast, AlwaysChosen, AlwaysLeading, TypeCorrect, CheckpointsPrefix, PTL

LEMMA StepImplementsLog ==
    ASSUME TypeOK, TypeOK', SealInv, LeaderInv, ChosenInv, VotesOfView, Agreement',
           [Next]_vars
    PROVE  [Log!Next]_log
<1>1. CASE log' = log
  BY <1>1
<1>2. ASSUME NEW r \in Replica, Step(r), log' # log PROVE Log!Next
  <2>1. Decide(r)
    BY <1>2, OnlyDecideLogs
  <2>2. PICK b \in Batch :
           /\ log' = [log EXCEPT ![r] = Append(@, b)]
           /\ Len(log'[r]) = Len(log[r]) + 1
           /\ log'[r][Len(log[r]) + 1] = b
           /\ \A s \in Replica \ {r} : log'[s] = log[s]
    BY <2>1, DecideAppends DEF VotesOfView
  <2>3. ASSUME NEW s \in Replica, Len(log[s]) > Len(log[r])
        PROVE  log[s][Len(log[r]) + 1] = b
    <3>1. Len(log[s]) \in Nat /\ Len(log[r]) \in Nat
      BY LogTypes
    <3>2. s # r /\ log'[s] = log[s]
      BY <2>2, <2>3, <3>1
    <3>3. Len(log[r]) + 1 \in 1 .. Len(log'[r]) /\ Len(log[r]) + 1 <= Len(log'[s])
      BY <2>2, <2>3, <3>1, <3>2
    <3>4. log'[r][Len(log[r]) + 1] = log'[s][Len(log[r]) + 1]
      BY <3>3 DEF Agreement
    <3> QED BY <2>2, <3>2, <3>4
  <2>4. Log!Append1(r, b)
    BY <2>2, <2>3 DEF Log!Append1
  <2> QED BY <2>4 DEF Log!Next
<1> QED BY <1>1, <1>2 DEF Next, vars

(* Without a view change Consensus implements the replicated log, on its    *)
(* fast and on its slow path: Decide is a step of it, all the other steps   *)
(* stutter.                                                                 *)
THEOREM FirstViewImplementsLog == Spec /\ []NoViewChange => ImplementsLog
<1>1. Init => Log!Init
  BY DEF Init, Log!Init
<1>2. /\ TypeOK /\ TypeOK' /\ SealInv /\ LeaderInv /\ ChosenInv
      /\ NoViewChange /\ NoViewChange' /\ (NoViewChange => VotesOfView)
      /\ (NoViewChange => Agreement)' /\ [Next]_vars
      => [Log!Next]_log
  BY StepImplementsLog
<1> QED BY <1>1, <1>2, TypeCorrect, AlwaysSealed, AlwaysLeading, AlwaysChosen,
           AgreementWithoutViewChange, NoViewChangeVotes, PTL
        DEF Spec, ImplementsLog, Log!Spec
-----------------------------------------------------------------------------
(* A fast commit finds the prepare it is for *)

LEMMA StaysOk ==
    ASSUME TypeOK, NEW r \in Replica, Step(r), err'[r] = "ok"
    PROVE  err[r] = "ok"
BY StepKinds DEF Idle, Receives, Sends

(* handlePrepare drops only instances below the windows of all replicas. *)
LEMMA PrepareKeepsInstances ==
    ASSUME TypeOK, NEW r \in Replica, WindowsCertified(r), NEW s \in Replica,
           NEW p \in Proposal, handlePrepare(r, s, p), err'[r] = "ok"
    PROVE  /\ \A i \in Instances(r) : i \in Instances(r)' \/ i < certifiedCheckpoint(r).low
           /\ Usable(r, p.view, p.inst) \/ p.view # At(r) \/ p.inst \in Instances(r)'
<1>1. CASE ByzantinePrepare(r, s, p)
  <2>1. err' = [err EXCEPT ![r] = "Byzantine prepare"]
    BY <1>1 DEF handlePrepare, Throw
  <2> QED BY <2>1 DEF TypeOK
<1>2. CASE /\ instance_states' = instance_states
           /\ p.view # At(r) \/ p.inst < certifiedCheckpoint(r).low
  BY <1>2 DEF Instances, Usable
<1>3. CASE /\ ~ByzantinePrepare(r, s, p)
           /\ instance_states' = [instance_states EXCEPT ![r] =
                 {q \in @ : InTail(q.inst, p.inst)} \cup {p}]
  <2>1. instance_states'[r] = {q \in instance_states[r] : InTail(q.inst, p.inst)} \cup {p}
    BY <1>3 DEF TypeOK
  <2>2. /\ states[r][s].low \in Nat /\ certifiedCheckpoint(r).low \in Nat
        /\ states[r][s].low <= certifiedCheckpoint(r).low /\ p.inst \in Nat
    BY ReplayTypes, CheckpointLowType, ProposalTypes DEF WindowsCertified
  <2>3. ~(p.inst >= High(states[r][s].low))
    BY <1>3 DEF ByzantinePrepare
  <2>4. ASSUME NEW i \in Instances(r)
        PROVE  i \in Instances(r)' \/ i < certifiedCheckpoint(r).low
    <3>1. PICK q \in instance_states[r] : q.inst = i
      BY DEF Instances
    <3>2. q.inst \in Nat
      BY ProposalTypes DEF TypeOK
    <3>3. CASE InTail(q.inst, p.inst)
      BY <2>1, <3>1, <3>3 DEF Instances
    <3>4. CASE ~InTail(q.inst, p.inst)
      BY <2>2, <2>3, <3>1, <3>2, <3>4, ConstantsAssumption DEF InTail, High
    <3> QED BY <3>3, <3>4
  <2>5. p.inst \in Instances(r)'
    BY <2>1 DEF Instances
  <2> QED BY <2>4, <2>5
<1> QED BY <1>1, <1>2, <1>3 DEF handlePrepare, instVars

LEMMA InstancesKept ==
    ASSUME TypeOK, NEW r \in Replica, WindowsCertified(r), Step(r), err'[r] = "ok"
    PROVE  \A i \in Instances(r) :
              \/ i \in Instances(r)' \/ i < certifiedCheckpoint(r).low
              \/ At(r) < At(r)'
<1>1. ASSUME NEW s \in Replica, NEW p \in Proposal, handlePrepare(r, s, p)
      PROVE  \A i \in Instances(r) : i \in Instances(r)' \/ i < certifiedCheckpoint(r).low
  BY <1>1, PrepareKeepsInstances
<1>2. CASE Propose(r)
  <2>1. proposer[r].to_propose \in Seq(Proposal) /\ proposer[r].to_propose # << >>
    BY <1>2, LeaderTypes DEF Propose
  <2>2. /\ Head(proposer[r].to_propose) \in Proposal
        /\ handlePrepare(r, r, Head(proposer[r].to_propose))
    BY <1>2, <2>1 DEF Propose
  <2> QED BY <1>1, <2>2
<1>3. ASSUME NEW s \in Replica, PollPrepare(r, s)
      PROVE  \A i \in Instances(r) : i \in Instances(r)' \/ i < certifiedCheckpoint(r).low
  <2>1. NextCb(r, s).p \in Proposal /\ handlePrepare(r, s, NextCb(r, s).p)
    BY <1>3, NextCbType, MessageParts DEF PollPrepare, PollCb
  <2> QED BY <1>1, <2>1
<1>4. CASE BroadcastCheckpoint(r)
  <2> DEFINE low == certifiedCheckpoint(r).low
  <2>1. instance_states' = [instance_states EXCEPT ![r] = ForgetBelow(@, low)]
    BY <1>4 DEF BroadcastCheckpoint
  <2>2. low \in Nat /\ \A q \in instance_states[r] : q.inst \in Nat
    BY CheckpointLowType, ProposalTypes DEF TypeOK
  <2> HIDE DEF low
  <2>3. instance_states'[r] = ForgetBelow(instance_states[r], low)
    BY <2>1 DEF TypeOK
  <2>4. \A i \in Instances(r) : i \in Instances(r)' \/ i < low
    BY <2>2, <2>3 DEF Instances, ForgetBelow
  <2> QED BY <2>4 DEF low
<1>5. CASE ChangeView(r)
  <2>1. states' = [states EXCEPT ![r][r] = Sealed(@)]
    BY <1>5 DEF ChangeView, handleSealView
  <2>2. states'[r][r] = Sealed(states[r][r]) /\ states[r][r] \in ReplicaState
    BY <2>1 DEF TypeOK
  <2>3. At(r)' = At(r) + 1 /\ At(r) \in Nat
    BY <2>2, StateEffects, CheckpointLowType DEF At
  <2> QED BY <2>3
<1>6. CASE instance_states' = instance_states
  BY <1>6 DEF Instances
<1> QED BY <1>2, <1>3, <1>4, <1>5, <1>6
        DEF Step, GetSlot, AcceptRequest, CertifyPrepare, PollPromise,
            PollPrepareCertificate, PollVerifiedCommit, Decide,
            PollCheckpointCertificate, StartView, PollCommit, PollCheckpoint,
            PollSealView, PollNewView, PollFastCommit, PollVcStateCertificate,
            handleCommit, instVars

LEMMA UsableKept ==
    ASSUME TypeOK, TypeOK', NEW r \in Replica, WindowsCertified(r), Step(r), err'[r] = "ok",
           NEW v \in Nat, NEW i \in Nat, Usable(r, v, i)
    PROVE  Usable(r, v, i)'
<1>1. /\ LaterAt(r) /\ At(r) \in Nat /\ At(r)' \in Nat
      /\ certifiedCheckpoint(r).low \in Nat /\ certifiedCheckpoint(r)'.low \in Nat
  BY StepLater, CheckpointLowType DEF Later
<1>2. At(r) <= At(r)' /\ certifiedCheckpoint(r).low <= certifiedCheckpoint(r)'.low
  BY <1>1 DEF LaterAt
<1>3. CASE v = At(r) /\ i \in Instances(r)
  <2>1. i \in Instances(r)' \/ i < certifiedCheckpoint(r).low \/ At(r) < At(r)'
    BY <1>3, InstancesKept
  <2>2. v < At(r)' \/ v = At(r)'
    BY <1>1, <1>2, <1>3
  <2>3. i < certifiedCheckpoint(r).low => i < certifiedCheckpoint(r)'.low
    BY <1>1, <1>2
  <2> QED BY <1>3, <2>1, <2>2, <2>3 DEF Usable
<1>4. CASE v < At(r)
  <2>1. v < At(r)'
    BY <1>1, <1>2, <1>4
  <2> QED BY <2>1 DEF Usable
<1>5. CASE i < certifiedCheckpoint(r).low
  <2>1. i < certifiedCheckpoint(r)'.low
    BY <1>1, <1>2, <1>5
  <2> QED BY <2>1 DEF Usable
<1> QED BY <1>3, <1>4, <1>5 DEF Usable
LEMMA OnlyProposePrepares ==
    ASSUME TypeOK, NEW r \in Replica, Step(r)
    PROVE  Prepares(r)' = Prepares(r) \/ Propose(r)
<1>1. ASSUME cb' = cb PROVE Prepares(r)' = Prepares(r)
  BY <1>1 DEF Prepares, Broadcast
<1>2. ASSUME NEW m \in Message, broadcast(r, m), m.kind # "Prepare"
      PROVE  Prepares(r)' = Prepares(r)
  BY <1>2, PreparesAdd
<1>3. CASE PollPrepareCertificate(r)
  <2>1. PICK p \in prepare_certifier[r].tail : cb' = cb \/ broadcast(r, CommitMessage(p))
    BY <1>3 DEF PollPrepareCertificate
  <2>2. p \in Proposal
    BY DEF TypeOK, PrepareCertifier
  <2>3. CommitMessage(p) \in Message /\ CommitMessage(p).kind # "Prepare"
    BY <2>2, MessageTypes DEF CommitMessage
  <2> QED BY <1>1, <1>2, <2>1, <2>3
<1>4. CASE BroadcastCheckpoint(r)
  <2> DEFINE m == CheckpointMessage(certifiedCheckpoint(r))
  <2>1. certifiedCheckpoint(r) \in Checkpoint
    BY DEF TypeOK, Checkpoints, certifiedCheckpoint
  <2>2. m \in Message /\ m.kind # "Prepare" /\ broadcast(r, m)
    BY <1>4, <2>1, MessageTypes DEF CheckpointMessage, BroadcastCheckpoint
  <2> HIDE DEF m
  <2> QED BY <1>2, <2>2
<1>5. CASE ChangeView(r)
  <2>1. /\ SealViewMessage \in Message /\ SealViewMessage.kind # "Prepare"
        /\ broadcast(r, SealViewMessage)
    BY <1>5, MessageTypes DEF SealViewMessage, ChangeView
  <2> QED BY <1>2, <2>1
<1>6. ASSUME NEW s \in Replica, PollVcStateCertificate(r, s) PROVE Prepares(r)' = Prepares(r)
  <2>1. cb' = cb \/ \E a \in vc[r].acked[s] :
           broadcast(r, NewViewMessage(a.view + 1,
                                       UNION {c.commits : c \in Collected(r, s, a)}))
    BY <1>6 DEF PollVcStateCertificate, Collected
  <2>2. ASSUME NEW a \in vc[r].acked[s],
               broadcast(r, NewViewMessage(a.view + 1,
                                           UNION {c.commits : c \in Collected(r, s, a)}))
        PROVE  Prepares(r)' = Prepares(r)
    <3>1. a \in SerializedState /\ vc[r].certs \in SUBSET StateCertificate
      BY LeaderTypes
    <3>2. Collected(r, s, a) \in SUBSET StateCertificate /\ a.view + 1 \in Nat
      BY <3>1 DEF Collected, StateCertificate, SerializedState
    <3>3. UNION {c.commits : c \in Collected(r, s, a)} \in SUBSET Proposal
      BY <3>2 DEF StateCertificate
    <3> DEFINE m == NewViewMessage(a.view + 1, UNION {c.commits : c \in Collected(r, s, a)})
    <3>4. m \in Message /\ m.kind # "Prepare" /\ broadcast(r, m)
      BY <2>2, <3>2, <3>3, MessageTypes DEF NewViewMessage
    <3> HIDE DEF m
    <3> QED BY <1>2, <3>4
  <2> QED BY <1>1, <2>1, <2>2
<1> QED BY <1>1, <1>3, <1>4, <1>5, <1>6
        DEF Step, GetSlot, AcceptRequest, CertifyPrepare, PollPromise,
            PollVerifiedCommit, Decide, PollCheckpointCertificate, StartView,
            PollPrepare, PollCommit, PollCheckpoint, PollSealView, PollNewView,
            PollFastCommit, PollCb

LEMMA ProposedUsableStep ==
    ASSUME TypeOK, TypeOK', NEW r \in Replica, WindowsCertified(r), Step(r), err'[r] = "ok",
           ProposedUsable(r)
    PROVE  ProposedUsable(r)'
<1>1. \A v, i \in Nat : Usable(r, v, i) => Usable(r, v, i)'
  BY UsableKept
<1>2. ASSUME NEW p \in Prepares(r) PROVE Usable(r, p.view, p.inst)'
  <2>1. p.view \in Nat /\ p.inst \in Nat
    BY PreparesType, ProposalTypes
  <2> QED BY <1>1, <2>1 DEF ProposedUsable
<1>3. CASE Propose(r)
  <2>0. proposer[r].to_propose \in Seq(Proposal) /\ proposer[r].to_propose # << >>
    BY <1>3, LeaderTypes DEF Propose
  <2>1. PICK p \in Proposal : p = Head(proposer[r].to_propose)
    BY <2>0
  <2>2. handlePrepare(r, r, p) /\ Prepares(r)' = Prepares(r) \cup {p}
    BY <1>3, <2>1, ProposeSteps DEF Propose, ProposeStep
  <2>3. /\ p.view \in Nat /\ p.inst \in Nat
        /\ Usable(r, p.view, p.inst) \/ p.view # At(r) \/ p.inst \in Instances(r)'
    BY <2>2, ProposalTypes, PrepareKeepsInstances
  <2>4. p.view = At(r)
    <3>1. CASE ByzantinePrepare(r, r, p)
      <4>1. err' = [err EXCEPT ![r] = "Byzantine prepare"]
        BY <2>2, <3>1 DEF handlePrepare, Throw
      <4> QED BY <4>1 DEF TypeOK
    <3>2. CASE ~ByzantinePrepare(r, r, p)
      BY <3>2 DEF ByzantinePrepare, At
    <3> QED BY <3>1, <3>2
  <2>5. At(r)' = At(r)
    BY <2>2, PrepareEffect DEF Same, At
  <2>6. Usable(r, p.view, p.inst)'
    <3>1. CASE Usable(r, p.view, p.inst)
      BY <1>1, <2>3, <3>1
    <3>2. CASE p.inst \in Instances(r)'
      BY <2>4, <2>5, <3>2 DEF Usable
    <3> QED BY <2>3, <2>4, <3>1, <3>2
  <2> QED BY <1>2, <2>2, <2>6 DEF ProposedUsable
<1>4. CASE Prepares(r)' = Prepares(r)
  BY <1>2, <1>4 DEF ProposedUsable
<1> QED BY <1>3, <1>4, OnlyProposePrepares

(* A replica promises to certify a prepare that it holds. *)
LEMMA PromisesAreHeld ==
    ASSUME TypeOK, NEW r \in Replica, Step(r)
    PROVE  \A n \in sent'[r].promises :
              n \in sent[r].promises \/ \E p \in instance_states'[r] : Index(p) = n
<1>1. sent \in [Replica -> Emitted] /\ sent[r] \in Emitted
  BY DEF TypeOK
<1>2. CASE sent' = sent
  BY <1>2
<1>3. ASSUME NEW p, tryCertifyPrepare(r, p)
      PROVE  \A n \in sent'[r].promises : n \in sent[r].promises \/ n = Index(p)
  <2>1. ASSUME NEW x, NEW y, sent' = [sent EXCEPT ![r].promises = x, ![r].prepares = y]
        PROVE  sent'[r].promises = x
    BY <1>1, <2>1 DEF Emitted
  <2>2. CASE sent' = [sent EXCEPT
              ![r].promises = IF leader(p.view) = r THEN @ ELSE @ \cup {Index(p)},
              ![r].prepares = @ \cup {p}]
    <3>1. sent'[r].promises = IF leader(p.view) = r THEN sent[r].promises
                              ELSE sent[r].promises \cup {Index(p)}
      BY <2>1, <2>2
    <3> QED BY <3>1
  <2> QED BY <1>2, <1>3, <2>2 DEF tryCertifyPrepare
<1>4. ASSUME NEW s, NEW p \in Proposal, handlePrepare(r, s, p)
      PROVE  \A n \in sent'[r].promises :
                n \in sent[r].promises \/ \E q \in instance_states'[r] : Index(q) = n
  <2>1. CASE sent' = sent
    BY <2>1
  <2>2. CASE /\ tryCertifyPrepare(r, p)
             /\ instance_states' = [instance_states EXCEPT ![r] =
                  {q \in @ : InTail(q.inst, p.inst)} \cup {p}]
    <3>1. p \in instance_states'[r]
      BY <2>2 DEF TypeOK
    <3> QED BY <1>3, <2>2, <3>1
  <2> QED BY <1>4, <2>1, <2>2 DEF handlePrepare
<1>5. CASE Propose(r)
  <2>1. proposer[r].to_propose \in Seq(Proposal) /\ proposer[r].to_propose # << >>
    BY <1>5, LeaderTypes DEF Propose
  <2>2. /\ Head(proposer[r].to_propose) \in Proposal
        /\ handlePrepare(r, r, Head(proposer[r].to_propose))
    BY <1>5, <2>1 DEF Propose
  <2> QED BY <1>4, <2>2
<1>6. ASSUME NEW s \in Replica, PollPrepare(r, s)
      PROVE  \A n \in sent'[r].promises :
                n \in sent[r].promises \/ \E q \in instance_states'[r] : Index(q) = n
  <2>1. NextCb(r, s).p \in Proposal /\ handlePrepare(r, s, NextCb(r, s).p)
    BY <1>6, NextCbType, MessageParts DEF PollPrepare, PollCb
  <2> QED BY <1>4, <2>1
<1>7. CASE CertifyPrepare(r)
  <2>1. PICK p \in instance_states[r] : tryCertifyPrepare(r, p)
    BY <1>7 DEF CertifyPrepare
  <2>2. instance_states' = instance_states
    BY <1>7 DEF CertifyPrepare, instVars
  <2> QED BY <1>3, <2>1, <2>2
<1>8. ASSUME NEW s, handleSealView(r, s) PROVE sent'[r].promises = sent[r].promises
  BY <1>1, <1>8 DEF handleSealView, Emitted
<1>9. CASE Decide(r)
  BY <1>1, <1>9 DEF Decide, Emitted
<1> QED BY <1>2, <1>5, <1>6, <1>7, <1>8, <1>9
        DEF Step, GetSlot, AcceptRequest, PollPromise, PollPrepareCertificate,
            PollVerifiedCommit, PollCheckpointCertificate, BroadcastCheckpoint,
            ChangeView, StartView, PollCommit, PollCheckpoint, PollSealView,
            PollNewView, PollFastCommit, PollVcStateCertificate, handleCommit

LEMMA PromisedUsableStep ==
    ASSUME TypeOK, TypeOK', NEW r \in Replica, WindowsCertified(r), InCurrentView(r)',
           Step(r), err'[r] = "ok", PromisedUsable(r)
    PROVE  PromisedUsable(r)'
<1>1. ASSUME NEW n \in sent[r].promises
      PROVE  \E p \in Proposal : Index(p) = n /\ Usable(r, p.view, p.inst)'
  <2>1. PICK p \in Proposal : Index(p) = n /\ Usable(r, p.view, p.inst)
    BY DEF PromisedUsable
  <2>2. Usable(r, p.view, p.inst)'
    BY <2>1, ProposalTypes, UsableKept
  <2> QED BY <2>1, <2>2
<1>2. ASSUME NEW p \in instance_states'[r] PROVE p \in Proposal /\ Usable(r, p.view, p.inst)'
  <2>1. p \in Proposal /\ p.view = At(r)' /\ p.inst \in Instances(r)'
    BY DEF TypeOK, InCurrentView, Instances
  <2> QED BY <2>1 DEF Usable
<1>3. ASSUME NEW n \in sent'[r].promises
      PROVE  \E p \in Proposal : Index(p) = n /\ Usable(r, p.view, p.inst)'
  BY <1>1, <1>2, PromisesAreHeld
<1> QED BY <1>3 DEF PromisedUsable, Index, pack

(* Who fast commits waits for the promises of all others, and the leader    *)
(* proposed the prepare.                                                    *)
LEMMA FastCommitsUsableStep ==
    ASSUME TypeOK, NEW s \in Replica, Step(s), HeldProposed(s), NEW r \in Replica \ {s},
           ProposedUsable(r), PromisedUsable(r), OthersUsable(r)
    PROVE  \A f \in FastCommits(s)' : Usable(r, f.view, f.inst)
<1>1. ASSUME NEW p \in prepare_certifier[s].tail, AllPromised(s, p)
      PROVE  Usable(r, p.view, p.inst)
  <2>1. p \in Proposal /\ p.view \in Nat
    BY ProposalTypes DEF TypeOK, PrepareCertifier
  <2>2. CASE r = leader(p.view)
    BY <2>2 DEF HeldProposed, Proposed, ProposedUsable
  <2>3. CASE r # leader(p.view)
    <3>1. Index(p) \in sent[r].promises
      BY <1>1, <2>3 DEF AllPromised
    <3>2. PICK q \in Proposal : Index(q) = Index(p) /\ Usable(r, q.view, q.inst)
      BY <3>1 DEF PromisedUsable
    <3>3. q.view = p.view /\ q.inst = p.inst
      BY <2>1, <3>2, IndexInjective
    <3> QED BY <3>2, <3>3
  <2> QED BY <2>2, <2>3
<1>2. CASE fast_commits' = fast_commits
  <2>1. FastCommits(s)' = FastCommits(s)
    BY <1>2 DEF FastCommits
  <2> QED BY <2>1 DEF OthersUsable
<1>3. ASSUME NEW p \in prepare_certifier[s].tail, AllPromised(s, p),
             fast_commits' = [fast_commits EXCEPT ![s] =
                                Append(@, [view |-> p.view, inst |-> p.inst])]
      PROVE  \A f \in FastCommits(s)' : Usable(r, f.view, f.inst)
  <2>1. p \in Proposal
    BY DEF TypeOK, PrepareCertifier
  <2>2. PICK g \in FastCommit : g = [view |-> p.view, inst |-> p.inst]
    BY <2>1, ProposalTypes DEF FastCommit
  <2> DEFINE q == fast_commits[s]
             q2 == Append(q, g)
  <2>3. q \in Seq(FastCommit) /\ fast_commits'[s] = q2
    BY <1>3, <2>2 DEF TypeOK, FastCommit
  <2>4. /\ Len(q2) = Len(q) + 1 /\ Len(q) \in Nat
        /\ \A k \in 1 .. Len(q) : q2[k] = q[k]
        /\ q2[Len(q) + 1] = g
    BY <2>3, AppendElements
  <2> HIDE DEF q2
  <2>5. ASSUME NEW k \in 1 .. Len(q2) PROVE q2[k] \in FastCommits(s) \/ q2[k] = g
    <3>1. k \in 1 .. Len(q) \/ k = Len(q) + 1
      BY <2>4
    <3> QED BY <2>4, <3>1 DEF FastCommits
  <2>6. \A f \in FastCommits(s)' : f \in FastCommits(s) \/ f = g
    BY <2>3, <2>5 DEF FastCommits
  <2>7. g.view = p.view /\ g.inst = p.inst /\ Usable(r, p.view, p.inst)
    BY <1>1, <1>3, <2>2
  <2> QED BY <2>6, <2>7 DEF OthersUsable
<1>4. CASE PollPromise(s)
  BY <1>2, <1>3, <1>4 DEF PollPromise
<1>5. CASE \E f \in FastCommits(s)' : f \notin FastCommits(s)
  BY <1>4, <1>5, FastCommitsStep
<1>6. CASE \A f \in FastCommits(s)' : f \in FastCommits(s)
  BY <1>6 DEF OthersUsable
<1> QED BY <1>5, <1>6

LEMMA NextUsable ==
    ASSUME TypeOK, TypeOK', SealInv, SealInv', ChosenInv, UsableInv, NEW s \in Replica, Step(s)
    PROVE  UsableInv'
<1>1. ASSUME NEW r \in Replica \ {s}, err'[r] = "ok"
      PROVE  ProposedUsable(r)' /\ PromisedUsable(r)' /\ OthersUsable(r)'
  <2>1. /\ Untouched(r) /\ sent'[r] = sent[r] /\ err[r] = "ok"
    BY <1>1, StepLocal, OthersKept
  <2>2. /\ \A v, i : Usable(r, v, i) => Usable(r, v, i)'
        /\ Prepares(r)' = Prepares(r)
    BY <2>1 DEF Untouched, Usable, At, Instances, certifiedCheckpoint, Prepares, Broadcast
  <2>3. ProposedUsable(r) /\ PromisedUsable(r) /\ OthersUsable(r)
    BY <2>1 DEF UsableInv, UsableAt
  <2>4. ProposedUsable(r)'
    BY <2>2, <2>3 DEF ProposedUsable
  <2>5. PromisedUsable(r)'
    BY <2>1, <2>2, <2>3 DEF PromisedUsable, Index, pack
  <2>6. \A f \in FastCommits(s)' : Usable(r, f.view, f.inst)
    BY <2>3, FastCommitsUsableStep DEF ChosenInv, ChosenInvAt
  <2>7. \A t \in Replica \ {s} : FastCommits(t)' = FastCommits(t)
    BY FastCommitsStep
  <2>8. OthersUsable(r)'
    BY <2>2, <2>3, <2>6, <2>7 DEF OthersUsable
  <2> QED BY <2>4, <2>5, <2>8
<1>2. ASSUME err'[s] = "ok"
      PROVE  ProposedUsable(s)' /\ PromisedUsable(s)' /\ OthersUsable(s)'
  <2>1. /\ WindowsCertified(s) /\ InCurrentView(s)'
        /\ ProposedUsable(s) /\ PromisedUsable(s) /\ OthersUsable(s)
    BY <1>2, StaysOk DEF UsableInv, UsableAt, SealInv, SealInvAt
  <2>2. ProposedUsable(s)' /\ PromisedUsable(s)'
    BY <1>2, <2>1, ProposedUsableStep, PromisedUsableStep
  <2>3. ASSUME NEW t \in Replica \ {s}, NEW f \in FastCommits(t)'
        PROVE  Usable(s, f.view, f.inst)'
    <3>1. f \in FastCommits(t)
      BY FastCommitsStep
    <3>2. f.view \in Nat /\ f.inst \in Nat /\ Usable(s, f.view, f.inst)
      BY <2>1, <3>1, FastCommitType DEF OthersUsable
    <3> QED BY <1>2, <2>1, <3>2, UsableKept
  <2>4. OthersUsable(s)'
    BY <2>3 DEF OthersUsable
  <2> QED BY <2>2, <2>4
<1> QED BY <1>1, <1>2 DEF UsableInv, UsableAt

LEMMA AlwaysUsable == Spec => []UsableInv
<1>1. Init => UsableInv
  <2> SUFFICES ASSUME Init, NEW r \in Replica PROVE UsableAt(r)
    BY DEF UsableInv
  <2>1. cb[r] = << >> /\ sent[r].promises = {} /\ \A s \in Replica : fast_commits[s] = << >>
    BY DEF Init
  <2>2. Prepares(r) = {} /\ \A s \in Replica : FastCommits(s) = {}
    BY <2>1 DEF Prepares, Broadcast, FastCommits
  <2> QED BY <2>1, <2>2 DEF UsableAt, ProposedUsable, PromisedUsable, OthersUsable
<1>2. TypeOK /\ TypeOK' /\ SealInv /\ SealInv' /\ ChosenInv /\ UsableInv /\ [Next]_vars
      => UsableInv'
  <2>1. ASSUME TypeOK, TypeOK', SealInv, SealInv', ChosenInv, UsableInv, Next
        PROVE  UsableInv'
    BY <2>1, NextUsable DEF Next
  <2>2. ASSUME UsableInv, UNCHANGED vars PROVE UsableInv'
    <3>1. ASSUME NEW r \in Replica PROVE UsableAt(r)'
      <4>1. /\ err'[r] = err[r] /\ sent'[r] = sent[r] /\ Prepares(r)' = Prepares(r)
            /\ \A s \in Replica : FastCommits(s)' = FastCommits(s)
            /\ \A v, i : Usable(r, v, i) => Usable(r, v, i)'
        BY <2>2 DEF vars, Usable, At, Instances, certifiedCheckpoint, Prepares,
                    Broadcast, FastCommits
      <4>2. UsableAt(r)
        BY <2>2 DEF UsableInv
      <4> QED BY <4>1, <4>2 DEF UsableAt, ProposedUsable, PromisedUsable, OthersUsable,
                               Index, pack
    <3> QED BY <3>1 DEF UsableInv
  <2> QED BY <2>1, <2>2
<1> QED BY <1>1, <1>2, TypeCorrect, AlwaysSealed, AlwaysChosen, PTL DEF Spec

LEMMA UsableSuffices == TypeOK /\ UsableInv => FastCommitUsable
<1> SUFFICES ASSUME TypeOK, UsableInv, NEW r \in Replica, NEW s \in Replica,
                    NEW k \in polled_fast[r][s] + 1 .. Len(fast_commits[s]),
                    r # s, err[r] = "ok"
             PROVE  \/ fast_commits[s][k].inst \in Instances(r)
                    \/ fast_commits[s][k].view < At(r)
                    \/ fast_commits[s][k].inst < certifiedCheckpoint(r).low
  BY DEF FastCommitUsable
<1>1. polled_fast[r][s] \in Nat /\ Len(fast_commits[s]) \in Nat
  BY DEF TypeOK
<1>2. k \in 1 .. Len(fast_commits[s])
  BY <1>1
<1>3. fast_commits[s][k] \in FastCommits(s)
  BY <1>2 DEF FastCommits
<1> QED BY <1>3 DEF UsableInv, UsableAt, OthersUsable, Usable

(* In every view, with any number of replicas: when pollFastCommits drops a *)
(* fast commit because it has no prepare for it, the replica has sealed the *)
(* view of the fast commit or has a checkpoint above its instance.  Nobody  *)
(* waits for a fast commit that was dropped: it is sent only once everyone  *)
(* promised to certify, and a promise is given for a prepare that is held.  *)
THEOREM FastCommitsAreUsable == Spec => []FastCommitUsable
BY AlwaysUsable, TypeCorrect, UsableSuffices, PTL
=============================================================================
