---------------------------- MODULE SmrServerProofs ---------------------------
(***************************************************************************)
(* The replicas, for any number of them, any window and any number of      *)
(* requests:                                                               *)
(*   LogIsExecuted: the leader proposes the client's requests in order and *)
(*     once, and every replica executes a prefix of them;                  *)
(*   OnlyAnsweredAreDropped: a replica forgets a request only after the    *)
(*     client was answered;                                                *)
(*   MajorityIsNeverOutrun: their broadcasts (CbFlow) never run away from  *)
(*     a majority of the receivers.                                        *)
(* A batch starts after the last request of the batch before (InOrder), so *)
(* the flattened log is 1, 2, ...; a request is forgotten when one that is *)
(* ClientWindow later arrives, and the client sent that one only after the *)
(* answer (EarlierAnswered).  A majority handled what the last certificate *)
(* released (ReleasedByMajority), and the messages since fit in the tail.  *)
(***************************************************************************)
EXTENDS SmrServer, FiniteSetTheorems, SequenceTheorems, WellFoundedInduction, TLAPS

CONSTANTS CbReplica, Active, TailSize, MaxIndex
VARIABLES cb_index, can_cb_until, next_cb, acknowledged, shares, gaps
Cb == INSTANCE CbFlow WITH Replica <- CbReplica, next_index <- cb_index

Assumption ==
  /\ IsFiniteSet(Replica) /\ Leader \in Replica
  /\ Window \in Nat /\ ClientWindow \in Nat \ {0} /\ MaxBatch \in Nat

Batch == Seq(Nat)
RequestLog == [tail : Seq(Nat), accept_below : Nat, last : Nat]
Place == [next_to_decide : Nat, low : Nat, certified : Nat,
          validated : SUBSET Nat, executed : Seq(Nat)]
TypeOK ==
  /\ sent \in Nat
  /\ log \in Seq(Batch) /\ slots \in Seq(Batch)
  /\ server \in [polled : Nat, to_propose : Batch, should_repropose : BOOLEAN]
  /\ requests \in [Replica -> RequestLog]
  /\ replica \in [Replica -> Place]
  /\ acks \in SUBSET (Replica \X Nat \X Seq(Nat))

(* The last request of the first n batches. *)
End(q, n) == IF n = 0 THEN 0 ELSE q[n][Len(q[n])]
InOrder(q) ==
  \A n \in 1..Len(q) :
    /\ q[n] # << >>
    /\ \A j \in 1..Len(q[n]) : q[n][j] = End(q, n - 1) + j

ProposedInOrder ==
  /\ InOrder(log \o slots)
  /\ server.polled = End(log \o slots, Len(log \o slots))
ExecutedInOrder ==
  \A r \in Replica :
    /\ replica[r].next_to_decide <= Len(log)
    /\ replica[r].executed = [k \in 1..End(log, replica[r].next_to_decide) |-> k]
WithinWindow == Len(log) <= replica[Leader].low + Window

(* A request log keeps the last requests accepted, oldest first. *)
KeepsLast(l) ==
  /\ l.last <= sent
  /\ \A i \in 1..Len(l.tail) : l.tail[i] <= l.last
  /\ \A i \in 1..Len(l.tail), j \in 1..Len(l.tail) : i < j => l.tail[i] < l.tail[j]
RequestsKept == \A r \in Replica : KeepsLast(requests[r])
EarlierAnswered == \A k \in Nat \ {0} : k + ClientWindow <= sent => Answered(k)

Inv == /\ TypeOK /\ ProposedInOrder /\ ExecutedInOrder /\ WithinWindow
       /\ RequestsKept /\ EarlierAnswered

-----------------------------------------------------------------------------
(* Sequences *)

(* What holds of 0 and of the successor of every number it holds of. *)
LEMMA UpTo ==
  ASSUME NEW n \in Nat, NEW T, 0 \in T, \A i \in 0..n : i < n /\ i \in T => i + 1 \in T
  PROVE  \A i \in 0..n : i \in T
<1> DEFINE R == {x \in Nat \X Nat : x[1] < x[2]}
           Bad == {i \in 0..n : i \notin T}
<1>1. SUFFICES ASSUME Bad # {} PROVE FALSE
  OBVIOUS
<1>2. IsWellFoundedOn(R, Nat)
  BY NatLessThanWellFounded DEF OpToRel
<1>3. PICK i \in Bad : \A j \in Bad : <<j, i>> \notin R
  <2>1. Bad \subseteq Nat
    OBVIOUS
  <2> HIDE DEF R, Bad
  <2> QED BY <1>1, <1>2, <2>1, WFMin
<1>4. i \in 1..n /\ i - 1 \in 0..n /\ i - 1 < n
  OBVIOUS
<1>5. i - 1 \notin Bad
  <2>1. <<i - 1, i>> \in R
    BY <1>4
  <2> HIDE DEF R, Bad
  <2> QED BY <1>3, <2>1
<1> QED BY <1>4, <1>5

LEMMA EndIsNat ==
  ASSUME NEW q \in Seq(Batch), InOrder(q), NEW n \in 0..Len(q)
  PROVE  /\ End(q, n) \in Nat
         /\ n > 0 => /\ Len(q[n]) \in Nat \ {0}
                     /\ End(q, n) = End(q, n - 1) + Len(q[n])
                     /\ End(q, n - 1) \in Nat
                     /\ q[n] = [j \in 1..Len(q[n]) |-> End(q, n - 1) + j]
<1>1. \A i \in 1..Len(q) : /\ q[i] \in Seq(Nat) /\ Len(q[i]) \in Nat \ {0}
                           /\ End(q, i) = q[i][Len(q[i])] /\ End(q, i) \in Nat
  <2> TAKE i \in 1..Len(q)
  <2>1. q[i] \in Seq(Nat) /\ q[i] # << >>
    BY ElementOfSeq DEF InOrder, Batch
  <2>2. Len(q[i]) \in Nat \ {0}
    BY <2>1, EmptySeq
  <2>3. q[i][Len(q[i])] \in Nat
    BY <2>1, <2>2, ElementOfSeq
  <2> QED BY <2>1, <2>2, <2>3 DEF End
<1>2. End(q, 0) = 0
  BY DEF End
<1>3. CASE n = 0
  BY <1>2, <1>3
<1>4. CASE n > 0
  <2>1. n \in 1..Len(q) /\ n - 1 \in 0..Len(q)
    BY <1>4
  <2>2. End(q, n - 1) \in Nat
    BY <1>1, <1>2, <2>1
  <2>3. \A j \in 1..Len(q[n]) : q[n][j] = End(q, n - 1) + j
    BY <2>1 DEF InOrder
  <2>4. End(q, n) = End(q, n - 1) + Len(q[n])
    <3>1. Len(q[n]) \in 1..Len(q[n]) /\ End(q, n) = q[n][Len(q[n])]
      BY <1>1, <2>1
    <3> QED BY <2>3, <3>1
  <2>5. q[n] = [j \in 1..Len(q[n]) |-> End(q, n - 1) + j]
    <3>1. q[n] = [j \in 1..Len(q[n]) |-> q[n][j]]
      BY <1>1, <2>1
    <3> QED BY <2>3, <3>1
  <2> QED BY <1>1, <2>1, <2>2, <2>4, <2>5
<1> QED BY <1>3, <1>4

LEMMA EndGrows ==
  ASSUME NEW q \in Seq(Batch), InOrder(q), NEW n \in 0..Len(q)
  PROVE  End(q, n) <= End(q, Len(q))
<1> DEFINE T == {i \in Nat : i <= Len(q) - n => End(q, n) <= End(q, n + i)}
           m == Len(q) - n
<1>1. m \in Nat /\ 0 \in T
  <2>1. End(q, n) \in Nat
    BY EndIsNat
  <2>2. n + 0 = n /\ Len(q) \in Nat
    OBVIOUS
  <2> QED BY <2>1, <2>2
<1>2. ASSUME NEW i \in 0..m, i < m, i \in T PROVE i + 1 \in T
  <2>1. n + (i + 1) \in 0..Len(q) /\ n + (i + 1) > 0 /\ (n + (i + 1)) - 1 = n + i
    BY <1>1, <1>2
  <2>2. /\ End(q, n + (i + 1)) = End(q, n + i) + Len(q[n + (i + 1)])
        /\ Len(q[n + (i + 1)]) \in Nat /\ End(q, n + i) \in Nat
    BY <2>1, EndIsNat
  <2>3. End(q, n) \in Nat
    BY EndIsNat
  <2>4. End(q, n) <= End(q, n + i)
    BY <1>2
  <2>5. End(q, n) <= End(q, n + (i + 1))
    BY <2>2, <2>3, <2>4
  <2> QED BY <2>5
<1>3. m \in T
  <2> HIDE DEF T, m
  <2>1. \A i \in 0..m : i \in T
    BY <1>1, <1>2, UpTo
  <2> QED BY <1>1, <2>1
<1> QED BY <1>3

(* Numbers up to a, followed by the next b. *)
LEMMA ConcatRuns ==
  ASSUME NEW a \in Nat, NEW b \in Nat
  PROVE  [k \in 1..a |-> k] \o [j \in 1..b |-> a + j] = [k \in 1..a + b |-> k]
<1> DEFINE s == [k \in 1..a |-> k]
           t == [j \in 1..b |-> a + j]
           u == [k \in 1..a + b |-> k]
<1>1. s \in Seq(Nat) /\ t \in Seq(Nat) /\ u \in Seq(Nat)
  OBVIOUS
<1>2. Len(s) = a /\ Len(t) = b /\ Len(u) = a + b
  OBVIOUS
<1>3. s \o t \in Seq(Nat) /\ Len(s \o t) = Len(u)
  <2> HIDE DEF s, t, u
  <2> QED BY <1>1, <1>2, ConcatProperties
<1>4. ASSUME NEW k \in 1..Len(u) PROVE (s \o t)[k] = u[k]
  <2>1. (s \o t)[k] = IF k <= Len(s) THEN s[k] ELSE t[k - Len(s)]
    <3> HIDE DEF s, t, u
    <3>1. k \in 1..Len(s) + Len(t)
      BY <1>2, <1>4
    <3> QED BY <1>1, <3>1, ConcatProperties
  <2>2. CASE k <= Len(s)
    BY <1>2, <2>1, <2>2
  <2>3. CASE ~(k <= Len(s))
    BY <1>2, <2>1, <2>3
  <2> QED BY <2>2, <2>3
<1> HIDE DEF s, t, u
<1>5. s \o t = u
  BY <1>1, <1>3, <1>4, SeqEqual
<1> QED BY <1>5 DEF s, t, u

(* Batches in order are the requests 1, 2, ... *)
LEMMA FlattenInOrder ==
  ASSUME NEW q \in Seq(Batch), InOrder(q)
  PROVE  FlattenSeq(q) = [k \in 1..End(q, Len(q)) |-> k]
<1>1. CASE Len(q) = 0
  <2>1. q = << >> /\ End(q, 0) = 0
    BY <1>1 DEF End
  <2> QED BY <1>1, <2>1 DEF FlattenSeq
<1>2. CASE Len(q) # 0
  <2> DEFINE g == [i \in 1..Len(q) |-> [k \in 1..End(q, i) |-> k]]
             Unfolds(f) == f = [i \in 1..Len(q) |->
                                  IF i = 1 THEN q[i] ELSE f[i - 1] \o q[i]]
             f == CHOOSE h : Unfolds(h)
  <2>1. \A i \in 1..Len(q) : g[i] = IF i = 1 THEN q[i] ELSE g[i - 1] \o q[i]
    <3> TAKE i \in 1..Len(q)
    <3>1. /\ End(q, i) \in Nat /\ End(q, i - 1) \in Nat
          /\ Len(q[i]) \in Nat /\ End(q, i) = End(q, i - 1) + Len(q[i])
          /\ q[i] = [j \in 1..Len(q[i]) |-> End(q, i - 1) + j]
      BY EndIsNat
    <3>2. CASE i = 1
      <4>1. End(q, i - 1) = 0
        BY <3>2 DEF End
      <4> QED BY <3>1, <3>2, <4>1
    <3>3. CASE i # 1
      <4>1. g[i - 1] \o q[i] = g[i]
        <5> DEFINE a == End(q, i - 1)
                   b == Len(q[i])
        <5>1. g[i - 1] = [k \in 1..a |-> k] /\ g[i] = [k \in 1..a + b |-> k]
          BY <3>1, <3>3
        <5>2. a \in Nat /\ b \in Nat /\ q[i] = [j \in 1..b |-> a + j]
          BY <3>1
        <5> HIDE DEF a, b, g
        <5>3. [k \in 1..a |-> k] \o [j \in 1..b |-> a + j] = [k \in 1..a + b |-> k]
          BY <5>2, ConcatRuns
        <5> QED BY <5>1, <5>2, <5>3
      <4> QED BY <3>3, <4>1
    <3> QED BY <3>2, <3>3
  <2>2. Unfolds(g)
    <3>1. g = [i \in 1..Len(q) |-> g[i]]
      OBVIOUS
    <3> HIDE DEF g
    <3> QED BY <2>1, <3>1
  <2>3. Unfolds(f)
    <3> HIDE DEF Unfolds, g
    <3> QED BY <2>2
  <2>4. \A i \in 1..Len(q) : f[i] = IF i = 1 THEN q[i] ELSE f[i - 1] \o q[i]
    <3> HIDE DEF f
    <3> QED BY <2>3
  <2>5. FlattenSeq(q) = f[Len(q)]
    BY <1>2 DEF FlattenSeq
  <2> HIDE DEF f, Unfolds
  <2> DEFINE T == {i \in Nat : i + 1 <= Len(q) => f[i + 1] = g[i + 1]}
             m == Len(q) - 1
  <2>6. m \in Nat /\ 0 \in T
    <3>1. m \in Nat /\ 1 \in 1..Len(q)
      BY <1>2
    <3>2. f[1] = g[1]
      <4> HIDE DEF f, g
      <4> QED BY <2>1, <2>4, <3>1
    <3> HIDE DEF f, g
    <3> QED BY <3>1, <3>2
  <2>7. ASSUME NEW i \in 0..m, i < m, i \in T PROVE i + 1 \in T
    <3>1. i + 2 \in 1..Len(q) /\ i + 2 # 1 /\ (i + 2) - 1 = i + 1 /\ (i + 1) + 1 = i + 2
      BY <2>6, <2>7
    <3>2. f[i + 2] = f[i + 1] \o q[i + 2] /\ g[i + 2] = g[i + 1] \o q[i + 2]
      BY <2>1, <2>4, <3>1
    <3>3. f[i + 1] = g[i + 1]
      BY <2>7, <3>1
    <3>4. f[(i + 1) + 1] = g[(i + 1) + 1]
      <4> HIDE DEF g
      <4> QED BY <3>1, <3>2, <3>3
    <3> QED BY <2>7, <3>4
  <2>8. m \in T
    <3> HIDE DEF T, m
    <3>1. \A i \in 0..m : i \in T
      BY <2>6, <2>7, UpTo
    <3> QED BY <2>6, <3>1
  <2>9. f[Len(q)] = g[Len(q)]
    <3> HIDE DEF g
    <3> QED BY <2>6, <2>8
  <2> QED BY <1>2, <2>5, <2>9
<1> QED BY <1>1, <1>2

(* A batch that follows the last one. *)
LEMMA AppendBatch ==
  ASSUME NEW q \in Seq(Batch), InOrder(q), NEW n \in Nat \ {0},
         NEW b, b = [i \in 1..n |-> End(q, Len(q)) + i]
  PROVE  /\ b \in Batch
         /\ InOrder(Append(q, b))
         /\ End(Append(q, b), Len(q) + 1) = End(q, Len(q)) + n
<1> DEFINE e == End(q, Len(q))
           p == Append(q, b)
<1>1. e \in Nat /\ Len(q) \in Nat
  <2>1. PICK m \in 0..Len(q) : m = Len(q)
    OBVIOUS
  <2>2. End(q, m) \in Nat
    BY EndIsNat
  <2> QED BY <2>1, <2>2
<1>2. /\ b \in Seq(Nat) /\ Len(b) = n /\ b # << >>
      /\ \A i \in 1..n : b[i] = e + i
  <2>1. b = [i \in 1..n |-> e + i]
    OBVIOUS
  <2> HIDE DEF e
  <2>2. b \in Seq(Nat) /\ Len(b) = n /\ \A i \in 1..n : b[i] = e + i
    BY <1>1, <2>1
  <2> QED BY <2>2
<1>3. p \in Seq(Batch) /\ Len(p) = Len(q) + 1 /\ p[Len(q) + 1] = b
      /\ \A i \in 1..Len(q) : p[i] = q[i]
  <2> HIDE DEF e
  <2> QED BY <1>2 DEF Batch
<1>4. \A i \in 0..Len(q) : End(p, i) = End(q, i)
  BY <1>1, <1>3 DEF End
<1>5. End(p, Len(q) + 1) = e + n
  <2>1. End(p, Len(q) + 1) = b[Len(b)]
    BY <1>1, <1>3 DEF End
  <2> QED BY <1>2, <2>1
<1>6. ASSUME NEW i \in 1..Len(p)
      PROVE  p[i] # << >> /\ \A j \in 1..Len(p[i]) : p[i][j] = End(p, i - 1) + j
  <2>1. CASE i \in 1..Len(q)
    <3>1. p[i] = q[i] /\ End(p, i - 1) = End(q, i - 1)
      BY <1>3, <1>4, <2>1
    <3>2. q[i] # << >> /\ \A j \in 1..Len(q[i]) : q[i][j] = End(q, i - 1) + j
      BY <2>1 DEF InOrder
    <3> HIDE DEF p
    <3> QED BY <3>1, <3>2
  <2>2. CASE i = Len(q) + 1
    <3>1. p[i] = b /\ End(p, i - 1) = e
      BY <1>1, <1>3, <1>4, <2>2
    <3>2. \A j \in 1..Len(b) : b[j] = e + j
      <4> HIDE DEF e
      <4> QED BY <1>2
    <3> HIDE DEF p, e
    <3> QED BY <1>2, <3>1, <3>2
  <2>3. i \in 1..Len(q) \/ i = Len(q) + 1
    BY <1>1, <1>3
  <2> QED BY <2>1, <2>2, <2>3
<1> HIDE DEF e, p
<1>7. InOrder(p)
  BY <1>6 DEF InOrder
<1> QED BY <1>2, <1>5, <1>7 DEF e, p, Batch

(* The first batches of those in order are in order. *)
LEMMA PrefixInOrder ==
  ASSUME NEW p \in Seq(Batch), NEW q \in Seq(Batch), InOrder(p \o q)
  PROVE  /\ InOrder(p)
         /\ \A n \in 0..Len(p) : End(p \o q, n) = End(p, n)
<1>1. \A i \in 1..Len(p) : (p \o q)[i] = p[i]
  BY ConcatProperties
<1>2. Len(p \o q) = Len(p) + Len(q) /\ Len(p) \in Nat /\ Len(q) \in Nat
  BY ConcatProperties
<1>3. \A n \in 0..Len(p) : End(p \o q, n) = End(p, n)
  BY <1>1 DEF End
<1>4. ASSUME NEW n \in 1..Len(p)
      PROVE  p[n] # << >> /\ \A j \in 1..Len(p[n]) : p[n][j] = End(p, n - 1) + j
  <2>1. n \in 1..Len(p \o q) /\ n - 1 \in 0..Len(p)
    BY <1>2
  <2>2. (p \o q)[n] = p[n] /\ End(p \o q, n - 1) = End(p, n - 1)
    BY <1>1, <1>3, <2>1
  <2>3. /\ (p \o q)[n] # << >>
        /\ \A j \in 1..Len((p \o q)[n]) : (p \o q)[n][j] = End(p \o q, n - 1) + j
    BY <2>1 DEF InOrder
  <2> QED BY <2>2, <2>3
<1> QED BY <1>3, <1>4 DEF InOrder

(* What moves from the slots to the log stays in place. *)
LEMMA MoveBatches ==
  ASSUME NEW p \in Seq(Batch), NEW q \in Seq(Batch), NEW n \in 0..Len(q)
  PROVE  /\ p \o SubSeq(q, 1, n) \in Seq(Batch)
         /\ SubSeq(q, n + 1, Len(q)) \in Seq(Batch)
         /\ Len(p \o SubSeq(q, 1, n)) = Len(p) + n
         /\ (p \o SubSeq(q, 1, n)) \o SubSeq(q, n + 1, Len(q)) = p \o q
<1> DEFINE a == SubSeq(q, 1, n)
           b == SubSeq(q, n + 1, Len(q))
<1>1. Len(q) \in Nat /\ n \in Int /\ n + 1 \in Int
  OBVIOUS
<1>2. \A i \in 1..Len(q) : q[i] \in Batch
  BY ElementOfSeq
<1>3. a \in Seq(Batch) /\ Len(a) = n
  <2>1. \A i \in 1..n : q[i] \in Batch
    BY <1>2
  <2> QED BY <1>1, <2>1, SubSeqProperties
<1>4. b \in Seq(Batch)
  <2>1. \A i \in (n + 1)..Len(q) : q[i] \in Batch
    BY <1>2
  <2> QED BY <1>1, <2>1, SubSeqProperties
<1>5. a \o b = q
  <2>1. 1 \in 1..(Len(q) + 1) /\ n \in (1 - 1)..Len(q) /\ Len(q) \in n..Len(q)
    BY <1>1
  <2>2. a \o b = SubSeq(q, 1, Len(q))
    BY <2>1, ConcatAdjacentSubSeq
  <2> QED BY <2>2, SubSeqFull
<1> HIDE DEF a, b
<1>6. (p \o a) \o b = p \o (a \o b)
  <2>1. p \in Seq(Batch) /\ a \in Seq(Batch) /\ b \in Seq(Batch)
    BY <1>3, <1>4
  <2> QED BY ONLY SMTT(20), <2>1, ConcatAssociative
<1>7. p \o a \in Seq(Batch) /\ Len(p \o a) = Len(p) + n
  BY <1>3, ConcatProperties
<1> QED BY <1>3, <1>4, <1>5, <1>6, <1>7 DEF a, b
-----------------------------------------------------------------------------
(* The request log of a replica *)

(* A non-empty set of numbers has a smallest. *)
LEMMA Smallest ==
  ASSUME NEW S \in SUBSET Nat, S # {}
  PROVE  \E i \in S : \A j \in S : i <= j
<1> DEFINE R == {x \in Nat \X Nat : x[1] < x[2]}
<1>1. IsWellFoundedOn(R, Nat)
  BY NatLessThanWellFounded DEF OpToRel
<1>2. PICK i \in S : \A j \in S : <<j, i>> \notin R
  <2> HIDE DEF R
  <2> QED BY <1>1, WFMin
<1>3. \A j \in S : ~(j < i)
  BY <1>2
<1> QED BY <1>3

(* One request more is kept, and what it displaces is a window older. *)
LEMMA AddKeeps ==
  ASSUME Assumption, sent \in Nat, NEW l \in RequestLog, KeepsLast(l),
         NEW k \in Nat, l.last < k, k <= sent
  PROVE  /\ addRequest(l, k) \in RequestLog /\ KeepsLast(addRequest(l, k))
         /\ \A x \in Nat : Contains(l.tail, x) =>
              Contains(addRequest(l, k).tail, x) \/ x + ClientWindow <= sent
<1> DEFINE t == l.tail
           u == RoomFor(t, k)
           m == addRequest(l, k)
<1>1. t \in Seq(Nat) /\ l.accept_below \in Nat /\ l.last \in Nat /\ Len(t) \in Nat
  BY DEF RequestLog
<1>2. ClientWindow \in Nat \ {0}
  BY DEF Assumption
<1>3. /\ \A i \in 1..Len(t) : t[i] <= l.last
      /\ \A i \in 1..Len(t), j \in 1..Len(t) : i < j => t[i] < t[j]
  BY DEF KeepsLast
<1>4. \A i \in 1..Len(t) : t[i] \in Nat
  BY <1>1, ElementOfSeq
<1> DEFINE kept == {i \in 1..Len(t) + 1 : i <= Len(t) => Recent(t[i], k)}
           first == CHOOSE i \in kept : \A j \in kept : i <= j
           d == first - 1
           old == SubSeq(t, first, Len(t))
<1>5. first \in kept /\ \A j \in kept : first <= j
  <2>1. kept \in SUBSET Nat /\ Len(t) + 1 \in kept
    BY <1>1
  <2> HIDE DEF kept
  <2>2. \E i \in kept : \A j \in kept : i <= j
    BY <2>1, Smallest
  <2> QED BY <2>2
<1>6. first \in 1..Len(t) + 1
  <2> HIDE DEF first
  <2> QED BY <1>5
<1>15. \A i \in 1..Len(t) : i < first => t[i] + ClientWindow <= k
  <2> HIDE DEF first
  <2> TAKE i \in 1..Len(t)
  <2> HAVE i < first
  <2>1. i \notin kept
    BY <1>1, <1>5, <1>6
  <2>2. ~Recent(t[i], k)
    BY <1>1, <2>1
  <2> QED BY <1>2, <1>4, <2>2 DEF Recent
<1>16. u = Append(old, k)
  BY DEF RoomFor
<1> HIDE DEF kept, first
<1>17. /\ old \in Seq(Nat) /\ Len(old) = Len(t) - d
       /\ \A i \in 1..Len(old) : old[i] = t[i + d]
  <2>1. \A i \in first..Len(t) : t[i] \in Nat
    BY <1>4, <1>6
  <2>2. first \in Int /\ Len(t) \in Int
    BY <1>1, <1>6
  <2>3. /\ old \in Seq(Nat)
        /\ Len(old) = IF first <= Len(t) THEN Len(t) - first + 1 ELSE 0
        /\ \A i \in 1 .. Len(t) - first + 1 : old[i] = t[first + i - 1]
    BY <2>1, <2>2, SubSeqProperties
  <2> HIDE DEF t, old
  <2> QED BY <1>1, <1>6, <2>3
<1> HIDE DEF old
<1>18. /\ u \in Seq(Nat) /\ Len(u) = Len(t) - d + 1 /\ d \in 0..Len(t)
       /\ Len(u) \in Nat /\ u[Len(u)] = k
       /\ \A i \in 1..(Len(u) - 1) : i + d \in 1..Len(t) /\ u[i] = t[i + d]
  <2>1. /\ u \in Seq(Nat) /\ Len(u) = Len(old) + 1 /\ u[Len(old) + 1] = k
        /\ \A i \in 1..Len(old) : u[i] = old[i]
    <3> HIDE DEF u
    <3> QED BY <1>16, <1>17, AppendProperties
  <2>2. d \in 0..Len(t)
    BY <1>1, <1>6
  <2>3. PICK n \in Nat : n = Len(t)
    BY <1>1
  <2>4. PICK e \in 0..n : e = d
    BY <2>2, <2>3
  <2>5. Len(old) = n - e
    BY <1>17, <2>3, <2>4
  <2> HIDE DEF t, u, d
  <2>6. Len(u) = n - e + 1 /\ Len(u) \in Nat /\ u[Len(u)] = k
    BY <2>1, <2>5
  <2>7. \A i \in 1..(Len(u) - 1) : i \in 1..Len(old) /\ i + e \in 1..n
    BY <2>5, <2>6
  <2>8. \A i \in 1..(Len(u) - 1) : u[i] = t[i + d]
    BY <1>17, <2>1, <2>7
  <2> QED BY <2>1, <2>2, <2>3, <2>4, <2>6, <2>7, <2>8
<1> HIDE DEF u, d
<1>7. CASE l.accept_below # None /\ k >= l.accept_below
  <2>1. m = [l EXCEPT !.last = k]
    BY <1>7 DEF addRequest
  <2>2. m \in RequestLog /\ m.tail = t /\ m.last = k
    BY <2>1 DEF RequestLog
  <2>3. KeepsLast(m)
    <3>1. \A i \in 1..Len(t) : t[i] <= k
      BY <1>1, <1>3, <1>4
    <3> HIDE DEF m, t
    <3> QED BY <1>3, <2>2, <3>1 DEF KeepsLast
  <2> QED BY <2>2, <2>3
<1>8. CASE ~(l.accept_below # None /\ k >= l.accept_below)
  <2>1. m = [tail |-> u, accept_below |-> k + ClientWindow, last |-> k]
    BY <1>8 DEF addRequest, u
  <2>2. m \in RequestLog /\ m.tail = u /\ m.last = k
    BY <1>2, <1>18, <2>1 DEF RequestLog
  <2>3. \A i \in 1..Len(u) : u[i] <= k /\ (i < Len(u) => u[i] < k)
    <3> TAKE i \in 1..Len(u)
    <3>1. CASE i = Len(u)
      BY <1>18, <3>1
    <3>2. CASE i # Len(u)
      <4>1. i \in 1..(Len(u) - 1)
        <5>1. Len(u) \in Nat
          BY <1>18
        <5> HIDE DEF t
        <5> QED BY <3>2, <5>1
      <4>2. u[i] \in Nat /\ u[i] <= l.last
        BY <1>3, <1>4, <1>18, <4>1
      <4> QED BY <1>1, <4>2
    <3> QED BY <3>1, <3>2
  <2>4. ASSUME NEW i \in 1..Len(u), NEW j \in 1..Len(u), i < j PROVE u[i] < u[j]
    <3>1. CASE j = Len(u)
      BY <1>18, <2>3, <2>4, <3>1
    <3>2. CASE j # Len(u)
      <4>1. i \in 1..(Len(u) - 1) /\ j \in 1..(Len(u) - 1)
        <5>1. Len(u) \in Nat
          BY <1>18
        <5> HIDE DEF t
        <5> QED BY <2>4, <3>2, <5>1
      <4>2. i + d \in 1..Len(t) /\ j + d \in 1..Len(t) /\ i + d < j + d
        BY <1>18, <2>4, <4>1
      <4>3. t[i + d] < t[j + d]
        BY <1>3, <4>2
      <4>4. u[i] = t[i + d] /\ u[j] = t[j + d]
        BY <1>18, <4>1
      <4> QED BY <4>3, <4>4
    <3> QED BY <3>1, <3>2
  <2>5. KeepsLast(m)
    <3> HIDE DEF m
    <3> QED BY <2>2, <2>3, <2>4 DEF KeepsLast
  <2>6. ASSUME NEW x \in Nat, Contains(t, x)
        PROVE  Contains(u, x) \/ x + ClientWindow <= sent
    <3>1. PICK i \in 1..Len(t) : t[i] = x
      BY <2>6 DEF Contains
    <3>2. CASE i > d
      <4>1. i - d \in 1..(Len(u) - 1) /\ (i - d) + d = i /\ i - d \in 1..Len(u)
        BY <1>1, <1>18, <3>2
      <4>2. u[i - d] = x
        BY <1>18, <3>1, <4>1
      <4> QED BY <4>1, <4>2 DEF Contains
    <3>3. CASE ~(i > d)
      <4>1. i < first
        BY <1>6, <3>3 DEF d
      <4> QED BY <1>2, <1>15, <3>1, <4>1
    <3> QED BY <3>2, <3>3
  <2> QED BY <2>2, <2>5, <2>6
<1> QED BY <1>7, <1>8

(* Any number of requests more. *)
LEMMA PollKeeps ==
  ASSUME Assumption, sent \in Nat, NEW r, requests[r] \in RequestLog,
         KeepsLast(requests[r]), NEW n \in Nat
  PROVE  /\ pollClientRequests(r, n) \in RequestLog
         /\ KeepsLast(pollClientRequests(r, n))
         /\ \A x \in Nat : Contains(requests[r].tail, x) =>
              Contains(pollClientRequests(r, n).tail, x) \/ x + ClientWindow <= sent
<1> DEFINE Step(l) == IF l.last = sent THEN l ELSE addRequest(l, NextReceived(l))
           After(f, m) == f = [i \in 0..m |->
                               IF i = 0 THEN requests[r] ELSE Step(f[i - 1])]
           f == CHOOSE h : After(h, n)
           Exists == {m \in Nat : \E h : After(h, m)}
           Kept(l) == /\ l \in RequestLog /\ KeepsLast(l)
                      /\ \A x \in Nat : Contains(requests[r].tail, x) =>
                           Contains(l.tail, x) \/ x + ClientWindow <= sent
           T == {m \in Nat : m <= n => Kept(f[m])}
<1>1. pollClientRequests(r, n) = f[n]
  BY DEF pollClientRequests
<1>2. 0 \in Exists
  <2>1. After([i \in 0..0 |-> requests[r]], 0)
    OBVIOUS
  <2> QED BY <2>1
<1>3. ASSUME NEW m \in 0..n, m \in Exists PROVE m + 1 \in Exists
  <2>1. PICK h : After(h, m)
    BY <1>3
  <2> DEFINE g == [i \in 0..(m + 1) |-> IF i = m + 1 THEN Step(h[m]) ELSE h[i]]
  <2>2. ASSUME NEW i \in 0..(m + 1)
        PROVE  g[i] = IF i = 0 THEN requests[r] ELSE Step(g[i - 1])
    <3> HIDE DEF Step
    <3>1. \A j \in 0..m : h[j] = IF j = 0 THEN requests[r] ELSE Step(h[j - 1])
      BY <2>1
    <3>2. CASE i = m + 1
      BY <3>2
    <3>3. CASE i # m + 1
      BY <3>1, <3>3
    <3> QED BY <3>2, <3>3
  <2>3. After(g, m + 1)
    <3>1. g = [i \in 0..(m + 1) |-> g[i]]
      OBVIOUS
    <3> HIDE DEF g, Step
    <3> QED BY <2>2, <3>1
  <2> HIDE DEF After, g
  <2> QED BY <2>3
<1>4. After(f, n)
  <2>1. n \in Exists
    <3> HIDE DEF Exists
    <3> QED BY <1>2, <1>3, UpTo
  <2> HIDE DEF After
  <2> QED BY <2>1
<1>5. f[0] = requests[r] /\ \A m \in 0..n : m < n => f[m + 1] = Step(f[m])
  <2> HIDE DEF f, Step
  <2> QED BY <1>4
<1> HIDE DEF f, Step
<1>6. 0 \in T
  BY <1>5
<1>7. ASSUME NEW m \in 0..n, m < n, m \in T PROVE m + 1 \in T
  <2>1. Kept(f[m])
    BY <1>7
  <2> DEFINE l == f[m]
  <2>2. Kept(Step(l))
    <3> HIDE DEF l
    <3>1. l \in RequestLog /\ KeepsLast(l) /\ l.last \in Nat
      BY <2>1 DEF RequestLog, l
    <3>2. CASE l.last = sent
      BY <2>1, <3>2 DEF Step, l
    <3>3. CASE l.last # sent
      <4> DEFINE k == NextReceived(l)
      <4>1. l.last <= sent /\ ClientWindow \in Nat \ {0}
        BY <3>1 DEF KeepsLast, Assumption
      <4>2. k \in Nat /\ l.last < k /\ k <= sent
        BY <3>1, <3>3, <4>1 DEF NextReceived
      <4>3. Step(l) = addRequest(l, k)
        BY <3>3 DEF Step
      <4> HIDE DEF k
      <4>4. /\ addRequest(l, k) \in RequestLog /\ KeepsLast(addRequest(l, k))
            /\ \A x \in Nat : Contains(l.tail, x) =>
                 Contains(addRequest(l, k).tail, x) \/ x + ClientWindow <= sent
        BY <3>1, <4>2, AddKeeps
      <4>5. \A x \in Nat : Contains(requests[r].tail, x) =>
              Contains(l.tail, x) \/ x + ClientWindow <= sent
        BY <2>1 DEF l
      <4> QED BY <4>3, <4>4, <4>5
    <3> QED BY <3>2, <3>3
  <2>3. Kept(f[m + 1])
    BY <1>5, <1>7, <2>2
  <2> HIDE DEF Kept
  <2> QED BY <2>3
<1>8. n \in T
  <2> HIDE DEF T
  <2> QED BY <1>6, <1>7, UpTo
<1> HIDE DEF Kept
<1>9. Kept(f[n])
  BY <1>8
<1> QED BY <1>1, <1>9 DEF Kept
-----------------------------------------------------------------------------
(* The invariant *)

(* What the leader takes from the RPC layer goes to the end of its slots. *)
LEMMA PollInOrder ==
  ASSUME Assumption, TypeOK, ProposedInOrder,
         NEW logs, NEW p, p = pollProposable(logs)
  PROVE  /\ p.slots \in Seq(Batch)
         /\ p.server \in [polled : Nat, to_propose : Batch,
                          should_repropose : BOOLEAN]
         /\ InOrder(log \o p.slots)
         /\ p.server.polled = End(log \o p.slots, Len(log \o p.slots))
<1> DEFINE n == Cardinality(Proposable(logs))
           q == log \o slots
<1>1. /\ log \in Seq(Batch) /\ slots \in Seq(Batch) /\ server.polled \in Nat
      /\ server \in [polled : Nat, to_propose : Batch, should_repropose : BOOLEAN]
  BY DEF TypeOK
<1>2. n \in Nat
  <2>1. MaxBatch \in Nat
    BY DEF Assumption
  <2>2. IsFiniteSet(server.polled + 1..server.polled + MaxBatch)
    BY <1>1, <2>1, FS_Interval
  <2>3. IsFiniteSet(Proposable(logs))
    BY <2>2, FS_Subset DEF Proposable
  <2> QED BY <2>3, FS_CardinalityType
<1>3. q \in Seq(Batch) /\ InOrder(q) /\ server.polled = End(q, Len(q))
  BY <1>1, ConcatProperties DEF ProposedInOrder
<1>4. CASE server.should_repropose \/ n = 0
  <2>1. p.slots = slots /\ p.server = server
    BY <1>4 DEF pollProposable
  <2> QED BY <1>1, <1>3, <2>1
<1>5. CASE ~(server.should_repropose \/ n = 0)
  <2> DEFINE b == Batched(n)
  <2>1. /\ p.slots = Append(slots, b)
        /\ p.server = [server EXCEPT !.polled = @ + n, !.to_propose = b]
    BY <1>5 DEF pollProposable
  <2>2. b = [i \in 1..n |-> End(q, Len(q)) + i]
    BY <1>3 DEF Batched
  <2> HIDE DEF b
  <2>3. b \in Batch /\ InOrder(Append(q, b))
        /\ End(Append(q, b), Len(q) + 1) = End(q, Len(q)) + n
    <3>1. n \in Nat \ {0}
      BY <1>2, <1>5
    <3> HIDE DEF n, q
    <3> QED BY <1>3, <2>2, <3>1, AppendBatch
  <2>4. Append(slots, b) \in Seq(Batch)
    BY <1>1, <2>3, AppendProperties
  <2>5. log \o Append(slots, b) = Append(q, b)
    <3> HIDE DEF n
    <3> QED BY <1>1, <2>3
  <2>6. Len(Append(q, b)) = Len(q) + 1
    BY <1>3, <2>3, AppendProperties
  <2>7. /\ p.server.polled = server.polled + n
        /\ p.server \in [polled : Nat, to_propose : Batch,
                         should_repropose : BOOLEAN]
    <3> HIDE DEF n
    <3>1. p.server = [polled |-> server.polled + n, to_propose |-> b,
                      should_repropose |-> server.should_repropose]
      BY <1>1, <2>1
    <3>2. server.polled + n \in Nat /\ server.should_repropose \in BOOLEAN
      BY <1>1, <1>2
    <3> QED BY <2>3, <3>1, <3>2
  <2> HIDE DEF n, q
  <2> QED BY <1>3, <2>1, <2>3, <2>4, <2>5, <2>6, <2>7
<1> QED BY <1>4, <1>5

(* Proposing moves batches from the slots to the log, up to the window. *)
LEMMA ProposeInOrder ==
  ASSUME Assumption, TypeOK, ProposedInOrder, WithinWindow,
         NEW logs, NEW low \in Nat, replica[Leader].low <= low,
         Propose(pollProposable(logs), low)
  PROVE  /\ log' \in Seq(Batch) /\ slots' \in Seq(Batch)
         /\ server' \in [polled : Nat, to_propose : Batch,
                         should_repropose : BOOLEAN]
         /\ ProposedInOrder'
         /\ Len(log) <= Len(log') /\ Len(log') <= low + Window
         /\ InOrder(log) /\ \A n \in 0..Len(log) : End(log', n) = End(log, n)
<1> DEFINE p == pollProposable(logs)
           n == IF low + Window - Len(log) < Len(p.slots)
                THEN low + Window - Len(log) ELSE Len(p.slots)
           a == SubSeq(p.slots, 1, n)
           b == SubSeq(p.slots, n + 1, Len(p.slots))
<1>1. /\ log' = log \o a /\ slots' = b
      /\ server' = IF p.slots = << >> THEN p.server
                   ELSE [p.server EXCEPT !.should_repropose = n < Len(p.slots)]
  BY DEF Propose
<1>2. /\ p.slots \in Seq(Batch)
      /\ p.server \in [polled : Nat, to_propose : Batch, should_repropose : BOOLEAN]
      /\ InOrder(log \o p.slots)
      /\ p.server.polled = End(log \o p.slots, Len(log \o p.slots))
  BY PollInOrder
<1> HIDE DEF p
<1>3. log \in Seq(Batch) /\ Len(log) \in Nat /\ Len(p.slots) \in Nat
      /\ Window \in Nat /\ replica[Leader].low \in Nat
  BY <1>2 DEF TypeOK, Place, Assumption
<1>4. n \in 0..Len(p.slots) /\ Len(log) + n <= low + Window
  BY <1>3 DEF WithinWindow
<1>5. /\ log \o a \in Seq(Batch) /\ b \in Seq(Batch)
      /\ Len(log \o a) = Len(log) + n /\ (log \o a) \o b = log \o p.slots
  <2> HIDE DEF n
  <2> QED BY <1>2, <1>3, <1>4, MoveBatches
<1> HIDE DEF n, a, b
<1>6. /\ server' \in [polled : Nat, to_propose : Batch, should_repropose : BOOLEAN]
      /\ server'.polled = p.server.polled
  <2>1. CASE p.slots = << >>
    BY <1>1, <1>2, <2>1
  <2>2. CASE p.slots # << >>
    <3> DEFINE v == n < Len(p.slots)
    <3>1. server' = [p.server EXCEPT !.should_repropose = v] /\ v \in BOOLEAN
      BY <1>1, <2>2
    <3> HIDE DEF v
    <3> QED BY <1>2, <3>1
  <2> QED BY <2>1, <2>2
<1>7. ProposedInOrder'
  BY <1>1, <1>2, <1>5, <1>6 DEF ProposedInOrder
<1>8. /\ InOrder(log \o a)
  BY <1>2, <1>5, PrefixInOrder
<1>9. a \in Seq(Batch)
  <2>1. \A i \in 1..n : p.slots[i] \in Batch
    BY <1>2, <1>4, ElementOfSeq
  <2> QED BY <1>2, <1>4, <2>1, SubSeqProperties DEF a
<1>10. InOrder(log) /\ \A m \in 0..Len(log) : End(log \o a, m) = End(log, m)
  BY <1>3, <1>8, <1>9, PrefixInOrder
<1> QED BY <1>1, <1>3, <1>4, <1>5, <1>6, <1>7, <1>10

(* A tick changes neither what is executed nor where the replica is. *)
LEMMA TickedPlace ==
  ASSUME TypeOK, NEW r \in Replica, NEW cert \in Certified \cup {0}
  PROVE  /\ Ticked(r, cert) \in Place
         /\ Ticked(r, cert).next_to_decide = replica[r].next_to_decide
         /\ Ticked(r, cert).executed = replica[r].executed
         /\ replica[r].low <= Ticked(r, cert).low
<1>1. cert \in Nat
  <2>1. \A a \in acks : a[2] \in Nat
    BY DEF TypeOK
  <2>2. \A c \in Certified : \E a \in acks : c = a[2]
    BY DEF Certified
  <2> HIDE DEF Certified
  <2> QED BY <2>1, <2>2
<1>2. replica[r] \in Place
  BY DEF TypeOK
<1> DEFINE known == replica[r].certified
           new == IF cert > known THEN cert ELSE known
           move == new > replica[r].low /\ (WithSlack(r) \/ Len(log) > High(r))
           valid == {i \in 1..Len(log) : isValid(r, log[i])}
<1>3. new \in Nat /\ valid \subseteq Nat
  BY <1>1, <1>2 DEF Place
<1>4. Ticked(r, cert) = [replica[r] EXCEPT
         !.certified = new,
         !.low = IF move THEN new ELSE @,
         !.validated = @ \cup valid]
  BY DEF Ticked
<1>5. move => new > replica[r].low
  OBVIOUS
<1> DEFINE low == IF move THEN new ELSE replica[r].low
           seen == replica[r].validated \cup valid
<1>6. Ticked(r, cert) = [replica[r] EXCEPT
         !.certified = new, !.low = low, !.validated = seen]
  BY <1>2, <1>4 DEF Place
<1>7. low \in Nat /\ replica[r].low <= low /\ seen \subseteq Nat
  <2> HIDE DEF new, move, valid
  <2>1. replica[r].low \in Nat /\ replica[r].validated \subseteq Nat
    BY <1>2 DEF Place
  <2>2. low \in Nat /\ replica[r].low <= low
    <3> HIDE DEF valid
    <3>1. CASE move
      <4>1. low = new /\ new > replica[r].low
        BY <1>5, <3>1
      <4> HIDE DEF low
      <4> QED BY <1>3, <2>1, <4>1
    <3>2. CASE ~move
      <4>1. low = replica[r].low
        BY <3>2
      <4> HIDE DEF low
      <4> QED BY <2>1, <4>1
    <3> QED BY <3>1, <3>2
  <2> QED BY <1>3, <2>1, <2>2
<1> HIDE DEF new, move, valid, low, seen
<1>8. Ticked(r, cert) = [next_to_decide |-> replica[r].next_to_decide,
         low |-> low, certified |-> new, validated |-> seen,
         executed |-> replica[r].executed]
  BY <1>2, <1>6 DEF Place
<1> QED BY <1>2, <1>3, <1>7, <1>8 DEF Place
LEMMA InitInv == Assumption /\ Init => Inv
<1> SUFFICES ASSUME Assumption, Init PROVE Inv
  OBVIOUS
<1>1. Window \in Nat /\ ClientWindow \in Nat \ {0} /\ Leader \in Replica
  BY DEF Assumption
<1>2. /\ sent = 0 /\ log = << >> /\ slots = << >> /\ acks = {}
      /\ server = [polled |-> 0, to_propose |-> << >>, should_repropose |-> FALSE]
      /\ requests = [r \in Replica |->
           [tail |-> << >>, accept_below |-> 0, last |-> 0]]
      /\ replica = [r \in Replica |->
           [next_to_decide |-> 0, low |-> 0, certified |-> 0, validated |-> {},
            executed |-> << >>]]
  BY DEF Init, None
<1>3. << >> \in Seq(Batch) /\ << >> \in Batch /\ << >> \in Seq(Nat)
  BY DEF Batch
<1>4. TypeOK
  BY <1>2, <1>3 DEF TypeOK, RequestLog, Place
<1>5. ProposedInOrder
  <2>1. log \o slots = << >> /\ Len(<< >>) = 0
    BY <1>2
  <2> QED BY <1>2, <2>1 DEF ProposedInOrder, InOrder, End
<1>6. ExecutedInOrder
  BY <1>2 DEF ExecutedInOrder, End
<1>7. WithinWindow
  BY <1>1, <1>2 DEF WithinWindow
<1>8. RequestsKept
  BY <1>1, <1>2 DEF RequestsKept, KeepsLast
<1>9. EarlierAnswered
  BY <1>1, <1>2 DEF EarlierAnswered
<1> QED BY <1>4, <1>5, <1>6, <1>7, <1>8, <1>9 DEF Inv

(* The client's window: what it sends, it sends after the answer to the    *)
(* request a window before.                                                *)
LEMMA ClientSendsInv == Assumption /\ Inv /\ ClientSends => Inv'
<1> SUFFICES ASSUME Assumption, Inv, ClientSends PROVE Inv'
  OBVIOUS
<1>1. /\ sent < ClientWindow \/ Answered(sent + 1 - ClientWindow)
      /\ sent' = sent + 1 /\ sent \in Nat /\ ClientWindow \in Nat \ {0}
      /\ UNCHANGED <<log, slots, server, requests, replica, acks>>
  BY DEF ClientSends, Assumption, Inv, TypeOK
<1>2. TypeOK'
  BY <1>1 DEF Inv, TypeOK
<1>3. ProposedInOrder' /\ ExecutedInOrder' /\ WithinWindow'
  <2>1. ProposedInOrder'
    BY <1>1 DEF Inv, ProposedInOrder
  <2>2. ExecutedInOrder'
    BY <1>1 DEF Inv, ExecutedInOrder
  <2>3. WithinWindow'
    BY <1>1 DEF Inv, WithinWindow
  <2> QED BY <2>1, <2>2, <2>3
<1>4. RequestsKept'
  <2>1. \A r \in Replica : requests[r].last \in Nat /\ KeepsLast(requests[r])
    BY DEF Inv, TypeOK, RequestsKept, RequestLog
  <2> QED BY <1>1, <2>1 DEF RequestsKept, KeepsLast
<1>5. EarlierAnswered'
  <2>1. SUFFICES ASSUME NEW k \in Nat \ {0}, k + ClientWindow <= sent + 1
                 PROVE  Answered(k)
    BY <1>1 DEF EarlierAnswered, Answered
  <2>2. CASE k + ClientWindow <= sent
    BY <2>2 DEF Inv, EarlierAnswered
  <2>3. CASE ~(k + ClientWindow <= sent)
    <3>1. k = sent + 1 - ClientWindow /\ ~(sent < ClientWindow)
      BY <1>1, <2>1, <2>3
    <3> QED BY <1>1, <3>1
  <2> QED BY <2>2, <2>3
<1> QED BY <1>2, <1>3, <1>4, <1>5 DEF Inv

(* Receiving, and proposing to consensus. *)
LEMMA TickInv ==
  ASSUME Assumption, Inv, NEW r \in Replica,
         NEW n \in 0..(sent - requests[r].last), Tick(r, n)
  PROVE  Inv'
<1>1. PICK cert \in Certified \cup {0} :
        /\ replica' = [replica EXCEPT ![r] = Ticked(r, cert)]
        /\ IF r = Leader THEN Propose(pollProposable(requests'), replica'[r].low)
           ELSE UNCHANGED <<log, slots, server>>
  BY DEF Tick
<1>2. /\ requests' = [requests EXCEPT ![r] = pollClientRequests(r, n)]
      /\ sent' = sent /\ acks' = acks
  BY DEF Tick
<1>3. TypeOK /\ ProposedInOrder /\ ExecutedInOrder /\ WithinWindow
      /\ RequestsKept /\ EarlierAnswered
  BY DEF Inv
<1>4. sent \in Nat /\ n \in Nat /\ requests \in [Replica -> RequestLog]
      /\ replica \in [Replica -> Place] /\ log \in Seq(Batch) /\ slots \in Seq(Batch)
  BY <1>3 DEF TypeOK
<1>5. /\ Ticked(r, cert) \in Place
      /\ Ticked(r, cert).next_to_decide = replica[r].next_to_decide
      /\ Ticked(r, cert).executed = replica[r].executed
      /\ replica[r].low <= Ticked(r, cert).low
  BY <1>3, TickedPlace
<1>6. /\ replica' \in [Replica -> Place]
      /\ \A q \in Replica :
           /\ replica'[q].next_to_decide = replica[q].next_to_decide
           /\ replica'[q].executed = replica[q].executed
           /\ replica[q].low <= replica'[q].low
  <2>1. \A q \in Replica : replica'[q] = IF q = r THEN Ticked(r, cert) ELSE replica[q]
    BY <1>1, <1>4
  <2>2. \A q \in Replica : replica[q].low \in Nat
    BY <1>4 DEF Place
  <2>3. replica' \in [Replica -> Place]
    BY <1>1, <1>4, <1>5
  <2> QED BY <1>5, <2>1, <2>2, <2>3
<1>7. /\ log' \in Seq(Batch) /\ slots' \in Seq(Batch)
      /\ server' \in [polled : Nat, to_propose : Batch, should_repropose : BOOLEAN]
      /\ ProposedInOrder' /\ WithinWindow'
      /\ Len(log) <= Len(log')
      /\ \A m \in 0..Len(log) : End(log', m) = End(log, m)
  <2>1. CASE r = Leader
    <3>1. Propose(pollProposable(requests'), replica'[r].low)
      BY <1>1, <2>1
    <3>2. replica'[r].low \in Nat /\ replica[Leader].low <= replica'[r].low
      BY <1>6, <2>1 DEF Place
    <3> DEFINE logs == requests'
               low == replica'[r].low
    <3> HIDE DEF logs, low
    <3>3. /\ log' \in Seq(Batch) /\ slots' \in Seq(Batch)
          /\ server' \in [polled : Nat, to_propose : Batch,
                          should_repropose : BOOLEAN]
          /\ ProposedInOrder'
          /\ Len(log) <= Len(log') /\ Len(log') <= low + Window
          /\ InOrder(log) /\ \A m \in 0..Len(log) : End(log', m) = End(log, m)
      <4>1. Propose(pollProposable(logs), low)
        BY <3>1 DEF logs, low
      <4>2. low \in Nat /\ replica[Leader].low <= low
        BY <3>2 DEF low
      <4> QED BY <1>3, <4>1, <4>2, ProposeInOrder
    <3>4. WithinWindow'
      BY <2>1, <3>3 DEF WithinWindow, low
    <3> QED BY <3>3, <3>4
  <2>2. CASE r # Leader
    <3>1. log' = log /\ slots' = slots /\ server' = server
      BY <1>1, <2>2
    <3>2. ProposedInOrder'
      BY <1>3, <3>1 DEF ProposedInOrder
    <3>3. WithinWindow'
      <4>1. Leader \in Replica
        BY DEF Assumption
      <4>2. replica'[Leader] = replica[Leader]
        BY <1>1, <1>4, <2>2, <4>1
      <4> QED BY <1>3, <3>1, <4>2 DEF WithinWindow
    <3>4. Len(log) <= Len(log')
      BY <1>4, <3>1
    <3>5. server' \in [polled : Nat, to_propose : Batch, should_repropose : BOOLEAN]
      BY <1>3, <3>1 DEF TypeOK
    <3> QED BY <1>4, <3>1, <3>2, <3>3, <3>4, <3>5
  <2> QED BY <2>1, <2>2
<1>8. pollClientRequests(r, n) \in RequestLog /\ KeepsLast(pollClientRequests(r, n))
  <2>1. requests[r] \in RequestLog /\ KeepsLast(requests[r])
    BY <1>3, <1>4 DEF RequestsKept
  <2> QED BY <1>4, <2>1, PollKeeps
<1>9. requests' \in [Replica -> RequestLog]
  BY <1>2, <1>4, <1>8
<1>10. TypeOK'
  BY <1>2, <1>3, <1>6, <1>7, <1>9 DEF TypeOK
<1>11. ExecutedInOrder'
  <2>1. ASSUME NEW q \in Replica
        PROVE  /\ replica'[q].next_to_decide <= Len(log')
               /\ replica'[q].executed
                    = [k \in 1..End(log', replica'[q].next_to_decide) |-> k]
    <3> DEFINE m == replica[q].next_to_decide
    <3>1. m \in Nat /\ m <= Len(log) /\ replica[q].executed = [k \in 1..End(log, m) |-> k]
      BY <1>3, <1>4 DEF ExecutedInOrder, Place
    <3>2. replica'[q].next_to_decide = m /\ replica'[q].executed = replica[q].executed
      BY <1>6
    <3> HIDE DEF m
    <3>3. m \in 0..Len(log) /\ m <= Len(log')
      BY <1>4, <1>7, <3>1
    <3>4. End(log', m) = End(log, m)
      BY <1>7, <3>3
    <3> QED BY <3>1, <3>2, <3>3, <3>4
  <2> QED BY <2>1 DEF ExecutedInOrder
<1>12. RequestsKept'
  <2>1. ASSUME NEW q \in Replica PROVE KeepsLast(requests'[q])
    <3>1. requests'[q] = IF q = r THEN pollClientRequests(r, n) ELSE requests[q]
      BY <1>2, <1>4
    <3> QED BY <1>3, <1>8, <3>1 DEF RequestsKept
  <2> QED BY <1>2, <2>1 DEF RequestsKept, KeepsLast
<1>13. EarlierAnswered'
  <2>1. ASSUME NEW k \in Nat, Answered(k) PROVE Answered(k)'
    <3>1. {q \in Replica : Len(replica'[q].executed) >= k}
            = {q \in Replica : Len(replica[q].executed) >= k}
      BY <1>6
    <3> QED BY <2>1, <3>1 DEF Answered
  <2> QED BY <1>2, <1>3, <2>1 DEF EarlierAnswered
<1> QED BY <1>7, <1>10, <1>11, <1>12, <1>13 DEF Inv
(* One decision: the next batch of the log, and what it leaves answered.   *)
LEMMA ExecuteInv ==
  ASSUME Assumption, Inv, NEW r \in Replica, Execute(r)
  PROVE  Inv'
<1> DEFINE i == NextDecision(r)
           batch == log[i + 1]
<1>1. TypeOK /\ ProposedInOrder /\ ExecutedInOrder /\ WithinWindow
      /\ RequestsKept /\ EarlierAnswered
  BY DEF Inv
<1>2. CASE /\ UNCHANGED <<requests, replica, acks>>
           /\ UNCHANGED <<mode, sent, log, slots, server>>
  <2>1. TypeOK'
    BY <1>1, <1>2 DEF TypeOK
  <2>2. ProposedInOrder' /\ ExecutedInOrder' /\ WithinWindow'
    BY <1>1, <1>2 DEF ProposedInOrder, ExecutedInOrder, WithinWindow
  <2>3. RequestsKept'
    BY <1>1, <1>2 DEF RequestsKept, KeepsLast
  <2>4. EarlierAnswered'
    BY <1>1, <1>2 DEF EarlierAnswered, Answered
  <2> QED BY <2>1, <2>2, <2>3, <2>4 DEF Inv
<1>3. CASE /\ KnowsClient(r)
           /\ requests' = [requests EXCEPT
                ![r].accept_below = Last(batch) + ClientWindow + 1]
           /\ replica' = [replica EXCEPT ![r].next_to_decide = i + 1,
                                        ![r].executed = @ \o batch]
           /\ acks' = IF should_checkpoint(i)
                      THEN acks \cup {<<r, i + 1,
                             Append(replica[r].executed, Head(batch))>>}
                      ELSE acks
           /\ UNCHANGED <<mode, sent, log, slots, server>>
  <2>1. /\ i = replica[r].next_to_decide /\ i < Len(log)
    BY DEF Execute, Decidable, NextDecision
  <2> HIDE DEF i
  <2>2. /\ log \in Seq(Batch) /\ slots \in Seq(Batch) /\ Len(log) \in Nat
        /\ replica \in [Replica -> Place] /\ replica[r] \in Place
        /\ requests \in [Replica -> RequestLog] /\ requests[r] \in RequestLog
        /\ ClientWindow \in Nat
    BY <1>1 DEF TypeOK, Assumption
  <2>3. i \in Nat /\ i + 1 \in 1..Len(log) /\ i + 1 \in 0..Len(log) /\ (i + 1) - 1 = i
    BY <2>1, <2>2 DEF Place
  <2>4. InOrder(log)
    BY <1>1, <2>2, PrefixInOrder DEF ProposedInOrder
  <2>5. /\ Len(batch) \in Nat \ {0} /\ End(log, i) \in Nat
        /\ End(log, i + 1) = End(log, i) + Len(batch)
        /\ batch = [j \in 1..Len(batch) |-> End(log, i) + j]
    <3>1. PICK m \in 0..Len(log) : m = i + 1
      BY <2>3
    <3>2. m > 0 /\ m - 1 = i
      BY <2>3, <3>1
    <3>3. /\ Len(log[m]) \in Nat \ {0} /\ End(log, m) = End(log, m - 1) + Len(log[m])
          /\ End(log, m - 1) \in Nat
          /\ log[m] = [j \in 1..Len(log[m]) |-> End(log, m - 1) + j]
      BY <2>2, <2>4, <3>2, EndIsNat
    <3> QED BY <3>1, <3>2, <3>3
  <2>6. replica[r].executed = [k \in 1..End(log, i) |-> k]
    BY <1>1, <2>1 DEF ExecutedInOrder
  <2>7. replica[r].executed \o batch = [k \in 1..End(log, i + 1) |-> k]
    <3>1. PICK a \in Nat : a = End(log, i)
      BY <2>5
    <3>2. PICK b \in Nat : b = Len(batch)
      BY <2>5
    <3>3. [k \in 1..a |-> k] \o [j \in 1..b |-> a + j] = [k \in 1..a + b |-> k]
      BY <3>1, <3>2, ConcatRuns
    <3>4. replica[r].executed = [k \in 1..a |-> k] /\ batch = [j \in 1..b |-> a + j]
      BY <2>5, <2>6, <3>1, <3>2
    <3> QED BY <2>5, <3>1, <3>2, <3>3, <3>4
  <2>8. batch \in Seq(Nat) /\ Last(batch) \in Nat /\ Head(batch) \in Nat
    <3>1. batch \in Seq(Nat)
      BY <2>2, <2>3, ElementOfSeq DEF Batch
    <3>2. Len(batch) \in 1..Len(batch) /\ 1 \in 1..Len(batch) /\ batch # << >>
      BY <2>5, <3>1
    <3>3. batch[Len(batch)] \in Nat /\ batch[1] \in Nat
      BY <3>1, <3>2, ElementOfSeq
    <3>4. Head(batch) = batch[1]
      BY <3>1, <3>2
    <3> QED BY <3>1, <3>3, <3>4 DEF Last
  <2> HIDE DEF batch
  <2>9. \A q \in Replica :
          replica'[q] = IF q = r
            THEN [replica[r] EXCEPT !.next_to_decide = i + 1,
                                    !.executed = replica[r].executed \o batch]
            ELSE replica[q]
    BY <1>3, <2>2
  <2>10. /\ replica'[r] \in Place /\ replica'[r].next_to_decide = i + 1
         /\ replica'[r].executed = replica[r].executed \o batch
         /\ replica'[r].low = replica[r].low
    <3>1. replica[r].executed \o batch \in Seq(Nat)
      BY <2>2, <2>8, ConcatProperties DEF Place
    <3> DEFINE e == replica[r].executed \o batch
    <3> HIDE DEF e
    <3>2. e \in Seq(Nat) /\ replica'[r] = [replica[r] EXCEPT !.next_to_decide = i + 1,
                                                            !.executed = e]
      BY <2>9, <3>1 DEF e
    <3>3. replica'[r] = [next_to_decide |-> i + 1, low |-> replica[r].low,
                         certified |-> replica[r].certified,
                         validated |-> replica[r].validated, executed |-> e]
      BY <2>2, <3>2 DEF Place
    <3>4. i + 1 \in Nat
      BY <2>3
    <3> QED BY <2>2, <3>2, <3>3, <3>4 DEF Place, e
  <2>11. replica' \in [Replica -> Place]
    <3>1. replica' = [q \in Replica |-> replica'[q]]
      BY <1>3, <2>2
    <3>2. \A q \in Replica : replica'[q] \in Place
      BY <2>2, <2>9, <2>10
    <3> QED BY <3>1, <3>2
  <2>12. /\ requests' \in [Replica -> RequestLog]
         /\ \A q \in Replica : /\ requests'[q].tail = requests[q].tail
                               /\ requests'[q].last = requests[q].last
    <3> DEFINE b == Last(batch) + ClientWindow + 1
    <3>1. b \in Nat
      BY <2>2, <2>8
    <3>2. requests' = [requests EXCEPT ![r].accept_below = b]
      BY <1>3
    <3> HIDE DEF b
    <3> QED BY <2>2, <3>1, <3>2 DEF RequestLog
  <2>13. acks' \in SUBSET (Replica \X Nat \X Seq(Nat))
    <3> DEFINE e == Append(replica[r].executed, Head(batch))
    <3>1. e \in Seq(Nat)
      BY <2>2, <2>8, AppendProperties DEF Place
    <3>2. i + 1 \in Nat /\ acks \in SUBSET (Replica \X Nat \X Seq(Nat))
      BY <1>1, <2>3 DEF TypeOK
    <3>3. acks' = acks \/ acks' = acks \cup {<<r, i + 1, e>>}
      BY <1>3
    <3> HIDE DEF e
    <3> QED BY <3>1, <3>2, <3>3
  <2>14. TypeOK'
    BY <1>1, <1>3, <2>11, <2>12, <2>13 DEF TypeOK
  <2>15. ProposedInOrder'
    BY <1>1, <1>3 DEF ProposedInOrder
  <2>16. ExecutedInOrder'
    <3>1. ASSUME NEW q \in Replica
          PROVE  /\ replica'[q].next_to_decide <= Len(log)
                 /\ replica'[q].executed
                      = [k \in 1..End(log, replica'[q].next_to_decide) |-> k]
      <4>1. CASE q = r
        <5>1. i + 1 <= Len(log)
          BY <2>3
        <5> QED BY <2>7, <2>10, <4>1, <5>1
      <4>2. CASE q # r
        <5>1. replica'[q] = replica[q]
          BY <2>9, <4>2
        <5> QED BY <1>1, <5>1 DEF ExecutedInOrder
      <4> QED BY <4>1, <4>2
    <3> QED BY <1>3, <3>1 DEF ExecutedInOrder
  <2>17. WithinWindow'
    <3>1. Leader \in Replica
      BY DEF Assumption
    <3>2. replica'[Leader].low = replica[Leader].low
      BY <2>9, <2>10, <3>1
    <3> QED BY <1>1, <1>3, <3>2 DEF WithinWindow
  <2>18. RequestsKept'
    <3>1. \A q \in Replica : KeepsLast(requests[q])
      BY <1>1 DEF RequestsKept
    <3> QED BY <1>3, <2>12, <3>1 DEF RequestsKept, KeepsLast
  <2>19. EarlierAnswered'
    <3>1. ASSUME NEW k \in Nat, Answered(k) PROVE Answered(k)'
      <4> DEFINE S == {q \in Replica : Len(replica[q].executed) >= k}
                 U == {q \in Replica : Len(replica'[q].executed) >= k}
      <4>1. \A q \in Replica : Len(replica'[q].executed) >= Len(replica[q].executed)
        <5>1. Len(replica[r].executed \o batch) >= Len(replica[r].executed)
          <6>1. replica[r].executed \in Seq(Nat) /\ Len(batch) \in Nat
                /\ Len(replica[r].executed) \in Nat
            BY <2>2, <2>8 DEF Place
          <6>2. Len(replica[r].executed \o batch) = Len(replica[r].executed) + Len(batch)
            BY <2>8, <6>1, ConcatProperties
          <6> QED BY <6>1, <6>2
        <5>2. \A q \in Replica : Len(replica[q].executed) \in Nat
          BY <2>2 DEF Place
        <5> QED BY <2>9, <2>10, <5>1, <5>2
      <4>2. \A q \in Replica : Len(replica[q].executed) \in Nat
                               /\ Len(replica'[q].executed) \in Nat
        <5>1. \A q \in Replica : replica[q] \in Place /\ replica'[q] \in Place
          BY <2>2, <2>11
        <5>2. \A p \in Place : Len(p.executed) \in Nat
          BY DEF Place
        <5> QED BY <5>1, <5>2
      <4>3. S \subseteq U /\ U \subseteq Replica
        BY <4>1, <4>2
      <4>4. IsFiniteSet(Replica)
        BY DEF Assumption
      <4> HIDE DEF S, U
      <4>5. IsFiniteSet(U)
        BY <4>3, <4>4, FS_Subset
      <4>6. IsFiniteSet(S) /\ Cardinality(S) <= Cardinality(U)
        BY <4>3, <4>5, FS_Subset
      <4>7. /\ Cardinality(S) \in Nat /\ Cardinality(U) \in Nat
            /\ Cardinality(Replica) \in Nat
        BY <4>4, <4>5, <4>6, FS_CardinalityType
      <4>8. Majority \in Int
        BY <4>7 DEF Majority
      <4>9. Cardinality(S) >= Majority
        BY <3>1 DEF Answered, S
      <4>10. Cardinality(U) >= Majority
        BY <4>6, <4>7, <4>8, <4>9
      <4> QED BY <4>10 DEF Answered, U
    <3> QED BY <1>1, <1>3, <3>1 DEF EarlierAnswered
  <2> QED BY <2>14, <2>15, <2>16, <2>17, <2>18, <2>19 DEF Inv
<1>4. QED
  <2>1. UNCHANGED <<mode, sent, log, slots, server>>
    BY DEF Execute
  <2>2. \/ UNCHANGED <<requests, replica, acks>>
        \/ /\ KnowsClient(r)
           /\ requests' = [requests EXCEPT
                ![r].accept_below = Last(batch) + ClientWindow + 1]
           /\ replica' = [replica EXCEPT ![r].next_to_decide = i + 1,
                                        ![r].executed = @ \o batch]
           /\ acks' = IF should_checkpoint(i)
                      THEN acks \cup {<<r, i + 1,
                             Append(replica[r].executed, Head(batch))>>}
                      ELSE acks
    BY DEF Execute
  <2> HIDE DEF i, batch
  <2> QED BY <1>2, <1>3, <2>1, <2>2

LEMMA StepInv == Assumption /\ Inv /\ [Next]_vars => Inv'
<1> SUFFICES ASSUME Assumption, Inv, [Next]_vars PROVE Inv'
  OBVIOUS
<1>1. CASE ClientSends
  BY <1>1, ClientSendsInv
<1>2. ASSUME NEW r \in Replica, Execute(r) PROVE Inv'
  BY <1>2, ExecuteInv
<1>3. ASSUME NEW r \in Replica, NEW n \in 0..(sent - requests[r].last), Tick(r, n)
      PROVE  Inv'
  BY <1>3, TickInv
<1>4. CASE UNCHANGED vars
  <2>1. UNCHANGED <<sent, log, slots, server, requests, replica, acks>>
    BY <1>4 DEF vars
  <2>2. TypeOK'
    BY <2>1 DEF Inv, TypeOK
  <2>3. ProposedInOrder' /\ ExecutedInOrder' /\ WithinWindow'
    BY <2>1 DEF Inv, ProposedInOrder, ExecutedInOrder, WithinWindow
  <2>4. RequestsKept'
    BY <2>1 DEF Inv, RequestsKept, KeepsLast
  <2>5. EarlierAnswered'
    BY <2>1 DEF Inv, EarlierAnswered, Answered
  <2> QED BY <2>2, <2>3, <2>4, <2>5 DEF Inv
<1> QED BY <1>1, <1>2, <1>3, <1>4 DEF Next

-----------------------------------------------------------------------------
(* The leader proposes the client's requests in order and once, whatever   *)
(* waits in slots for a checkpoint, and every replica, however far it was  *)
(* outrun, executes a prefix of them.                                      *)
THEOREM LogIsExecuted == Assumption => (Spec => []ExecutesTheLog)
<1> SUFFICES ASSUME Assumption PROVE Spec => []ExecutesTheLog
  OBVIOUS
<1>1. Init => Inv
  BY InitInv
<1>2. Inv /\ [Next]_vars => Inv'
  BY StepInv
<1>3. Inv => ExecutesTheLog
  <2> SUFFICES ASSUME Inv PROVE ExecutesTheLog
    OBVIOUS
  <2> DEFINE q == log \o slots
  <2>1. /\ log \in Seq(Batch) /\ slots \in Seq(Batch) /\ Len(log) \in Nat
        /\ q \in Seq(Batch) /\ InOrder(q) /\ server.polled = End(q, Len(q))
    BY ConcatProperties DEF Inv, TypeOK, ProposedInOrder
  <2>2. InOrder(log)
    BY <2>1, PrefixInOrder
  <2>3. FlattenSeq(q) = [k \in 1..server.polled |-> k]
    <3> HIDE DEF q
    <3> QED BY <2>1, FlattenInOrder
  <2>4. FlattenSeq(log) = [k \in 1..End(log, Len(log)) |-> k]
    BY <2>1, <2>2, FlattenInOrder
  <2>5. ASSUME NEW r \in Replica
        PROVE  IsPrefix(replica[r].executed, FlattenSeq(log))
    <3> DEFINE n == replica[r].next_to_decide
               s == [k \in 1..End(log, n) |-> k]
               t == [k \in 1..End(log, Len(log)) |-> k]
    <3>1. n \in 0..Len(log) /\ replica[r].executed = s
      <4>1. n \in Nat
        BY DEF Inv, TypeOK, Place
      <4> QED BY <2>1, <4>1 DEF Inv, ExecutedInOrder
    <3> HIDE DEF n
    <3>2. End(log, n) \in Nat /\ End(log, n) <= End(log, Len(log))
      <4>1. End(log, n) \in Nat
        BY <2>1, <2>2, <3>1, EndIsNat
      <4>2. End(log, n) <= End(log, Len(log))
        BY <2>1, <2>2, <3>1, EndGrows
      <4> QED BY <4>1, <4>2
    <3>3. End(log, Len(log)) \in Nat
      <4>1. PICK m \in 0..Len(log) : m = Len(log)
        BY <2>1
      <4>2. End(log, m) \in Nat
        BY <2>1, <2>2, EndIsNat
      <4> QED BY <4>1, <4>2
    <3>4. s \in Seq(Nat) /\ t \in Seq(Nat) /\ Len(s) = End(log, n)
          /\ Len(t) = End(log, Len(log))
      BY <3>2, <3>3
    <3>5. SubSeq(s, 1, Len(s)) = SubSeq(t, 1, Len(s))
      <4>1. \A k \in 1..Len(s) : s[k] = t[k]
        BY <3>2, <3>3, <3>4
      <4> HIDE DEF s, t
      <4> QED BY <3>4, <4>1
    <3> HIDE DEF s, t
    <3> QED BY <2>4, <3>1, <3>2, <3>4, <3>5 DEF IsPrefix, t
  <2> QED BY <2>3, <2>5 DEF ExecutesTheLog
<1> QED BY <1>1, <1>2, <1>3, PTL DEF Spec

(* A request leaves a replica's log only after its client had the answer,  *)
(* although the limit of addRequest moves with every request.              *)
THEOREM OnlyAnsweredAreDropped == Assumption => (Spec => DropsOnlyAnswered)
<1> SUFFICES ASSUME Assumption PROVE Spec => DropsOnlyAnswered
  OBVIOUS
<1> DEFINE Dropped(r, k) ==
             Contains(requests[r].tail, k) /\ ~Contains(requests'[r].tail, k)
           Answers == \A r \in Replica : \A k \in 1..sent : Dropped(r, k) => Answered(k)
<1>1. Init => Inv
  BY InitInv
<1>2. Inv /\ [Next]_vars => Inv'
  BY StepInv
<1>3. Inv /\ [Next]_vars => [Answers]_vars
  <2> SUFFICES ASSUME Inv, Next, NEW r \in Replica, NEW k \in 1..sent, Dropped(r, k)
               PROVE  Answered(k)
    BY DEF vars
  <2>1. /\ sent \in Nat /\ requests \in [Replica -> RequestLog]
        /\ \A q \in Replica : requests[q] \in RequestLog /\ KeepsLast(requests[q])
    BY DEF Inv, TypeOK, RequestsKept
  <2>2. CASE ClientSends
    BY <2>2 DEF ClientSends
  <2>3. ASSUME NEW q \in Replica, Execute(q) PROVE Answered(k)
    <3>1. requests'[r].tail = requests[r].tail
      <4>1. requests' = requests \/ \E b : requests' = [requests EXCEPT
                                             ![q].accept_below = b]
        BY <2>3 DEF Execute
      <4> QED BY <2>1, <4>1 DEF RequestLog
    <3> QED BY <3>1
  <2>4. ASSUME NEW q \in Replica, NEW n \in 0..(sent - requests[q].last), Tick(q, n)
        PROVE  Answered(k)
    <3>1. requests' = [requests EXCEPT ![q] = pollClientRequests(q, n)]
      BY <2>4 DEF Tick
    <3>2. q = r /\ requests'[r] = pollClientRequests(r, n)
      BY <2>1, <3>1
    <3>3. \A x \in Nat : Contains(requests[r].tail, x) =>
            Contains(pollClientRequests(r, n).tail, x) \/ x + ClientWindow <= sent
      BY <2>1, PollKeeps
    <3>4. k \in Nat \ {0} /\ k + ClientWindow <= sent
      BY <2>1, <3>2, <3>3
    <3> QED BY <3>4 DEF Inv, EarlierAnswered
  <2> QED BY <2>2, <2>3, <2>4 DEF Next
<1>4. Spec => [][Answers]_vars
  <2> HIDE DEF Answers
  <2> QED BY <1>1, <1>2, <1>3, PTL DEF Spec
<1> QED BY <1>4 DEF DropsOnlyAnswered

-----------------------------------------------------------------------------
(* Flow control of the replicas' broadcasts *)

CbAssumption ==
  /\ IsFiniteSet(CbReplica) /\ CbReplica # {} /\ Active \subseteq CbReplica
  /\ TailSize \in Nat /\ MaxIndex \in Nat

LEMMA SameCardinality == \A S : Cb!Cardinality(S) = Cardinality(S)
BY DEF Cb!Cardinality, Cardinality

CbTypeOK ==
  /\ cb_index \in [Active -> Nat]
  /\ can_cb_until \in [Active -> Int]
  /\ next_cb \in [CbReplica -> [Active -> Nat]]
  /\ acknowledged \in [CbReplica -> [Active -> Nat]]
  /\ shares \in [Active -> SUBSET (CbReplica \X Nat)]
  /\ gaps \subseteq CbReplica \X Active

(* The checkpoint whose certificate lets b broadcast up to can_cb_until. *)
Released(b) == can_cb_until[b] - TailSize + 1
Handlers(b, c) == {r \in CbReplica : next_cb[r][b] >= c}

(* Nobody certifies what it has not handled. *)
SharesHandled ==
  /\ \A r \in CbReplica, b \in Active : acknowledged[r][b] <= next_cb[r][b]
  /\ \A b \in Active : \A s \in shares[b] : s[2] <= next_cb[s[1]][b]

(* A majority handled what the last certificate released. *)
ReleasedByMajority ==
  \A b \in Active :
    /\ Cardinality(Handlers(b, Released(b))) >= Cb!Majority
    /\ cb_index[b] <= can_cb_until[b] + 1

(* A replica that found a gap stays a tail behind. *)
GapsBehind ==
  \A r \in CbReplica, b \in Active :
    <<r, b>> \in gaps => r # b /\ next_cb[r][b] < cb_index[b] - TailSize

CbInv == CbTypeOK /\ SharesHandled /\ ReleasedByMajority /\ GapsBehind

LEMMA MajorityFacts ==
  ASSUME CbAssumption
  PROVE  /\ Cardinality(CbReplica) \in Nat /\ Cb!Majority \in Nat
         /\ Cb!Majority <= Cardinality(CbReplica)
         /\ Cardinality(CbReplica) < 2 * Cb!Majority
<1>1. Cardinality(CbReplica) \in Nat /\ Cardinality(CbReplica) # 0
  BY FS_CardinalityType, FS_EmptySet DEF CbAssumption
<1>2. Cb!Majority = Cardinality(CbReplica) \div 2 + 1
  BY SameCardinality DEF Cb!Majority
<1> QED BY <1>1, <1>2

LEMMA CbInitInv == ASSUME CbAssumption, Cb!Init PROVE CbInv
<1>1. ASSUME NEW b \in Active PROVE Handlers(b, Released(b)) = CbReplica
  BY DEF Cb!Init, Handlers, Released, CbAssumption
<1>2. CbTypeOK BY DEF Cb!Init, CbTypeOK, CbAssumption, Cb!NoCheckpoint
<1>3. SharesHandled BY DEF Cb!Init, SharesHandled, Cb!NoCheckpoint, CbAssumption
<1>4. ReleasedByMajority
  BY <1>1, MajorityFacts DEF ReleasedByMajority, Cb!Init, CbAssumption
<1>5. GapsBehind BY DEF Cb!Init, GapsBehind
<1> QED BY <1>2, <1>3, <1>4, <1>5 DEF CbInv

LEMMA HandledType ==
  ASSUME CbAssumption, CbInv, NEW r \in CbReplica, NEW b \in Active, Cb!Handled(r, b)
  PROVE  /\ next_cb' = [next_cb EXCEPT ![r][b] = next_cb[r][b] + 1]
         /\ next_cb' \in [CbReplica -> [Active -> Nat]]
         /\ acknowledged' \in [CbReplica -> [Active -> Nat]]
         /\ \A q \in CbReplica, a \in Active :
              /\ next_cb[q][a] <= next_cb'[q][a]
              /\ <<q, a>> # <<r, b>> => next_cb'[q][a] = next_cb[q][a]
              /\ acknowledged'[q][a] <= next_cb'[q][a]
<1> USE DEF CbInv, CbTypeOK, SharesHandled
<1>1. next_cb' = [next_cb EXCEPT ![r][b] = next_cb[r][b] + 1]
  BY DEF Cb!Handled
<1>2. \/ acknowledged' = acknowledged
      \/ acknowledged' = [acknowledged EXCEPT ![r][b] = next_cb[r][b] + 1]
  BY DEF Cb!Handled
<1>3. \A q \in CbReplica, a \in Active :
         /\ next_cb'[q][a] = IF q = r /\ a = b THEN next_cb[q][a] + 1 ELSE next_cb[q][a]
         /\ acknowledged'[q][a] = acknowledged[q][a]
              \/ (q = r /\ a = b /\ acknowledged'[q][a] = next_cb[q][a] + 1)
  BY <1>1, <1>2
<1> QED BY <1>1, <1>2, <1>3

(* More handled messages, same certificate: the majority stays. *)
LEMMA MajorityKept ==
  ASSUME CbAssumption, NEW b \in Active, CbTypeOK,
         next_cb' \in [CbReplica -> [Active -> Nat]],
         \A q \in CbReplica : next_cb[q][b] <= next_cb'[q][b],
         NEW c \in Int, Cardinality(Handlers(b, c)) >= Cb!Majority
  PROVE  Cardinality(Handlers(b, c)') >= Cb!Majority
<1>1. Handlers(b, c) \subseteq Handlers(b, c)' /\ Handlers(b, c)' \subseteq CbReplica
  BY DEF Handlers, CbTypeOK
<1>2. IsFiniteSet(Handlers(b, c)')
  BY <1>1, FS_Subset DEF CbAssumption
<1>3. Cardinality(Handlers(b, c)) <= Cardinality(Handlers(b, c)')
  BY <1>1, <1>2, FS_Subset
<1>4. /\ Cardinality(Handlers(b, c)) \in Nat /\ Cardinality(Handlers(b, c)') \in Nat
      /\ Cb!Majority \in Nat
  BY <1>1, <1>2, FS_Subset, FS_CardinalityType, MajorityFacts
<1> QED BY <1>3, <1>4
(* A replica's own messages, or those of others that it handles. *)
LEMMA HandledInv ==
  ASSUME CbAssumption, CbInv, NEW r \in CbReplica, NEW b \in Active, Cb!Handled(r, b),
         shares' = shares, gaps' = gaps, can_cb_until' = can_cb_until,
         cb_index' \in [Active -> Nat],
         \A a \in Active : /\ cb_index[a] <= cb_index'[a]
                           /\ cb_index'[a] <= can_cb_until[a] + 1,
         r = b \/ r \notin Cb!spinning
  PROVE  CbInv'
<1>1. /\ next_cb' \in [CbReplica -> [Active -> Nat]]
      /\ acknowledged' \in [CbReplica -> [Active -> Nat]]
      /\ \A q \in CbReplica, a \in Active :
           /\ next_cb[q][a] <= next_cb'[q][a]
           /\ <<q, a>> # <<r, b>> => next_cb'[q][a] = next_cb[q][a]
           /\ acknowledged'[q][a] <= next_cb'[q][a]
  BY HandledType
<1>2. CbTypeOK'
  BY <1>1 DEF CbInv, CbTypeOK
<1>3. SharesHandled'
  <2>1. ASSUME NEW a \in Active, NEW s \in shares[a] PROVE s[2] <= next_cb'[s[1]][a]
    <3>1. s[1] \in CbReplica /\ s[2] \in Nat
      BY DEF CbInv, CbTypeOK
    <3>2. s[2] <= next_cb[s[1]][a] /\ next_cb[s[1]][a] <= next_cb'[s[1]][a]
      BY <1>1, <3>1 DEF CbInv, SharesHandled
    <3>3. next_cb[s[1]][a] \in Nat /\ next_cb'[s[1]][a] \in Nat
      BY <1>1, <3>1 DEF CbInv, CbTypeOK
    <3> QED BY <3>1, <3>2, <3>3
  <2> QED BY <1>1, <2>1 DEF SharesHandled
<1>4. ReleasedByMajority'
  <2>1. ASSUME NEW a \in Active
        PROVE  /\ Cardinality(Handlers(a, Released(a))') >= Cb!Majority
               /\ cb_index'[a] <= can_cb_until'[a] + 1
    <3>1. PICK c \in Int : c = Released(a)
      BY DEF CbInv, CbTypeOK, Released, CbAssumption
    <3>2. Released(a)' = c
      BY <3>1 DEF Released
    <3>3. Cardinality(Handlers(a, c)) >= Cb!Majority
      BY <3>1 DEF CbInv, ReleasedByMajority
    <3>4. Cardinality(Handlers(a, c)') >= Cb!Majority
      BY <1>1, <3>3, MajorityKept DEF CbInv
    <3> QED BY <3>2, <3>4 DEF Handlers
  <2> QED BY <2>1 DEF ReleasedByMajority
<1>5. GapsBehind'
  <2>1. ASSUME NEW q \in CbReplica, NEW a \in Active, <<q, a>> \in gaps
        PROVE  q # a /\ next_cb'[q][a] < cb_index'[a] - TailSize
    <3>1. q # a /\ next_cb[q][a] < cb_index[a] - TailSize /\ q \in Cb!spinning
      BY <2>1 DEF CbInv, GapsBehind, Cb!spinning
    <3>2. <<q, a>> # <<r, b>>
      BY <3>1
    <3>3. next_cb'[q][a] = next_cb[q][a]
      BY <1>1, <3>2
    <3>4. /\ next_cb[q][a] \in Nat /\ TailSize \in Nat
          /\ cb_index[a] \in Nat /\ cb_index'[a] \in Nat
      BY DEF CbInv, CbTypeOK, CbAssumption
    <3> QED BY <3>1, <3>3, <3>4
  <2> QED BY <2>1 DEF GapsBehind
<1> QED BY <1>2, <1>3, <1>4, <1>5 DEF CbInv

LEMMA BroadcastInv ==
  ASSUME CbAssumption, CbInv, NEW b \in Active, Cb!Broadcast(b)
  PROVE  CbInv'
<1>1. /\ Cb!Handled(b, b) /\ b \in CbReplica
      /\ shares' = shares /\ gaps' = gaps /\ can_cb_until' = can_cb_until
      /\ cb_index' = [cb_index EXCEPT ![b] = @ + 1]
      /\ cb_index[b] <= can_cb_until[b]
  BY DEF Cb!Broadcast, CbAssumption
<1>2. cb_index' \in [Active -> Nat]
  BY <1>1 DEF CbInv, CbTypeOK
<1>3. ASSUME NEW a \in Active
      PROVE  cb_index[a] <= cb_index'[a] /\ cb_index'[a] <= can_cb_until[a] + 1
  <2>1. /\ cb_index[a] \in Nat /\ can_cb_until[a] \in Int
        /\ cb_index[a] <= can_cb_until[a] + 1
    BY DEF CbInv, CbTypeOK, ReleasedByMajority
  <2>2. cb_index'[a] = IF a = b THEN cb_index[a] + 1 ELSE cb_index[a]
    BY <1>1 DEF CbInv, CbTypeOK
  <2> QED BY <1>1, <2>1, <2>2
<1> QED BY <1>1, <1>2, <1>3, HandledInv

(* The oldest message kept is the next one, unless that was dropped. *)
LEMMA GapFound ==
  ASSUME CbAssumption, CbTypeOK, NEW r \in CbReplica, NEW b \in Active,
         next_cb[r][b] < cb_index[b], Cb!Oldest(r, b) # next_cb[r][b]
  PROVE  next_cb[r][b] < cb_index[b] - TailSize
<1> DEFINE n == next_cb[r][b]
<1>1. n \in Nat /\ cb_index[b] \in Nat /\ TailSize \in Nat
  BY DEF CbTypeOK, CbAssumption
<1>2. SUFFICES ASSUME n >= cb_index[b] - TailSize PROVE Cb!Oldest(r, b) = n
  BY <1>1
<1>3. n \in Cb!Kept(b)
  BY <1>1, <1>2 DEF Cb!Kept
<1>4. \A i \in Cb!Kept(b) : i \in Int
  BY <1>1 DEF Cb!Kept
<1>5. PICK i \in Cb!Kept(b) : /\ i = Cb!Oldest(r, b) /\ i >= n
                           /\ \A j \in Cb!Kept(b) : j >= n => i <= j
  <2>1. n >= n /\ \A j \in Cb!Kept(b) : j >= n => n <= j
    BY <1>1, <1>4
  <2> QED BY <1>3, <2>1 DEF Cb!Oldest
<1>6. i <= n
  BY <1>1, <1>3, <1>5
<1> QED BY <1>1, <1>4, <1>5, <1>6

LEMMA PollCbInv ==
  ASSUME CbAssumption, CbInv, NEW r \in CbReplica, NEW b \in Active, Cb!PollCb(r, b)
  PROVE  CbInv'
<1>1. /\ r \notin Cb!spinning /\ r # b /\ next_cb[r][b] < cb_index[b]
      /\ UNCHANGED <<cb_index, can_cb_until, shares>>
  BY DEF Cb!PollCb
<1>2. CASE /\ Cb!Oldest(r, b) # next_cb[r][b]
           /\ gaps' = gaps \cup {<<r, b>>}
           /\ UNCHANGED <<next_cb, acknowledged>>
  <2>1. next_cb[r][b] < cb_index[b] - TailSize
    BY <1>1, <1>2, GapFound DEF CbInv
  <2>2. CbTypeOK'
    BY <1>1, <1>2 DEF CbInv, CbTypeOK
  <2>3. SharesHandled' /\ ReleasedByMajority'
    BY <1>1, <1>2 DEF CbInv, SharesHandled, ReleasedByMajority, Released, Handlers
  <2>4. GapsBehind'
    BY <1>1, <1>2, <2>1 DEF CbInv, GapsBehind
  <2> QED BY <2>2, <2>3, <2>4 DEF CbInv
<1>3. CASE Cb!Handled(r, b) /\ UNCHANGED gaps
  <2>1. ASSUME NEW a \in Active
        PROVE  cb_index[a] <= cb_index'[a] /\ cb_index'[a] <= can_cb_until[a] + 1
    BY <1>1 DEF CbInv, CbTypeOK, ReleasedByMajority
  <2>2. cb_index' \in [Active -> Nat]
    BY <1>1 DEF CbInv, CbTypeOK
  <2> QED BY <1>1, <1>3, <2>1, <2>2, HandledInv
<1> QED BY <1>2, <1>3 DEF Cb!PollCb

LEMMA SendShareInv ==
  ASSUME CbAssumption, CbInv, NEW r \in CbReplica, NEW b \in Active, Cb!SendShare(r, b)
  PROVE  CbInv'
<1>1. /\ shares' = [shares EXCEPT ![b] =
            {s \in shares[b] : s[2] >= acknowledged[b][b]}
              \cup {<<r, acknowledged[r][b]>>}]
      /\ UNCHANGED <<cb_index, can_cb_until, next_cb, acknowledged, gaps>>
  BY DEF Cb!SendShare
<1>2. acknowledged[r][b] \in Nat /\ acknowledged[r][b] <= next_cb[r][b]
  BY DEF CbInv, CbTypeOK, SharesHandled
<1>3. ASSUME NEW a \in Active, NEW s \in shares'[a]
      PROVE  s \in CbReplica \X Nat /\ s[2] <= next_cb[s[1]][a]
  <2>1. s \in shares[a] \/ (a = b /\ s = <<r, acknowledged[r][b]>>)
    BY <1>1 DEF CbInv, CbTypeOK
  <2> QED BY <1>2, <2>1 DEF CbInv, CbTypeOK, SharesHandled
<1>4. shares' \in [Active -> SUBSET (CbReplica \X Nat)]
  BY <1>1, <1>3 DEF CbInv, CbTypeOK
<1>5. CbTypeOK'
  BY <1>1, <1>4 DEF CbInv, CbTypeOK
<1>6. SharesHandled'
  BY <1>1, <1>3 DEF CbInv, SharesHandled
<1>7. ReleasedByMajority' /\ GapsBehind'
  BY <1>1 DEF CbInv, ReleasedByMajority, Released, Handlers, GapsBehind
<1> QED BY <1>5, <1>6, <1>7 DEF CbInv

(* Whoever sent a share for a checkpoint handled what precedes it. *)
LEMMA SharersHandled ==
  ASSUME CbAssumption, CbInv, NEW b \in Active, NEW c \in Nat
  PROVE  /\ IsFiniteSet({s \in shares[b] : s[2] = c})
         /\ Cardinality({s \in shares[b] : s[2] = c}) <= Cardinality(Handlers(b, c))
<1> DEFINE S == {s \in shares[b] : s[2] = c}
<1>1. IsFiniteSet(Handlers(b, c))
  BY FS_Subset DEF Handlers, CbAssumption
<1>2. \A s \in S : s[1] \in Handlers(b, c) /\ s = <<s[1], c>>
  BY DEF CbInv, CbTypeOK, SharesHandled, Handlers
<1> DEFINE f == [s \in S |-> s[1]]
<1>3. f \in [S -> Handlers(b, c)] /\ \A s \in S : f[s] = s[1]
  BY <1>2
<1> HIDE DEF f, S
<1>4. \A s, t \in S : f[s] = f[t] => s = t
  BY <1>2, <1>3
<1>5. f \in Injection(S, Handlers(b, c))
  BY <1>3, <1>4 DEF Injection, IsInjective
<1>6. IsFiniteSet(S) /\ Cardinality(S) <= Cardinality(Handlers(b, c))
  BY <1>1, <1>5, FS_Injection
<1> QED BY <1>6 DEF S

LEMMA PollCertificateInv ==
  ASSUME CbAssumption, CbInv, NEW b \in Active, Cb!PollCertificate(b)
  PROVE  CbInv'
<1>1. PICK c \in Nat : c = acknowledged[b][b]
  BY DEF CbInv, CbTypeOK, CbAssumption
<1>2. /\ Cardinality({s \in shares[b] : s[2] = c}) >= Cb!Majority
      /\ can_cb_until[b] < Cb!Unlocked(c)
      /\ can_cb_until' = [can_cb_until EXCEPT ![b] = Cb!Unlocked(c)]
      /\ UNCHANGED <<cb_index, next_cb, acknowledged, shares, gaps>>
  BY <1>1, SameCardinality DEF Cb!PollCertificate
<1>3. Cb!Unlocked(c) \in Int /\ Cb!Unlocked(c) - TailSize + 1 = c
  BY DEF Cb!Unlocked, CbAssumption
<1>4. CbTypeOK'
  BY <1>2, <1>3 DEF CbInv, CbTypeOK
<1>5. SharesHandled' /\ GapsBehind'
  BY <1>2 DEF CbInv, SharesHandled, GapsBehind
<1>6. ASSUME NEW a \in Active
      PROVE  /\ Cardinality(Handlers(a, Released(a))') >= Cb!Majority
             /\ cb_index'[a] <= can_cb_until'[a] + 1
  <2>1. CASE a # b
    <3>1. can_cb_until'[a] = can_cb_until[a]
      BY <1>2, <2>1 DEF CbInv, CbTypeOK
    <3> QED BY <1>2, <3>1 DEF CbInv, ReleasedByMajority, Released, Handlers
  <2>2. CASE a = b
    <3>1. can_cb_until'[b] = Cb!Unlocked(c)
      BY <1>2 DEF CbInv, CbTypeOK
    <3>2. Handlers(b, Released(b))' = Handlers(b, c)
      BY <1>2, <1>3, <3>1 DEF Handlers, Released
    <3>3. Cardinality({s \in shares[b] : s[2] = c}) <= Cardinality(Handlers(b, c))
      BY SharersHandled
    <3>4. IsFiniteSet(Handlers(b, c)) /\ IsFiniteSet({s \in shares[b] : s[2] = c})
      BY SharersHandled, FS_Subset DEF Handlers, CbAssumption
    <3>5. /\ Cardinality(Handlers(b, c)) \in Nat /\ Cb!Majority \in Nat
          /\ Cardinality({s \in shares[b] : s[2] = c}) \in Nat
      BY <3>4, FS_CardinalityType, MajorityFacts
    <3>6. cb_index[b] <= Cb!Unlocked(c) + 1
      BY <1>2, <1>3 DEF CbInv, CbTypeOK, ReleasedByMajority
    <3> QED BY <1>2, <2>2, <3>1, <3>2, <3>3, <3>5, <3>6
  <2> QED BY <2>1, <2>2
<1>7. ReleasedByMajority'
  BY <1>6 DEF ReleasedByMajority
<1> QED BY <1>4, <1>5, <1>7 DEF CbInv

LEMMA CbNextInv == ASSUME CbAssumption, CbInv, [Cb!Next]_(Cb!vars) PROVE CbInv'
<1>1. CASE UNCHANGED Cb!vars
  BY <1>1 DEF Cb!vars, CbInv, CbTypeOK, SharesHandled, ReleasedByMajority, Released,
              Handlers, GapsBehind
<1>2. CASE Cb!Next
  BY <1>2, BroadcastInv, PollCbInv, SendShareInv, PollCertificateInv DEF Cb!Next
<1> QED BY <1>1, <1>2

(* Those who found a gap are not among the majority that handled what the   *)
(* last certificate released.                                               *)
LEMMA BehindIsMinority == ASSUME CbAssumption, CbInv PROVE Cb!OutrunIsMinority
<1> SUFFICES ASSUME NEW b \in Active
             PROVE  Cardinality({r \in CbReplica : <<r, b>> \in gaps}) < Cb!Majority
  BY SameCardinality DEF Cb!OutrunIsMinority
<1> DEFINE G == {r \in CbReplica : <<r, b>> \in gaps}
           H == Handlers(b, Released(b))
<1>1. ASSUME NEW r \in G PROVE r \notin H
  <2>1. next_cb[r][b] < cb_index[b] - TailSize
    BY DEF CbInv, GapsBehind
  <2>2. cb_index[b] <= can_cb_until[b] + 1
    BY DEF CbInv, ReleasedByMajority
  <2>3. /\ next_cb[r][b] \in Nat /\ cb_index[b] \in Nat
        /\ can_cb_until[b] \in Int /\ TailSize \in Nat
    BY DEF CbInv, CbTypeOK, CbAssumption
  <2>4. ~(next_cb[r][b] >= Released(b))
    BY <2>1, <2>2, <2>3 DEF Released
  <2> QED BY <2>4 DEF Handlers
<1>2. G \subseteq CbReplica /\ H \subseteq CbReplica /\ Cardinality(H) >= Cb!Majority
  BY DEF CbInv, ReleasedByMajority, Handlers
<1> HIDE DEF G, H
<1>3. G \cap H = {}
  BY <1>1
<1>4. IsFiniteSet(G) /\ IsFiniteSet(H) /\ IsFiniteSet(CbReplica)
  BY <1>2, FS_Subset DEF CbAssumption
<1>5. ~(Cardinality(G) + Cardinality(H) > Cardinality(CbReplica))
  BY <1>2, <1>3, <1>4, FS_MajoritiesIntersect
<1>6. Cardinality(G) \in Nat /\ Cardinality(H) \in Nat
  BY <1>4, FS_CardinalityType
<1>7. Cardinality(G) < Cb!Majority
  BY <1>2, <1>5, <1>6, MajorityFacts
<1> QED BY <1>7 DEF G

(* For any number of replicas, broadcasters and any tail: waitForCbSlack    *)
(* and the certificates of CB checkpoints keep a broadcaster from outrunning*)
(* a majority of the replicas.                                              *)
THEOREM MajorityIsNeverOutrun == CbAssumption => (Cb!Spec => []Cb!OutrunIsMinority)
<1> SUFFICES ASSUME CbAssumption PROVE Cb!Spec => []Cb!OutrunIsMinority
  OBVIOUS
<1>1. Cb!Init => CbInv
  BY CbInitInv
<1>2. CbInv /\ [Cb!Next]_(Cb!vars) => CbInv'
  BY CbNextInv
<1>3. CbInv => Cb!OutrunIsMinority
  BY BehindIsMinority
<1> QED BY <1>1, <1>2, <1>3, PTL DEF Cb!Spec
=============================================================================
