----------------------------- MODULE TailCbProofs -----------------------------
(***************************************************************************)
(* Consistent tail broadcast for any number of receivers, any tail, any    *)
(* number of messages and one faulty process:                              *)
(*   BroadcastIsConsistent: correct receivers implement ConsistentBroadcast*)
(*   AccusationsAreReal: they only blame a process that is faulty.         *)
(* Two receivers that delivered by echoes agree because each had the echo  *)
(* of the other; two that delivered by registers agree because the second  *)
(* whose write completed read the register of the first, and then counts   *)
(* one receiver too few.  The invariant keeps that count.                  *)
(***************************************************************************)
EXTENDS TailCb, FiniteSetTheorems, SequenceTheorems, WellFoundedInduction, TLAPS

(* The broadcaster is not among its receivers, and None and Garbage stand    *)
(* for no value of a correct process.                                       *)
Assumption ==
  /\ IsFiniteSet(Receiver) /\ Broadcaster \notin Receiver
  /\ None \notin Receiver \cup {Broadcaster}
  /\ None \notin Payload /\ Garbage \notin Payload /\ None # Garbage
  /\ TailSize \in Nat \ {0} /\ MaxIndex \in Nat

-----------------------------------------------------------------------------
(* Types.  Maps and links are described element by element.                 *)
Sent == [index : Index, value : Payload]
Echo == [index : Index, value : Payload \cup {Garbage}]
Value == Payload \cup {Garbage, None}
Link == [sent : Seq(Sent), seen : Nat]
MessageData ==
  [value : Payload, echoes : SUBSET Receiver, match : BOOLEAN,
   signature : Value, checked : Nat]
Origin == {"broadcaster", "register"}
Task == [index : Index, origin : Origin, ok : BOOLEAN]
Register == [log : Seq([inc : Nat, value : Value]), done : Nat]
Cause == {None, "broadcaster", "receiver", "recycled", "equivocation"}

TypeOK ==
  /\ faulty \in {None, Broadcaster} \cup Receiver
  /\ next_index \in Nat /\ to_sign \in SUBSET Index
  /\ messages \in [Receiver -> Link] /\ signatures \in [Receiver -> Link]
  /\ DOMAIN echoes = Receiver
  /\ \A r \in Receiver : echoes[r] \in [Others(r) -> Link]
  /\ DOMAIN msg_tail = Receiver
  /\ \A r \in Receiver : /\ Kept(r) \subseteq Index
                         /\ \A i \in Kept(r) : msg_tail[r][i] \in MessageData
  /\ latest_polled \in [Receiver -> Nat]
  /\ DOMAIN buffered_echoes = Receiver
  /\ \A r \in Receiver : buffered_echoes[r] \in [Others(r) -> Seq(Echo)]
  /\ verifying \in [Receiver -> SUBSET Task]
  /\ registers \in [Receiver -> [RegisterIndex -> Register]]
  /\ outstanding_writes \in [Receiver -> [RegisterIndex -> Index \cup {Idle}]]
  /\ DOMAIN outstanding_reads = Receiver
  /\ \A r \in Receiver : /\ DOMAIN outstanding_reads[r] \subseteq Index
                         /\ \A i \in DOMAIN outstanding_reads[r] :
                              outstanding_reads[r][i] \in [Others(r) -> Nat]
  /\ dead \in [Receiver -> Cause]
  /\ discarded \in [Receiver -> SUBSET Index]
  /\ delivered \in [Receiver -> [Index -> Payload \cup {None}]]

-----------------------------------------------------------------------------
(* Messages and echoes                                                      *)

\* r accepted message i or one after it: it will not accept i again.
Past(r, i) == i < latest_polled[r] \/ \E k \in Kept(r) : k >= i

Increasing(s) ==
  \A a \in 1..Len(s), b \in 1..Len(s) : a < b => s[a].index < s[b].index

\* q sent o an echo of message i with value v.
EchoedTo(q, o, i, v) ==
  \E p \in 1..Len(echoes[o][q].sent) : echoes[o][q].sent[p] = Message(i, v)
Echoed(q, i, v) == \A o \in Others(q) : EchoedTo(q, o, i, v)

EchoesOrdered ==
  \A r \in Correct : \A o \in Others(r) :
    /\ Increasing(echoes[o][r].sent)
    /\ \A p \in 1..Len(echoes[o][r].sent) : Past(r, echoes[o][r].sent[p].index)
    /\ echoes[o][r].seen <= Len(echoes[o][r].sent)

KeptEchoed ==
  \A r \in Correct : \A i \in Kept(r) :
    /\ i >= latest_polled[r]
    /\ Echoed(r, i, msg_tail[r][i].value)

\* Correct q's echoes at r, buffered or counted, are among those r consumed.
BufferSeen(r, q) ==
  \A k \in 1..Len(buffered_echoes[r][q]) :
    \E p \in 1..echoes[r][q].seen :
      echoes[r][q].sent[p] = buffered_echoes[r][q][k]
CountedSeen(r, q) ==
  \A i \in Kept(r) : q \in msg_tail[r][i].echoes =>
    \E p \in 1..echoes[r][q].seen :
      /\ echoes[r][q].sent[p].index = i
      /\ msg_tail[r][i].match =>
           echoes[r][q].sent[p].value = msg_tail[r][i].value
EchoesSeen ==
  \A r \in Correct : \A q \in Correct \cap Others(r) :
    BufferSeen(r, q) /\ CountedSeen(r, q)

-----------------------------------------------------------------------------
(* Signatures and registers                                                 *)

Slot(r, i) == registers[r][i % TailSize]
\* Position k of r's register for message i holds its signature v.
Holds(r, i, k, v) ==
  /\ k \in 1..Len(Slot(r, i).log)
  /\ Slot(r, i).log[k].inc = Incarnation(i) /\ Slot(r, i).log[k].value = v
Wrote(r, i, v) == \E k \in 1..Len(Slot(r, i).log) : Holds(r, i, k, v)
Done(r, i) ==
  \E k \in 1..Slot(r, i).done : /\ k \in 1..Len(Slot(r, i).log)
                                /\ Slot(r, i).log[k].inc = Incarnation(i)
DoneWith(r, i, v) == \E k \in 1..Slot(r, i).done : Holds(r, i, k, v)

RegisterSound(r, s) ==
  LET log == registers[r][s].log
      done == registers[r][s].done
      i == outstanding_writes[r][s]
  IN  /\ \A a \in 1..Len(log), b \in 1..Len(log) : a < b => log[a].inc < log[b].inc
      /\ done >= 1 /\ Len(log) >= 1
      /\ \A k \in 1..Len(log) : log[k].value # Garbage
      /\ i = Idle => done = Len(log)
      /\ i # Idle => /\ i % TailSize = s /\ log[Len(log)].inc = Incarnation(i)
                     /\ done = Len(log) - 1
RegistersSound == \A r \in Correct : \A s \in RegisterIndex : RegisterSound(r, s)

\* What r writes for message i is the signature of the value it echoed.
WrittenEchoed ==
  \A r \in Correct : \A i \in Index : \A v \in Value : Wrote(r, i, v) =>
    /\ Past(r, i) /\ Echoed(r, i, v)
    /\ i \in Kept(r) => msg_tail[r][i].signature = v /\ msg_tail[r][i].value = v

TasksSound ==
  \A r \in Correct : \A t \in verifying[r] :
    /\ Past(r, t.index)
    /\ t.origin = "broadcaster" /\ t.index \in Kept(r) =>
         /\ msg_tail[r][t.index].signature # None
         /\ t.ok <=> msg_tail[r][t.index].signature = msg_tail[r][t.index].value

ReadsDone ==
  \A r \in Correct : \A i \in DOMAIN outstanding_reads[r] : Done(r, i)

-----------------------------------------------------------------------------
(* Counting the receivers that were checked                                 *)

\* A signature that is being checked and will turn out not to be one.
BadSignature(i) == [index |-> i, origin |-> "register", ok |-> FALSE]
InPool(r, i) == IF BadSignature(i) \in verifying[r] THEN 1 ELSE 0
Waiting(r, i) ==
  IF ~Done(r, i) THEN Others(r)
  ELSE IF i \in DOMAIN outstanding_reads[r]
  THEN {q \in Others(r) : outstanding_reads[r][i][q] # 0}
  ELSE {}

\* Every receiver is counted once: checked, being checked or still to read.
\* Without X: those of i that are checked, being checked or still to read.
Tally(r, i, X) ==
  msg_tail[r][i].checked + InPool(r, i) + Cardinality(Waiting(r, i) \ X)
CountedOnce ==
  \A r \in Correct : \A i \in Kept(r) :
    Tally(r, i, {}) <= Cardinality(Others(r))

\* r's register is, or was, going to show q another signature for message i.
Spoiled(q, r, i) ==
  /\ delivered[q][i] = None
  /\ i \in Kept(q) /\ dead[q] = None =>
       /\ Tally(q, i, {r}) <= Cardinality(Others(q)) - 1
       /\ r \in Waiting(q, i) =>
            /\ i \in DOMAIN outstanding_reads[q]
            /\ \E k \in 1..outstanding_reads[q][i][r] :
                 /\ k \in 1..Len(Slot(r, i).log)
                 /\ Slot(r, i).log[k].inc = Incarnation(i)

OneIsSpoiled ==
  \A q, r \in Correct : \A i \in Index : \A v, w \in Payload :
    q # r /\ v # w /\ DoneWith(q, i, v) /\ DoneWith(r, i, w) =>
      Spoiled(q, r, i) \/ Spoiled(r, q, i)

HeardAll(r, i, v) ==
  \A q \in Correct \cap Others(r) : EchoedTo(q, r, i, v)

DeliveredSound ==
  \A r \in Correct : \A i \in Index : delivered[r][i] # None =>
    /\ i < latest_polled[r]
    /\ Echoed(r, i, delivered[r][i])
    /\ HeardAll(r, i, delivered[r][i]) \/ DoneWith(r, i, delivered[r][i])

Agree ==
  \A q, r \in Correct : \A i \in Index :
    delivered[q][i] # None /\ delivered[r][i] # None =>
      delivered[q][i] = delivered[r][i]

\* The message of index i that r was sent.
Original(r, i) == messages[r].sent[i + 1]

MessagesInOrder ==
  \A r \in Receiver :
    /\ Len(messages[r].sent) = next_index /\ messages[r].seen <= next_index
    /\ \A k \in 1..next_index : messages[r].sent[k].index = k - 1
    /\ \A q \in Receiver : messages[q].sent = messages[r].sent
\* A faulty broadcaster signs nothing here: it sends what it likes.
SenderInv ==
  /\ \A k \in to_sign : k < next_index
  /\ faulty = Broadcaster => to_sign = {}
  /\ faulty # Broadcaster => MessagesInOrder

Inv ==
  /\ TypeOK /\ SenderInv /\ EchoesOrdered /\ KeptEchoed /\ EchoesSeen
  /\ RegistersSound /\ WrittenEchoed /\ TasksSound /\ ReadsDone
  /\ CountedOnce /\ OneIsSpoiled /\ DeliveredSound

-----------------------------------------------------------------------------
(* A correct broadcaster                                                    *)

AcceptedSent ==
  \A r \in Correct :
    /\ latest_polled[r] <= messages[r].seen
    /\ \A i \in Kept(r) : /\ i < messages[r].seen
                          /\ msg_tail[r][i].value = Original(r, i).value
    /\ \A o \in Others(r) : \A p \in 1..Len(echoes[o][r].sent) :
         LET e == echoes[o][r].sent[p]
         IN  e.index < next_index /\ e.value = Original(r, e.index).value
SignaturesSent ==
  \A r \in Receiver :
       LET sent == signatures[r].sent
       IN  /\ signatures[r].seen <= Len(sent)
           /\ \A k \in 1..Len(sent) :
                /\ sent[k].index < next_index /\ sent[k].index \notin to_sign
                /\ sent[k].value = Original(r, sent[k].index).value
           /\ \A a \in 1..Len(sent), b \in 1..Len(sent) :
                sent[a].index = sent[b].index => a = b
SignaturesSeen ==
  \A r \in Correct : \A i \in Kept(r) :
    msg_tail[r][i].signature # None =>
      /\ msg_tail[r][i].signature = msg_tail[r][i].value
      /\ \E p \in 1..signatures[r].seen : signatures[r].sent[p].index = i
\* If nobody is faulty, no register holds a second signature.
NoEquivocation ==
  \A r \in Correct : \A t \in verifying[r] :
    t.origin = "register" /\ t.ok => dead[r] # None

HonestInv ==
  /\ faulty # Broadcaster => AcceptedSent /\ SignaturesSent /\ SignaturesSeen
  /\ faulty = None => NoEquivocation
AlarmInv == HonestInv /\ AlarmsAreReal

-----------------------------------------------------------------------------
(* Numbers, indices and registers                                           *)

LEMMA SlotFacts ==
  ASSUME Assumption, NEW i \in Index
  PROVE  /\ i \in Nat /\ i % TailSize \in RegisterIndex
         /\ Incarnation(i) \in Nat /\ Incarnation(i) >= 1
<1>1. i \in Nat /\ TailSize \in Nat \ {0}
  BY DEF Assumption, Index
<1>2. i % TailSize \in 0..(TailSize - 1) /\ i \div TailSize \in Nat
  BY <1>1
<1> QED BY <1>1, <1>2 DEF RegisterIndex, Incarnation

(* Two messages of one register differ in their incarnation.                *)
LEMMA SlotUnique ==
  ASSUME Assumption, NEW i \in Index, NEW j \in Index,
         i % TailSize = j % TailSize, Incarnation(i) = Incarnation(j)
  PROVE  i = j
<1>1. i \in Nat /\ j \in Nat /\ TailSize \in Nat \ {0}
  BY DEF Assumption, Index
<1>2. i \div TailSize \in Nat /\ j \div TailSize \in Nat
  BY <1>1
<1>3. i \div TailSize = j \div TailSize
  BY <1>2 DEF Incarnation
<1> QED BY <1>1, <1>3

(* A set of indices has a smallest element.                                 *)
LEMMA IndexMin ==
  ASSUME NEW S \in SUBSET Nat, S # {}
  PROVE  Min(S) \in S /\ \A m \in S : Min(S) <= m
<1> DEFINE R == {x \in Nat \X Nat : x[1] < x[2]}
<1>1. IsWellFoundedOn(R, Nat)
  BY NatLessThanWellFounded DEF OpToRel
<1>2. PICK n \in S : \A m \in S : <<m, n>> \notin R
  <2> HIDE DEF R
  <2> QED BY <1>1, WFMin
<1>3. ASSUME NEW m \in S PROVE n <= m
  <2>1. ~(m < n)
    BY <1>2
  <2> QED BY <2>1
<1>4. \E x \in S : \A y \in S : x <= y
  BY <1>3
<1> HIDE DEF R
<1> QED BY <1>4 DEF Min

-----------------------------------------------------------------------------
(* Links and buffers                                                        *)

(* What arrives from a correct process is the next unread entry it sent, or *)
(* a later one; what arrives from a faulty process is anything.             *)
LEMMA ArrivingFacts ==
  ASSUME NEW S, NEW l \in [sent : Seq(S), seen : Nat], NEW from, NEW values,
         NEW bound, NEW a \in Arriving(l, from, values, bound)
  PROVE  /\ a.at \in Nat /\ a.at > l.seen
         /\ from # faulty => a.at <= Len(l.sent) /\ a.msg = l.sent[a.at]
         /\ from # faulty => a.msg \in S
         /\ from = faulty => a.msg \in [index : Index, value : values]
<1>0. l.seen \in Nat /\ l.sent \in Seq(S) /\ Len(l.sent) \in Nat
  OBVIOUS
<1>1. CASE from = faulty
  BY <1>0, <1>1 DEF Arriving
<1>2. CASE from # faulty
  <2>1. PICK p \in Readable(l) : a = [at |-> p, msg |-> l.sent[p]]
    BY <1>2 DEF Arriving
  <2>2. p \in (l.seen + 1)..Len(l.sent)
    BY <2>1 DEF Readable
  <2>3. p \in Nat /\ p > l.seen /\ p <= Len(l.sent) /\ p >= 1
    BY <1>0, <2>2
  <2>4. l.sent[p] \in S
    BY <1>0, <2>3
  <2> QED BY <1>2, <2>1, <2>3, <2>4
<1> QED BY <1>1, <1>2

(* The echoes still pending once message i is there are buffered ones.      *)
LEMMA PendingFacts ==
  ASSUME NEW S, \A e \in S : e.index \in Nat, NEW b \in Seq(S), NEW i \in Nat
  PROVE  /\ Pending(b, i) \in Seq(S)
         /\ \A k \in 1..Len(Pending(b, i)) :
              \E j \in 1..Len(b) : Pending(b, i)[k] = b[j]
<1> DEFINE later == {k \in 1..Len(b) : b[k].index >= i}
<1>1. CASE later = {}
  <2>1. Pending(b, i) = << >>
    BY <1>1 DEF Pending
  <2> QED BY <2>1
<1>2. CASE later # {}
  <2>1. Pending(b, i) = SubSeq(b, Min(later), Len(b))
    BY <1>2 DEF Pending
  <2>2. later \in SUBSET Nat
    OBVIOUS
  <2>3. Min(later) \in 1..Len(b)
    <3>1. Min(later) \in later
      <4> HIDE DEF later
      <4> QED BY <1>2, <2>2, IndexMin
    <3> QED BY <3>1
  <2> DEFINE n == Min(later)
  <2> HIDE DEF later, n
  <2>4. n \in 1..Len(b) /\ Len(b) \in Nat
    BY <2>3 DEF n
  <2>5. Pending(b, i) = SubSeq(b, n, Len(b))
    BY <2>1 DEF n
  <2>6. /\ SubSeq(b, n, Len(b)) \in Seq(S)
        /\ Len(SubSeq(b, n, Len(b))) = Len(b) - n + 1
        /\ \A k \in 1..(Len(b) - n + 1) : SubSeq(b, n, Len(b))[k] = b[n + k - 1]
    BY <2>4
  <2>7. \A k \in 1..(Len(b) - n + 1) : n + k - 1 \in 1..Len(b)
    BY <2>4
  <2> QED BY <2>5, <2>6, <2>7
<1> QED BY <1>1, <1>2

-----------------------------------------------------------------------------
(* Type correctness                                                         *)

LEMMA TypeInit == ASSUME Assumption, Init PROVE TypeOK
<1>0. TailSize \in Nat \ {0} /\ MaxIndex \in Nat
  BY DEF Assumption
<1>1. EmptyLink \in Link
  BY DEF EmptyLink, Link
<1>2. /\ faulty \in {None, Broadcaster} \cup Receiver
      /\ next_index \in Nat /\ to_sign \in SUBSET Index
      /\ messages \in [Receiver -> Link] /\ signatures \in [Receiver -> Link]
      /\ latest_polled \in [Receiver -> Nat]
      /\ verifying \in [Receiver -> SUBSET Task]
      /\ dead \in [Receiver -> Cause] /\ discarded \in [Receiver -> SUBSET Index]
      /\ delivered \in [Receiver -> [Index -> Payload \cup {None}]]
      /\ outstanding_writes \in [Receiver -> [RegisterIndex -> Index \cup {Idle}]]
  BY <1>1 DEF Init, Cause
<1>3. /\ DOMAIN echoes = Receiver /\ DOMAIN buffered_echoes = Receiver
      /\ \A r \in Receiver : echoes[r] \in [Others(r) -> Link]
      /\ \A r \in Receiver : buffered_echoes[r] \in [Others(r) -> Seq(Echo)]
  BY <1>1 DEF Init
<1>4. /\ DOMAIN msg_tail = Receiver /\ DOMAIN outstanding_reads = Receiver
      /\ \A r \in Receiver : Kept(r) = {} /\ DOMAIN outstanding_reads[r] = {}
  BY DEF Init, Kept, Empty
<1>5. registers \in [Receiver -> [RegisterIndex -> Register]]
  <2>1. [inc |-> 0, value |-> None] \in [inc : Nat, value : Value]
    BY DEF Value
  <2>2. <<[inc |-> 0, value |-> None]>> \in Seq([inc : Nat, value : Value])
    BY <2>1
  <2>3. [log |-> <<[inc |-> 0, value |-> None]>>, done |-> 1] \in Register
    BY <2>2 DEF Register
  <2> QED BY <2>3 DEF Init
<1> QED BY <1>2, <1>3, <1>4, <1>5 DEF TypeOK

(* An entry put in a map, or dropped from it. *)
LEMMA DropFacts ==
  ASSUME NEW m, NEW i
  PROVE  /\ DOMAIN Drop(m, i) = DOMAIN m \ {i}
         /\ \A j \in DOMAIN m : j # i => Drop(m, i)[j] = m[j]
BY DEF Drop

LEMMA EchoFacts ==
  ASSUME Assumption
  PROVE  /\ \A e \in Echo : e.index \in Index /\ e.index \in Nat
         /\ \A e \in Sent : e.index \in Index /\ e.index \in Nat /\ e.value \in Payload
         /\ Sent \subseteq Echo
         /\ \A i \in Index : i \in Nat /\ i \in Int
BY DEF Echo, Sent, Index, Assumption

(* What a link holds after a send.                                          *)
LEMMA SendFacts ==
  ASSUME NEW l \in Link, NEW m \in Sent
  PROVE  /\ SendOn(l, m) \in Link /\ SendOn(l, m).seen = l.seen
         /\ Len(SendOn(l, m).sent) = Len(l.sent) + 1 /\ Len(l.sent) \in Nat
         /\ \A p \in 1..Len(l.sent) : SendOn(l, m).sent[p] = l.sent[p]
         /\ SendOn(l, m).sent[Len(l.sent) + 1] = m
BY DEF SendOn, Link

LEMMA TypeBroadcast == ASSUME Assumption, TypeOK, Broadcast PROVE TypeOK'
<1>1. next_index \in Index /\ next_index + 1 \in Nat
  BY DEF Broadcast, TypeOK, Index, Assumption
<1>2. PICK v \in Payload : messages' = [r \in Receiver |->
                     SendOn(messages[r], Message(next_index, v))]
  BY DEF Broadcast
<1>3. ASSUME NEW r \in Receiver
      PROVE  SendOn(messages[r], Message(next_index, v)) \in Link
  <2>1. Message(next_index, v) \in Sent
    BY <1>1 DEF Message, Sent
  <2>2. messages[r] \in Link
    BY DEF TypeOK
  <2> QED BY <2>1, <2>2, SendFacts
<1>4. messages' \in [Receiver -> Link]
  BY <1>2, <1>3
<1>5. next_index' \in Nat /\ to_sign' \in SUBSET Index
  BY <1>1 DEF Broadcast, TypeOK
<1> QED BY <1>4, <1>5 DEF TypeOK, Broadcast, Kept, slow

LEMMA TypePoll == ASSUME Assumption, TypeOK, NEW r \in Receiver, Poll(r) PROVE TypeOK'
<1> DEFINE i == Min(Kept(r))
<1>1. Kept(r) \subseteq Nat /\ Kept(r) # {}
  BY EchoFacts DEF TypeOK, Poll
<1>2. i \in Kept(r)
  BY <1>1, IndexMin
<1>3. i \in Index /\ i \in Nat /\ msg_tail[r][i] \in MessageData
  BY <1>2, EchoFacts DEF TypeOK
<1>4. /\ latest_polled' = [latest_polled EXCEPT ![r] = i + 1]
      /\ delivered' = [delivered EXCEPT ![r][i] = msg_tail[r][i].value]
      /\ msg_tail' = [msg_tail EXCEPT ![r] = Drop(@, i)]
  BY DEF Poll
<1> HIDE DEF i
<1>5. latest_polled' \in [Receiver -> Nat]
  BY <1>3, <1>4 DEF TypeOK
<1>6. delivered' \in [Receiver -> [Index -> Payload \cup {None}]]
  BY <1>3, <1>4 DEF TypeOK, MessageData
<1>7. DOMAIN msg_tail' = Receiver
  BY <1>4 DEF TypeOK
<1>8. ASSUME NEW q \in Receiver
      PROVE  /\ Kept(q)' \subseteq Index
             /\ \A j \in Kept(q)' : msg_tail'[q][j] \in MessageData
  <2>1. CASE q = r
    <3>1. msg_tail'[q] = Drop(msg_tail[r], i)
      BY <1>4, <2>1 DEF TypeOK
    <3>2. /\ DOMAIN Drop(msg_tail[r], i) = Kept(r) \ {i}
          /\ \A j \in Kept(r) : j # i => Drop(msg_tail[r], i)[j] = msg_tail[r][j]
      BY DropFacts DEF Kept
    <3>3. Kept(q)' = Kept(r) \ {i}
      BY <3>1, <3>2 DEF Kept
    <3> QED BY <3>1, <3>2, <3>3 DEF TypeOK
  <2>2. CASE q # r
    BY <1>4, <2>2 DEF TypeOK, Kept
  <2> QED BY <2>1, <2>2
<1> QED BY <1>5, <1>6, <1>7, <1>8 DEF TypeOK, Poll, slow, links

(* The original of a message a correct broadcaster sent is typed.           *)
LEMMA TypeSign == ASSUME Assumption, TypeOK, NEW j \in Index, Sign(j),
                         SenderInv
                  PROVE TypeOK'
<1>1. to_sign' \in SUBSET Index
  BY DEF Sign, TypeOK
<1>2. signatures' \in [Receiver -> Link]
  <2>1. CASE next_index - j > TailSize
    BY <2>1 DEF Sign, TypeOK
  <2>2. CASE ~(next_index - j > TailSize)
    <3>1. signatures' = [r \in Receiver |->
              SendOn(signatures[r], SignatureMessage(j, SentValue(j)))]
      BY <2>2 DEF Sign
    <3>2. ASSUME NEW r \in Receiver
          PROVE  SendOn(signatures[r], SignatureMessage(j, SentValue(j))) \in Link
      <4>1. PICK q \in Receiver : q = CHOOSE x \in Receiver : TRUE
        BY <3>2
      <4>2. SentValue(j) = messages[q].sent[j + 1].value
        BY <4>1 DEF SentValue
      <4>3. j < next_index /\ j \in Nat /\ next_index \in Nat
        BY EchoFacts DEF Sign, TypeOK, SenderInv
      <4>4. j + 1 \in 1..Len(messages[q].sent)
        BY <4>3, EchoFacts DEF SenderInv, MessagesInOrder, Sign, TypeOK
      <4>5. messages[q].sent \in Seq(Sent)
        BY DEF TypeOK, Link
      <4>6. messages[q].sent[j + 1] \in Sent
        BY <4>4, <4>5
      <4>7. SignatureMessage(j, SentValue(j)) \in Sent
        BY <4>2, <4>6, EchoFacts DEF SignatureMessage, Sent
      <4>8. signatures[r] \in Link
        BY DEF TypeOK
      <4> QED BY <4>7, <4>8, SendFacts
    <3> QED BY <3>1, <3>2
  <2> QED BY <2>1, <2>2
<1> QED BY <1>1, <1>2 DEF TypeOK, Sign, Kept, slow

LEMMA TypeAccept ==
  ASSUME Assumption, TypeOK, NEW r \in Receiver, NEW m \in Sent, Accept(r, m)
  PROVE  /\ DOMAIN msg_tail' = Receiver
         /\ \A q \in Receiver : /\ Kept(q)' \subseteq Index
                                /\ \A i \in Kept(q)' : msg_tail'[q][i] \in MessageData
         /\ DOMAIN buffered_echoes' = Receiver
         /\ \A q \in Receiver : buffered_echoes'[q] \in [Others(q) -> Seq(Echo)]
         /\ DOMAIN echoes' = Receiver
         /\ \A q \in Receiver : echoes'[q] \in [Others(q) -> Link]
<1> DEFINE early == {q \in Others(r) : Replays(buffered_echoes[r][q], m.index)}
           data == [NewData(m.value) EXCEPT
                      !.echoes = early,
                      !.match = \A q \in early :
                        Head(Pending(buffered_echoes[r][q], m.index)).value = m.value]
           all == Put(msg_tail[r], m.index, data)
           left == [q \in Others(r) |-> LET b == Pending(buffered_echoes[r][q], m.index)
                                        IN  IF q \in early THEN Tail(b) ELSE b]
           new == IF Cardinality(DOMAIN all) > TailSize THEN Drop(all, Min(DOMAIN all))
                  ELSE all
<1>1. /\ msg_tail' = [msg_tail EXCEPT ![r] = new]
      /\ buffered_echoes' = [buffered_echoes EXCEPT ![r] = left]
      /\ echoes' = [o \in Receiver |-> IF o = r THEN echoes[o]
                     ELSE [echoes[o] EXCEPT ![r] = SendOn(@, m)]]
  BY DEF Accept
<1>2. m.index \in Index /\ m.index \in Nat /\ m.value \in Payload
  BY EchoFacts
<1>3. early \subseteq Receiver
  BY DEF Others
<1>4. data \in MessageData
  <2> HIDE DEF early
  <2> QED BY <1>2, <1>3 DEF NewData, MessageData, Value
<1>5. ASSUME NEW q \in Others(r) PROVE left[q] \in Seq(Echo)
  <2>1. buffered_echoes[r][q] \in Seq(Echo)
    BY DEF TypeOK
  <2>2. Pending(buffered_echoes[r][q], m.index) \in Seq(Echo)
    BY <1>2, <2>1, EchoFacts, PendingFacts
  <2>3. q \in early => Pending(buffered_echoes[r][q], m.index) # << >>
    BY DEF Replays
  <2> HIDE DEF early
  <2>4. q \in early => Tail(Pending(buffered_echoes[r][q], m.index)) \in Seq(Echo)
    BY <2>2, <2>3
  <2> QED BY <2>2, <2>4
<1>6. DOMAIN left = Others(r)
  OBVIOUS
<1> HIDE DEF early, data
<1>7. /\ DOMAIN all = Kept(r) \cup {m.index} /\ all[m.index] = data
      /\ \A j \in Kept(r) : j # m.index => all[j] = msg_tail[r][j]
  BY DEF Put, Kept
<1> HIDE DEF all
<1>8. DOMAIN all \subseteq Index /\ \A j \in DOMAIN all : all[j] \in MessageData
  BY <1>2, <1>4, <1>7 DEF TypeOK
<1>9. DOMAIN new \subseteq Index /\ \A j \in DOMAIN new : new[j] \in MessageData
  <2>1. CASE Cardinality(DOMAIN all) > TailSize
    <3>1. new = Drop(all, Min(DOMAIN all))
      BY <2>1
    <3>2. /\ DOMAIN new \subseteq DOMAIN all
          /\ \A j \in DOMAIN new : new[j] = all[j]
      BY <3>1 DEF Drop
    <3> QED BY <1>8, <3>2
  <2>2. CASE ~(Cardinality(DOMAIN all) > TailSize)
    BY <1>8, <2>2
  <2> QED BY <2>1, <2>2
<1> HIDE DEF left, new
<1>10. /\ DOMAIN msg_tail' = Receiver
       /\ \A q \in Receiver : /\ Kept(q)' \subseteq Index
                              /\ \A i \in Kept(q)' : msg_tail'[q][i] \in MessageData
  BY <1>1, <1>9 DEF TypeOK, Kept
<1>11. left \in [Others(r) -> Seq(Echo)]
  <2>1. left = [q \in Others(r) |-> left[q]]
    BY DEF left
  <2> QED BY <2>1, <1>5
<1>12. /\ DOMAIN buffered_echoes' = Receiver
       /\ \A q \in Receiver : buffered_echoes'[q] \in [Others(q) -> Seq(Echo)]
  BY <1>1, <1>11 DEF TypeOK
<1>13. ASSUME NEW o \in Receiver PROVE echoes'[o] \in [Others(o) -> Link]
  <2>1. CASE o = r
    BY <1>1, <2>1 DEF TypeOK
  <2>2. CASE o # r
    <3>1. echoes[o] \in [Others(o) -> Link] /\ r \in Others(o)
      BY <2>2 DEF TypeOK, Others
    <3>2. SendOn(echoes[o][r], m) \in Link
      BY <3>1, SendFacts
    <3>3. echoes'[o] = [echoes[o] EXCEPT ![r] = SendOn(echoes[o][r], m)]
      BY <1>1, <2>2
    <3> QED BY <3>1, <3>2, <3>3
  <2> QED BY <2>1, <2>2
<1>14. DOMAIN echoes' = Receiver
  BY <1>1
<1> QED BY <1>10, <1>12, <1>13, <1>14

(* What r may take from the broadcaster's links.                            *)
LEMMA PolledType ==
  ASSUME Assumption, TypeOK, NEW r \in Receiver
  PROVE  /\ \A a \in Arriving(messages[r], Broadcaster, Payload, MaxMessages) :
              /\ a.msg \in Sent /\ a.at \in Nat /\ a.at > messages[r].seen
              /\ Broadcaster # faulty => /\ a.at <= Len(messages[r].sent)
                                         /\ a.msg = messages[r].sent[a.at]
         /\ \A a \in Arriving(signatures[r], Broadcaster, Payload \cup {Garbage},
                              MaxSignatures) :
              /\ a.msg \in Echo /\ a.at \in Nat /\ a.at > signatures[r].seen
              /\ Broadcaster # faulty => /\ a.at <= Len(signatures[r].sent)
                                         /\ a.msg = signatures[r].sent[a.at]
         /\ \A q \in Others(r) :
              \A a \in Arriving(echoes[r][q], q, Payload \cup {Garbage}, MaxEchoes) :
                /\ a.msg \in Echo /\ a.at \in Nat /\ a.at > echoes[r][q].seen
                /\ q # faulty => /\ a.at <= Len(echoes[r][q].sent)
                                 /\ a.msg = echoes[r][q].sent[a.at]
<1>1. /\ messages[r] \in [sent : Seq(Sent), seen : Nat]
      /\ signatures[r] \in [sent : Seq(Sent), seen : Nat]
      /\ \A q \in Others(r) : echoes[r][q] \in [sent : Seq(Sent), seen : Nat]
  BY DEF TypeOK, Link
<1>2. ASSUME NEW a \in Arriving(messages[r], Broadcaster, Payload, MaxMessages)
      PROVE  /\ a.msg \in Sent /\ a.at \in Nat /\ a.at > messages[r].seen
             /\ Broadcaster # faulty => /\ a.at <= Len(messages[r].sent)
                                        /\ a.msg = messages[r].sent[a.at]
  <2>1. /\ a.at \in Nat /\ a.at > messages[r].seen
        /\ Broadcaster # faulty => /\ a.at <= Len(messages[r].sent)
                                   /\ a.msg = messages[r].sent[a.at]
        /\ Broadcaster # faulty => a.msg \in Sent
        /\ Broadcaster = faulty => a.msg \in [index : Index, value : Payload]
    BY <1>1, ArrivingFacts
  <2> QED BY <2>1 DEF Sent
<1>3. ASSUME NEW a \in Arriving(signatures[r], Broadcaster, Payload \cup {Garbage},
                                MaxSignatures)
      PROVE  /\ a.msg \in Echo /\ a.at \in Nat /\ a.at > signatures[r].seen
             /\ Broadcaster # faulty => /\ a.at <= Len(signatures[r].sent)
                                        /\ a.msg = signatures[r].sent[a.at]
  <2>1. /\ a.at \in Nat /\ a.at > signatures[r].seen
        /\ Broadcaster # faulty => /\ a.at <= Len(signatures[r].sent)
                                   /\ a.msg = signatures[r].sent[a.at]
        /\ Broadcaster # faulty => a.msg \in Sent
        /\ Broadcaster = faulty => a.msg \in [index : Index, value : Payload \cup {Garbage}]
    BY <1>1, ArrivingFacts
  <2> QED BY <2>1, EchoFacts DEF Echo
<1>4. ASSUME NEW q \in Others(r),
             NEW a \in Arriving(echoes[r][q], q, Payload \cup {Garbage}, MaxEchoes)
      PROVE  /\ a.msg \in Echo /\ a.at \in Nat /\ a.at > echoes[r][q].seen
             /\ q # faulty => /\ a.at <= Len(echoes[r][q].sent)
                              /\ a.msg = echoes[r][q].sent[a.at]
  <2>1. echoes[r][q] \in [sent : Seq(Sent), seen : Nat]
    BY <1>1
  <2>2. /\ a.at \in Nat /\ a.at > echoes[r][q].seen
        /\ q # faulty => /\ a.at <= Len(echoes[r][q].sent)
                         /\ a.msg = echoes[r][q].sent[a.at]
        /\ q # faulty => a.msg \in Sent
        /\ q = faulty => a.msg \in [index : Index, value : Payload \cup {Garbage}]
    BY <2>1, ArrivingFacts
  <2> QED BY <2>2, EchoFacts DEF Echo
<1> QED BY <1>2, <1>3, <1>4

LEMMA TypePollMessage ==
  ASSUME Assumption, TypeOK, NEW r \in Receiver, PollMessage(r) PROVE TypeOK'
<1>1. PICK a \in Arriving(messages[r], Broadcaster, Payload, MaxMessages) :
        /\ messages' = [messages EXCEPT ![r].seen = a.at]
        /\ \/ /\ Throw(r, "broadcaster")
              /\ UNCHANGED <<msg_tail, buffered_echoes, echoes>>
           \/ UNCHANGED <<msg_tail, buffered_echoes, echoes, dead>>
           \/ Accept(r, a.msg) /\ UNCHANGED dead
  BY DEF PollMessage
<1>2. a.msg \in Sent /\ a.at \in Nat
  BY PolledType
<1>3. messages' \in [Receiver -> Link]
  BY ZenonT(40), <1>1, <1>2 DEF TypeOK, Link
<1>4. dead' \in [Receiver -> Cause]
  BY <1>1 DEF TypeOK, Throw, Cause
<1>5. CASE UNCHANGED <<msg_tail, buffered_echoes, echoes>>
  BY <1>3, <1>4, <1>5 DEF TypeOK, PollMessage, slow, Kept
<1>6. CASE Accept(r, a.msg)
  <2>1. /\ DOMAIN msg_tail' = Receiver
        /\ \A q \in Receiver : /\ Kept(q)' \subseteq Index
                               /\ \A i \in Kept(q)' : msg_tail'[q][i] \in MessageData
        /\ DOMAIN buffered_echoes' = Receiver
        /\ \A q \in Receiver : buffered_echoes'[q] \in [Others(q) -> Seq(Echo)]
        /\ DOMAIN echoes' = Receiver
        /\ \A q \in Receiver : echoes'[q] \in [Others(q) -> Link]
    BY <1>2, <1>6, TypeAccept
  <2> QED BY <1>3, <1>4, <2>1 DEF TypeOK, PollMessage, slow
<1> QED BY <1>1, <1>5, <1>6

(* One entry of r's map changes.                                            *)
LEMMA TypeChange ==
  ASSUME TypeOK, NEW r \in Receiver, NEW i \in Kept(r), NEW d \in MessageData,
         msg_tail' = [msg_tail EXCEPT ![r][i] = d]
  PROVE  /\ DOMAIN msg_tail' = Receiver
         /\ \A q \in Receiver : Kept(q)' = Kept(q)
         /\ \A q \in Receiver : /\ Kept(q)' \subseteq Index
                                /\ \A j \in Kept(q)' : msg_tail'[q][j] \in MessageData
         /\ msg_tail'[r][i] = d
         /\ \A q \in Receiver : \A j \in Kept(q) :
              q # r \/ j # i => msg_tail'[q][j] = msg_tail[q][j]
<1>1. DOMAIN msg_tail = Receiver /\ DOMAIN msg_tail' = Receiver
  BY DEF TypeOK
<1>2. /\ msg_tail'[r] = [msg_tail[r] EXCEPT ![i] = d]
      /\ \A q \in Receiver : q # r => msg_tail'[q] = msg_tail[q]
  BY <1>1
<1>3. \A q \in Receiver : Kept(q)' = Kept(q)
  BY <1>2 DEF Kept
<1>4. msg_tail'[r][i] = d
  BY <1>2 DEF Kept
<1>5. \A q \in Receiver : \A j \in Kept(q) :
        q # r \/ j # i => msg_tail'[q][j] = msg_tail[q][j]
  BY <1>2 DEF Kept
<1> QED BY <1>1, <1>3, <1>4, <1>5 DEF TypeOK

LEMMA TypePollEcho ==
  ASSUME Assumption, TypeOK, NEW r \in Receiver, NEW q \in Others(r), PollEcho(r, q)
  PROVE  TypeOK'
<1>1. PICK a \in Arriving(echoes[r][q], q, Payload \cup {Garbage}, MaxEchoes) :
        /\ echoes' = [echoes EXCEPT ![r][q].seen = a.at]
        /\ handleEcho(r, q, a.msg)
  BY DEF PollEcho
<1> DEFINE e == a.msg
           buffer == buffered_echoes[r][q]
           longer == Append(buffer, e)
<1>2. e \in Echo /\ a.at \in Nat /\ q \in Receiver
  BY PolledType DEF Others
<1>3. /\ DOMAIN echoes' = Receiver
      /\ \A o \in Receiver : echoes'[o] \in [Others(o) -> Link]
  <2>1. echoes[r] \in [Others(r) -> Link] /\ echoes[r][q] \in Link
    BY DEF TypeOK
  <2>2. [echoes[r][q] EXCEPT !.seen = a.at] \in Link
    BY <1>2, <2>1 DEF Link
  <2>3. /\ echoes'[r] = [echoes[r] EXCEPT ![q] = [echoes[r][q] EXCEPT !.seen = a.at]]
        /\ \A o \in Receiver : o # r => echoes'[o] = echoes[o]
        /\ DOMAIN echoes' = Receiver
    BY <1>1, <2>1 DEF TypeOK
  <2>4. echoes'[r] \in [Others(r) -> Link]
    BY <2>1, <2>2, <2>3
  <2>5. \A o \in Receiver : o # r => echoes'[o] \in [Others(o) -> Link]
    BY <2>3 DEF TypeOK
  <2> QED BY <2>3, <2>4, <2>5
<1>4. dead' \in [Receiver -> Cause]
  BY <1>1 DEF handleEcho, Throw, TypeOK, Cause
<1>5. buffer \in Seq(Echo)
  BY DEF TypeOK
<1>6. /\ longer \in Seq(Echo) /\ longer # << >>
      /\ Tail(longer) \in Seq(Echo)
  <2>1. longer \in Seq(Echo) /\ Len(longer) = Len(buffer) + 1 /\ Len(buffer) \in Nat
    BY <1>2, <1>5
  <2> HIDE DEF longer
  <2>2. longer # << >>
    BY <2>1
  <2> QED BY <2>1, <2>2
<1>7. CASE UNCHANGED <<msg_tail, buffered_echoes>>
  BY <1>3, <1>4, <1>7 DEF TypeOK, PollEcho, slow, Kept
<1>8. CASE /\ e.index \in Kept(r) /\ UNCHANGED buffered_echoes
           /\ msg_tail' = [msg_tail EXCEPT ![r][e.index] = echoed(@, q, e.value)]
  <2>1. msg_tail[r][e.index] \in MessageData
    BY <1>8 DEF TypeOK
  <2>2. echoed(msg_tail[r][e.index], q, e.value) \in MessageData
    BY <1>2, <2>1 DEF echoed, MessageData
  <2>3. msg_tail' = [msg_tail EXCEPT ![r][e.index] =
                       echoed(msg_tail[r][e.index], q, e.value)]
    BY <1>8 DEF TypeOK, Kept
  <2>4. /\ DOMAIN msg_tail' = Receiver
        /\ \A o \in Receiver : /\ Kept(o)' \subseteq Index
                               /\ \A j \in Kept(o)' : msg_tail'[o][j] \in MessageData
    BY <1>8, <2>2, <2>3, TypeChange
  <2> QED BY <1>3, <1>4, <1>8, <2>4 DEF TypeOK, PollEcho, slow
<1>9. CASE /\ UNCHANGED msg_tail
           /\ buffered_echoes' = [buffered_echoes EXCEPT ![r][q] =
                IF Len(longer) > TailSize THEN Tail(longer) ELSE longer]
  <2> DEFINE b == IF Len(longer) > TailSize THEN Tail(longer) ELSE longer
  <2>1. b \in Seq(Echo)
    BY <1>6
  <2> HIDE DEF b
  <2>2. buffered_echoes' = [buffered_echoes EXCEPT ![r][q] = b]
    BY <1>9 DEF b
  <2>3. /\ DOMAIN buffered_echoes' = Receiver
        /\ buffered_echoes'[r] = [buffered_echoes[r] EXCEPT ![q] = b]
        /\ \A o \in Receiver : o # r => buffered_echoes'[o] = buffered_echoes[o]
    BY <2>2 DEF TypeOK
  <2>4. buffered_echoes[r] \in [Others(r) -> Seq(Echo)]
    BY DEF TypeOK
  <2>5. buffered_echoes'[r] \in [Others(r) -> Seq(Echo)]
    BY <2>1, <2>3, <2>4
  <2>6. \A o \in Receiver : o # r => buffered_echoes'[o] \in [Others(o) -> Seq(Echo)]
    BY <2>3 DEF TypeOK
  <2>7. \A o \in Receiver : buffered_echoes'[o] \in [Others(o) -> Seq(Echo)]
    BY <2>5, <2>6
  <2> QED BY <1>3, <1>4, <1>9, <2>3, <2>7 DEF TypeOK, PollEcho, slow, Kept
<1> QED BY <1>1, <1>7, <1>8, <1>9 DEF handleEcho

LEMMA TypePollSignature ==
  ASSUME Assumption, TypeOK, NEW r \in Receiver, PollSignature(r) PROVE TypeOK'
<1>1. PICK a \in Arriving(signatures[r], Broadcaster, Payload \cup {Garbage},
                          MaxSignatures) :
        /\ signatures' = [signatures EXCEPT ![r].seen = a.at]
        /\ handleSignature(r, a.msg)
  BY DEF PollSignature
<1> DEFINE s == a.msg
<1>2. s \in Echo /\ a.at \in Nat /\ s.index \in Index
  BY PolledType, EchoFacts
<1>3. signatures' \in [Receiver -> Link]
  BY ZenonT(40), <1>1, <1>2 DEF TypeOK, Link
<1>4. dead' \in [Receiver -> Cause] /\ discarded' \in [Receiver -> SUBSET Index]
  <2>1. dead' = dead \/ dead' = [dead EXCEPT ![r] = "broadcaster"]
    BY <1>1 DEF handleSignature, Throw
  <2>2. \/ discarded' = discarded
        \/ discarded' = [discarded EXCEPT ![r] = @ \cup {s.index}]
    BY <1>1 DEF handleSignature
  <2>3. dead' \in [Receiver -> Cause]
    BY <2>1 DEF TypeOK, Cause
  <2>4. discarded' \in [Receiver -> SUBSET Index]
    <3>1. discarded \in [Receiver -> SUBSET Index]
      BY DEF TypeOK
    <3>2. discarded[r] \cup {s.index} \in SUBSET Index
      BY <1>2, <3>1
    <3> HIDE DEF s
    <3> QED BY <2>2, <3>1, <3>2
  <2> QED BY <2>3, <2>4
<1>5. CASE UNCHANGED <<msg_tail, verifying>>
  BY <1>3, <1>4, <1>5 DEF TypeOK, PollSignature, Kept
<1>6. CASE /\ s.index \in Kept(r)
           /\ msg_tail' = [msg_tail EXCEPT ![r][s.index].signature = s.value]
           /\ verifying' = [verifying EXCEPT ![r] = @ \cup
                {[index |-> s.index, origin |-> "broadcaster",
                  ok |-> s.value = msg_tail[r][s.index].value]}]
  <2> DEFINE d == [msg_tail[r][s.index] EXCEPT !.signature = s.value]
             t == [index |-> s.index, origin |-> "broadcaster",
                   ok |-> s.value = msg_tail[r][s.index].value]
  <2>1. t \in Task
    BY <1>2 DEF Task, Origin
  <2>2. msg_tail[r][s.index] \in MessageData
    BY <1>6 DEF TypeOK
  <2>3. s.value \in Value
    BY <1>2 DEF Echo, Value
  <2>4. d \in MessageData
    BY <2>2, <2>3 DEF MessageData
  <2>5. msg_tail' = [msg_tail EXCEPT ![r][s.index] = d]
    BY <1>6
  <2> HIDE DEF d, t
  <2>6. /\ DOMAIN msg_tail' = Receiver
        /\ \A o \in Receiver : /\ Kept(o)' \subseteq Index
                               /\ \A j \in Kept(o)' : msg_tail'[o][j] \in MessageData
    BY <1>6, <2>4, <2>5, TypeChange
  <2>7. verifying' = [verifying EXCEPT ![r] = verifying[r] \cup {t}]
    BY <1>6 DEF t, TypeOK
  <2>8. verifying' \in [Receiver -> SUBSET Task]
    BY <2>1, <2>7 DEF TypeOK
  <2> QED BY <1>3, <1>4, <2>6, <2>8 DEF TypeOK, PollSignature
<1> QED BY <1>1, <1>5, <1>6 DEF handleSignature

(* What WriteRegister appends to r's register for a message it keeps.       *)
LEMMA WriteFacts ==
  ASSUME Assumption, TypeOK, NEW r \in Receiver, NEW i \in Kept(r),
         WriteRegister(r, i)
  PROVE  \/ /\ dead' = [dead EXCEPT ![r] = "recycled"]
            /\ UNCHANGED <<registers, outstanding_writes>>
         \/ /\ outstanding_writes[r][i % TailSize] = Idle
            /\ Incarnation(i) > Last(registers[r][i % TailSize].log).inc
            /\ UNCHANGED dead
            /\ registers' = [registers EXCEPT ![r][i % TailSize].log = Append(@,
                 [inc |-> Incarnation(i), value |-> msg_tail[r][i].signature])]
            /\ outstanding_writes' = [outstanding_writes EXCEPT ![r][i % TailSize] = i]
BY DEF WriteRegister, Throw

(* One register of r changes.                                               *)
LEMMA RegisterChange ==
  ASSUME TypeOK, NEW r \in Receiver, NEW s \in RegisterIndex, NEW g \in Register,
         registers' = [registers EXCEPT ![r][s] = g]
  PROVE  /\ registers' \in [Receiver -> [RegisterIndex -> Register]]
         /\ registers'[r][s] = g
         /\ \A q \in Receiver : \A z \in RegisterIndex :
              q # r \/ z # s => registers'[q][z] = registers[q][z]
<1>1. registers \in [Receiver -> [RegisterIndex -> Register]]
  BY DEF TypeOK
<1>2. /\ registers'[r] = [registers[r] EXCEPT ![s] = g]
      /\ \A q \in Receiver : q # r => registers'[q] = registers[q]
      /\ registers' = [q \in Receiver |-> registers'[q]]
  BY <1>1
<1>3. registers'[r] \in [RegisterIndex -> Register] /\ registers'[r][s] = g
  BY <1>1, <1>2
<1>4. \A q \in Receiver : registers'[q] \in [RegisterIndex -> Register]
  BY <1>1, <1>2, <1>3
<1> QED BY <1>1, <1>2, <1>3, <1>4

LEMMA TypePollVerification ==
  ASSUME Assumption, TypeOK, NEW r \in Receiver, PollVerification(r) PROVE TypeOK'
<1>1. PICK t \in verifying[r] :
        /\ verifying' = [verifying EXCEPT ![r] = @ \ {t}]
        /\ \/ UNCHANGED <<msg_tail, registers, outstanding_writes, dead>>
           \/ /\ t.index \in Kept(r) /\ WriteRegister(r, t.index)
              /\ UNCHANGED msg_tail
           \/ /\ Throw(r, IF t.ok THEN "equivocation" ELSE "broadcaster")
              /\ UNCHANGED <<msg_tail, registers, outstanding_writes>>
           \/ /\ t.index \in Kept(r)
              /\ msg_tail' = [msg_tail EXCEPT ![r][t.index].checked = @ + 1]
              /\ UNCHANGED <<registers, outstanding_writes, dead>>
  BY DEF PollVerification
<1>2. t \in Task /\ t.index \in Index
  BY DEF TypeOK, Task
<1>3. verifying' \in [Receiver -> SUBSET Task]
  BY <1>1 DEF TypeOK
<1>4. CASE UNCHANGED <<msg_tail, registers, outstanding_writes>>
  <2>1. dead' \in [Receiver -> Cause]
    BY <1>1 DEF TypeOK, Throw, WriteRegister, Cause
  <2> QED BY <1>3, <1>4, <2>1 DEF TypeOK, PollVerification, links, Kept
<1>5. CASE /\ t.index \in Kept(r) /\ WriteRegister(r, t.index)
           /\ UNCHANGED msg_tail
  <2> DEFINE i == t.index
             z == i % TailSize
             e == [inc |-> Incarnation(i), value |-> msg_tail[r][i].signature]
  <2>1. CASE /\ dead' = [dead EXCEPT ![r] = "recycled"]
             /\ UNCHANGED <<registers, outstanding_writes>>
    <3>1. dead' \in [Receiver -> Cause]
      BY <2>1 DEF TypeOK, Cause
    <3> QED BY <1>3, <1>5, <2>1, <3>1 DEF TypeOK, PollVerification, links, Kept
  <2>2. CASE /\ UNCHANGED dead
             /\ registers' = [registers EXCEPT ![r][z].log = Append(@, e)]
             /\ outstanding_writes' = [outstanding_writes EXCEPT ![r][z] = i]
    <3>1. z \in RegisterIndex /\ Incarnation(i) \in Nat
      BY <1>2, SlotFacts
    <3>2. e \in [inc : Nat, value : Value]
      BY <1>5, <3>1 DEF TypeOK, MessageData
    <3> DEFINE g == [registers[r][z] EXCEPT !.log = Append(@, e)]
    <3> HIDE DEF e, z, i
    <3>3. registers[r][z] \in Register
      BY <3>1 DEF TypeOK
    <3>4. g \in Register
      <4>1. registers[r][z].log \in Seq([inc : Nat, value : Value])
        BY <3>3 DEF Register
      <4>2. Append(registers[r][z].log, e) \in Seq([inc : Nat, value : Value])
        BY <3>2, <4>1
      <4> QED BY <3>3, <4>2 DEF Register
    <3>5. registers' = [registers EXCEPT ![r][z] = g]
      BY <2>2
    <3> HIDE DEF g
    <3>6. registers' \in [Receiver -> [RegisterIndex -> Register]]
      BY <3>1, <3>4, <3>5, RegisterChange
    <3>7. outstanding_writes' \in [Receiver -> [RegisterIndex -> Index \cup {Idle}]]
      BY <1>2, <2>2, <3>1 DEF TypeOK, i
    <3> QED BY <1>3, <1>5, <2>2, <3>6, <3>7 DEF TypeOK, PollVerification, links, Kept
  <2>3. t.index \in Kept(r) /\ WriteRegister(r, t.index)
    BY <1>5
  <2>4. \/ /\ dead' = [dead EXCEPT ![r] = "recycled"]
           /\ UNCHANGED <<registers, outstanding_writes>>
        \/ /\ UNCHANGED dead
           /\ registers' = [registers EXCEPT ![r][z].log = Append(@, e)]
           /\ outstanding_writes' = [outstanding_writes EXCEPT ![r][z] = i]
    <3> HIDE DEF i, z, e
    <3>1. i \in Kept(r) /\ WriteRegister(r, i)
      BY <2>3 DEF i
    <3> QED BY <3>1, WriteFacts DEF z, e
  <2> QED BY <2>1, <2>2, <2>4
<1>6. CASE /\ t.index \in Kept(r)
           /\ msg_tail' = [msg_tail EXCEPT ![r][t.index].checked = @ + 1]
           /\ UNCHANGED <<registers, outstanding_writes, dead>>
  <2> DEFINE d == [msg_tail[r][t.index] EXCEPT !.checked = @ + 1]
  <2>1. msg_tail[r][t.index] \in MessageData
    BY <1>6 DEF TypeOK
  <2>2. d \in MessageData
    BY <2>1 DEF MessageData
  <2>3. msg_tail' = [msg_tail EXCEPT ![r][t.index] = d]
    BY <1>6
  <2> HIDE DEF d
  <2>4. /\ DOMAIN msg_tail' = Receiver
        /\ \A o \in Receiver : /\ Kept(o)' \subseteq Index
                               /\ \A j \in Kept(o)' : msg_tail'[o][j] \in MessageData
    BY <1>6, <2>2, <2>3, TypeChange
  <2> QED BY <1>3, <1>6, <2>4 DEF TypeOK, PollVerification, links
<1>7. CASE /\ Throw(r, IF t.ok THEN "equivocation" ELSE "broadcaster")
           /\ UNCHANGED <<msg_tail, registers, outstanding_writes>>
  BY <1>4, <1>7
<1> QED BY <1>1, <1>4, <1>5, <1>6, <1>7

LEMMA TypePollWrite ==
  ASSUME Assumption, TypeOK, NEW r \in Receiver, NEW s \in RegisterIndex,
         PollWrite(r, s)
  PROVE  TypeOK'
<1> DEFINE i == outstanding_writes[r][s]
           floors == [q \in Others(r) |-> registers[q][s].done]
           g == [registers[r][s] EXCEPT !.done = Len(registers[r][s].log)]
<1>1. i \in Index
  BY DEF PollWrite, TypeOK
<1>2. registers[r][s] \in Register
  BY DEF TypeOK
<1>3. g \in Register
  BY <1>2 DEF Register
<1>4. registers' = [registers EXCEPT ![r][s] = g]
  BY DEF PollWrite
<1>5. outstanding_writes' \in [Receiver -> [RegisterIndex -> Index \cup {Idle}]]
  BY DEF PollWrite, TypeOK
<1>6. floors \in [Others(r) -> Nat]
  <2>1. \A q \in Others(r) : registers[q][s] \in Register
    BY DEF TypeOK, Others
  <2> QED BY <2>1 DEF Register
<1>7. outstanding_reads' = IF i \notin Kept(r) THEN outstanding_reads
           ELSE [outstanding_reads EXCEPT ![r] = Put(@, i, floors)]
  BY DEF PollWrite
<1> HIDE DEF g, i, floors
<1>8. registers' \in [Receiver -> [RegisterIndex -> Register]]
  BY <1>3, <1>4, RegisterChange
<1>9. /\ DOMAIN outstanding_reads' = Receiver
      /\ \A q \in Receiver : /\ DOMAIN outstanding_reads'[q] \subseteq Index
                             /\ \A j \in DOMAIN outstanding_reads'[q] :
                                  outstanding_reads'[q][j] \in [Others(q) -> Nat]
  <2>1. CASE i \notin Kept(r)
    BY <1>7, <2>1 DEF TypeOK
  <2>2. CASE i \in Kept(r)
    <3>1. /\ outstanding_reads'[r] = Put(outstanding_reads[r], i, floors)
          /\ \A q \in Receiver : q # r => outstanding_reads'[q] = outstanding_reads[q]
          /\ DOMAIN outstanding_reads' = Receiver
      BY <1>7, <2>2 DEF TypeOK
    <3>2. /\ DOMAIN outstanding_reads'[r] = DOMAIN outstanding_reads[r] \cup {i}
          /\ \A j \in DOMAIN outstanding_reads'[r] :
               outstanding_reads'[r][j] \in [Others(r) -> Nat]
      BY <1>6, <3>1 DEF Put, TypeOK
    <3>3. \A q \in Receiver : q # r =>
            /\ DOMAIN outstanding_reads'[q] \subseteq Index
            /\ \A j \in DOMAIN outstanding_reads'[q] :
                 outstanding_reads'[q][j] \in [Others(q) -> Nat]
      BY <3>1 DEF TypeOK
    <3>4. DOMAIN outstanding_reads'[r] \subseteq Index
      BY <1>1, <3>2 DEF TypeOK
    <3> QED BY <3>1, <3>2, <3>3, <3>4
  <2> QED BY <2>1, <2>2
<1> QED BY <1>5, <1>8, <1>9 DEF TypeOK, PollWrite, links, Kept

(* The receivers whose registers a pass over the reads found safe.          *)
SafeOnes(r, i, D, x) == {q \in D : i \in Kept(r) /\ Safe(r, i, x[q])}
UnsafeOnes(r, i, D, x) == IF i \in Kept(r) THEN D \ SafeOnes(r, i, D, x) ELSE {}
Suspects(r, i, D, x) ==
  {[index |-> i, origin |-> "register", ok |-> x[q].value # Garbage] :
     q \in UnsafeOnes(r, i, D, x)}

\* One pass over r's reads for message i, where those from D returned x.
Pass(r, i, D, x) ==
  /\ D \subseteq {q \in Others(r) : outstanding_reads[r][i][q] # 0} /\ D # {}
  /\ DOMAIN x = D
  /\ \A q \in D : x[q] \in Results(q, i, outstanding_reads[r][i][q])
  /\ IF \E q \in D : x[q].inc > Incarnation(i)
     THEN dead' = [dead EXCEPT ![r] = "recycled"] ELSE UNCHANGED dead
  /\ \/ SafeOnes(r, i, D, x) = {} /\ UNCHANGED msg_tail
     \/ /\ i \in Kept(r)
        /\ msg_tail' = [msg_tail EXCEPT ![r][i].checked =
             @ + Cardinality(SafeOnes(r, i, D, x))]
  /\ verifying' = [verifying EXCEPT ![r] = @ \cup Suspects(r, i, D, x)]
  /\ outstanding_reads' = [outstanding_reads EXCEPT ![r] =
       IF D = Others(r) THEN Drop(@, i)
       ELSE [@ EXCEPT ![i] = [q \in Others(r) |->
              IF q \in D THEN 0 ELSE outstanding_reads[r][i][q]]]]

LEMMA PassFacts ==
  ASSUME NEW r \in Receiver, NEW i, PollReads(r, i)
  PROVE  \E D \in SUBSET Others(r) : \E x : Pass(r, i, D, x)
<1> DEFINE floors == outstanding_reads[r][i]
           waiting == {q \in Others(r) : floors[q] # 0}
<1>1. PICK D \in (SUBSET waiting) \ {{}} :
        \E x \in [D -> UNION {Results(q, i, floors[q]) : q \in D}] :
           /\ \A q \in D : x[q] \in Results(q, i, floors[q])
           /\ LET safe == {q \in D : i \in Kept(r) /\ Safe(r, i, x[q])}
                  unsafe == IF i \in Kept(r) THEN D \ safe ELSE {}
              IN  /\ IF \E q \in D : x[q].inc > Incarnation(i)
                     THEN Throw(r, "recycled") ELSE UNCHANGED dead
                  /\ msg_tail' = IF safe = {} THEN msg_tail ELSE
                       [msg_tail EXCEPT ![r][i].checked = @ + Cardinality(safe)]
                  /\ verifying' = [verifying EXCEPT ![r] = @ \cup
                       {[index |-> i, origin |-> "register",
                         ok |-> x[q].value # Garbage] : q \in unsafe}]
           /\ outstanding_reads' = [outstanding_reads EXCEPT ![r] =
                IF D = Others(r) THEN Drop(@, i)
                ELSE [@ EXCEPT ![i] = [q \in Others(r) |-> IF q \in D THEN 0
                                                           ELSE floors[q]]]]
  BY DEF PollReads
<1>2. PICK x \in [D -> UNION {Results(q, i, floors[q]) : q \in D}] :
           /\ \A q \in D : x[q] \in Results(q, i, floors[q])
           /\ IF \E q \in D : x[q].inc > Incarnation(i)
              THEN Throw(r, "recycled") ELSE UNCHANGED dead
           /\ msg_tail' = IF SafeOnes(r, i, D, x) = {} THEN msg_tail ELSE
                [msg_tail EXCEPT ![r][i].checked = @ + Cardinality(SafeOnes(r, i, D, x))]
           /\ verifying' = [verifying EXCEPT ![r] = @ \cup Suspects(r, i, D, x)]
           /\ outstanding_reads' = [outstanding_reads EXCEPT ![r] =
                IF D = Others(r) THEN Drop(@, i)
                ELSE [@ EXCEPT ![i] = [q \in Others(r) |-> IF q \in D THEN 0
                                                           ELSE floors[q]]]]
  BY <1>1 DEF SafeOnes, UnsafeOnes, Suspects
<1>3. D \in SUBSET Others(r) /\ D \subseteq waiting /\ D # {}
  OBVIOUS
<1>4. DOMAIN x = D
  <2> DEFINE U == UNION {Results(q, i, floors[q]) : q \in D}
  <2>1. x \in [D -> U]
    OBVIOUS
  <2> HIDE DEF U
  <2> QED BY <2>1
<1>5. SafeOnes(r, i, D, x) # {} => i \in Kept(r)
  BY DEF SafeOnes
<1>6. Pass(r, i, D, x)
  BY <1>2, <1>3, <1>4, <1>5 DEF Pass, Throw
<1> QED BY <1>3, <1>6

LEMMA SafeFinite ==
  ASSUME Assumption, NEW r \in Receiver, NEW i, NEW D \in SUBSET Others(r), NEW x
  PROVE  /\ IsFiniteSet(Others(r)) /\ IsFiniteSet(D)
         /\ IsFiniteSet(SafeOnes(r, i, D, x))
         /\ Cardinality(SafeOnes(r, i, D, x)) \in Nat
<1>1. Others(r) \subseteq Receiver /\ IsFiniteSet(Receiver)
  BY DEF Others, Assumption
<1>2. IsFiniteSet(Others(r))
  BY <1>1, FS_Subset
<1>3. IsFiniteSet(D)
  BY <1>2, FS_Subset
<1>4. SafeOnes(r, i, D, x) \subseteq D
  BY DEF SafeOnes
<1>5. IsFiniteSet(SafeOnes(r, i, D, x))
  BY <1>3, <1>4, FS_Subset
<1> QED BY <1>2, <1>3, <1>5, FS_CardinalityType

LEMMA TypePollReads ==
  ASSUME Assumption, TypeOK, NEW r \in Receiver, NEW i \in Index, PollReads(r, i)
  PROVE  TypeOK'
<1>1a. PICK D \in SUBSET Others(r) : \E x : Pass(r, i, D, x)
  BY PassFacts
<1>1. PICK x : Pass(r, i, D, x)
  BY <1>1a
<1>2. i \in DOMAIN outstanding_reads[r]
  BY DEF PollReads
<1>3. dead' \in [Receiver -> Cause]
  BY <1>1 DEF Pass, TypeOK, Cause
<1>4. verifying' \in [Receiver -> SUBSET Task]
  <2>1. Suspects(r, i, D, x) \subseteq Task
    <3>1. ASSUME NEW t \in Suspects(r, i, D, x) PROVE t \in Task
      <4>1. PICK q \in UnsafeOnes(r, i, D, x) :
              t = [index |-> i, origin |-> "register", ok |-> x[q].value # Garbage]
        BY DEF Suspects
      <4> DEFINE ok == x[q].value # Garbage
      <4>2. ok \in BOOLEAN
        OBVIOUS
      <4>3. t = [index |-> i, origin |-> "register", ok |-> ok]
        BY <4>1
      <4> HIDE DEF ok
      <4> QED BY <4>2, <4>3 DEF Task, Origin
    <3> QED BY <3>1
  <2>2. verifying' = [verifying EXCEPT ![r] = verifying[r] \cup Suspects(r, i, D, x)]
    BY <1>1 DEF Pass, TypeOK
  <2>3. verifying \in [Receiver -> SUBSET Task]
    BY DEF TypeOK
  <2>4. verifying[r] \cup Suspects(r, i, D, x) \in SUBSET Task
    BY <2>1, <2>3
  <2> QED BY <2>2, <2>3, <2>4
<1>5. /\ DOMAIN msg_tail' = Receiver
      /\ \A q \in Receiver : /\ Kept(q)' \subseteq Index
                             /\ \A j \in Kept(q)' : msg_tail'[q][j] \in MessageData
  <2>1. CASE UNCHANGED msg_tail
    BY <2>1 DEF TypeOK, Kept
  <2>2. CASE /\ i \in Kept(r)
             /\ msg_tail' = [msg_tail EXCEPT ![r][i].checked =
                  @ + Cardinality(SafeOnes(r, i, D, x))]
    <3> DEFINE n == Cardinality(SafeOnes(r, i, D, x))
               d == [msg_tail[r][i] EXCEPT !.checked = @ + n]
    <3>1. n \in Nat
      BY SafeFinite
    <3>2. msg_tail' = [msg_tail EXCEPT ![r][i] = d]
      BY <2>2
    <3> HIDE DEF n
    <3>3. d \in MessageData
      <4>1. msg_tail[r][i] \in MessageData
        BY <2>2 DEF TypeOK
      <4>2. msg_tail[r][i].checked + n \in Nat
        BY <3>1, <4>1 DEF MessageData
      <4> QED BY <4>1, <4>2 DEF MessageData
    <3> HIDE DEF d
    <3> QED BY <2>2, <3>2, <3>3, TypeChange
  <2> QED BY <1>1, <2>1, <2>2 DEF Pass
<1>6. /\ DOMAIN outstanding_reads' = Receiver
      /\ \A q \in Receiver : /\ DOMAIN outstanding_reads'[q] \subseteq Index
                             /\ \A j \in DOMAIN outstanding_reads'[q] :
                                  outstanding_reads'[q][j] \in [Others(q) -> Nat]
  <2> DEFINE left == [q \in Others(r) |->
                        IF q \in D THEN 0 ELSE outstanding_reads[r][i][q]]
             reads == IF D = Others(r) THEN Drop(outstanding_reads[r], i)
                      ELSE [outstanding_reads[r] EXCEPT ![i] = left]
  <2>1. left \in [Others(r) -> Nat]
    BY <1>2 DEF TypeOK
  <2>2. outstanding_reads' = [outstanding_reads EXCEPT ![r] = reads]
    BY <1>1 DEF Pass, TypeOK
  <2> HIDE DEF left
  <2>3. /\ DOMAIN reads \subseteq DOMAIN outstanding_reads[r]
        /\ \A j \in DOMAIN reads : reads[j] \in [Others(r) -> Nat]
    BY <1>2, <2>1 DEF TypeOK, Drop
  <2> HIDE DEF reads
  <2>4. /\ DOMAIN outstanding_reads' = Receiver /\ outstanding_reads'[r] = reads
        /\ \A q \in Receiver : q # r => outstanding_reads'[q] = outstanding_reads[q]
    BY <2>2 DEF TypeOK
  <2>5. \A q \in Receiver : q # r =>
          /\ DOMAIN outstanding_reads'[q] \subseteq Index
          /\ \A j \in DOMAIN outstanding_reads'[q] :
               outstanding_reads'[q][j] \in [Others(q) -> Nat]
    BY <2>4 DEF TypeOK
  <2>6. DOMAIN outstanding_reads'[r] \subseteq Index
    BY <2>3, <2>4 DEF TypeOK
  <2> QED BY <2>3, <2>4, <2>5, <2>6
<1> QED BY <1>3, <1>4, <1>5, <1>6 DEF TypeOK, PollReads, links

LEMMA TypeNext ==
  ASSUME Assumption, TypeOK, SenderInv, [Next]_vars PROVE TypeOK'
<1>1. CASE UNCHANGED vars
  BY <1>1 DEF vars, links, slow, TypeOK, Kept
<1>2. CASE Broadcast
  BY <1>2, TypeBroadcast
<1>3. ASSUME NEW i \in Index, Sign(i) PROVE TypeOK'
  BY <1>3, TypeSign
<1>4. ASSUME NEW r \in Receiver,
             \/ PollMessage(r) \/ PollSignature(r) \/ PollVerification(r) \/ Poll(r)
             \/ \E q \in Others(r) : PollEcho(r, q)
             \/ \E s \in RegisterIndex : PollWrite(r, s)
             \/ \E i \in Index : PollReads(r, i)
      PROVE  TypeOK'
  BY <1>4, TypePollMessage, TypePollSignature, TypePollVerification, TypePoll,
     TypePollEcho, TypePollWrite, TypePollReads
<1> QED BY <1>1, <1>2, <1>3, <1>4 DEF Next

-----------------------------------------------------------------------------
(* The broadcaster                                                          *)

(* No message was sent yet.                                                 *)
LEMMA SenderInit == ASSUME Assumption, Init PROVE SenderInv
<1>1. ASSUME NEW r \in Receiver
      PROVE  Len(messages[r].sent) = next_index /\ messages[r].seen <= next_index
  BY DEF Init, EmptyLink
<1> QED BY <1>1 DEF Init, SenderInv, MessagesInOrder, EmptyLink

LEMMA SenderBroadcast ==
  ASSUME Assumption, TypeOK, SenderInv, Broadcast PROVE SenderInv'
<1>1. next_index \in Nat /\ next_index \in Index
  BY DEF Broadcast, TypeOK, Index, Assumption
<1>2. PICK v \in Payload : messages' = [r \in Receiver |->
                     SendOn(messages[r], Message(next_index, v))]
  BY DEF Broadcast
<1> DEFINE m == Message(next_index, v)
<1>3. m \in Sent /\ m.index = next_index
  BY <1>1 DEF Message, Sent
<1> HIDE DEF m
<1>4. \A r \in Receiver : messages'[r] = SendOn(messages[r], m)
  BY <1>2 DEF m
<1>5. ASSUME NEW r \in Receiver, MessagesInOrder
      PROVE  /\ Len(messages'[r].sent) = next_index + 1
             /\ messages'[r].seen <= next_index + 1
             /\ \A k \in 1..(next_index + 1) : messages'[r].sent[k].index = k - 1
             /\ \A q \in Receiver : messages'[q].sent = messages'[r].sent
  <2>1. messages[r] \in Link
    BY DEF TypeOK
  <2>0. /\ SendOn(messages[r], m).seen = messages[r].seen
        /\ Len(SendOn(messages[r], m).sent) = Len(messages[r].sent) + 1
        /\ \A p \in 1..Len(messages[r].sent) :
             SendOn(messages[r], m).sent[p] = messages[r].sent[p]
        /\ SendOn(messages[r], m).sent[Len(messages[r].sent) + 1] = m
    BY <1>3, <2>1, SendFacts
  <2>2. /\ messages'[r].seen = messages[r].seen
        /\ Len(messages'[r].sent) = Len(messages[r].sent) + 1
        /\ \A p \in 1..Len(messages[r].sent) :
             messages'[r].sent[p] = messages[r].sent[p]
        /\ messages'[r].sent[Len(messages[r].sent) + 1] = m
    BY <1>4, <2>0
  <2>3. /\ Len(messages[r].sent) = next_index /\ messages[r].seen <= next_index
        /\ \A k \in 1..next_index : messages[r].sent[k].index = k - 1
        /\ \A q \in Receiver : messages[q].sent = messages[r].sent
    BY <1>5 DEF MessagesInOrder
  <2>4. messages[r].seen \in Nat
    BY <2>1 DEF Link
  <2>5. \A k \in 1..(next_index + 1) : messages'[r].sent[k].index = k - 1
    <3>1. TAKE k \in 1..(next_index + 1)
    <3>2. k \in 1..next_index \/ k = next_index + 1
      BY <1>1
    <3>3. CASE k \in 1..next_index
      BY <2>2, <2>3, <3>3
    <3>4. CASE k = next_index + 1
      BY <1>1, <1>3, <2>2, <2>3, <3>4
    <3> QED BY <3>2, <3>3, <3>4
  <2>6. \A q \in Receiver : messages'[q].sent = messages'[r].sent
    <3>1. TAKE q \in Receiver
    <3>2. ASSUME NEW o \in Receiver PROVE messages'[o].sent = Append(messages[o].sent, m)
      <4>1. messages[o] \in [sent : Seq(Sent), seen : Nat]
        BY DEF TypeOK, Link
      <4>2. messages'[o] = [messages[o] EXCEPT !.sent = Append(@, m)]
        BY <1>4 DEF SendOn
      <4> QED BY <4>1, <4>2
    <3> QED BY <2>3, <3>2
  <2>7. Len(messages'[r].sent) = next_index + 1
    BY <2>2, <2>3
  <2>8. messages'[r].seen <= next_index + 1
    BY <1>1, <2>2, <2>3, <2>4
  <2> QED BY <2>5, <2>6, <2>7, <2>8
<1>6. next_index' = next_index + 1 /\ to_sign' = to_sign \cup {next_index}
      /\ faulty' = faulty /\ faulty # Broadcaster
  BY DEF Broadcast
<1>7. MessagesInOrder'
  BY <1>5, <1>6 DEF MessagesInOrder, SenderInv
<1>8. \A k \in to_sign' : k < next_index'
  BY <1>1, <1>6, EchoFacts DEF SenderInv, TypeOK
<1> QED BY <1>6, <1>7, <1>8 DEF SenderInv

LEMMA SenderPollMessage ==
  ASSUME Assumption, TypeOK, SenderInv, NEW r \in Receiver, PollMessage(r)
  PROVE  SenderInv'
<1>1. PICK a \in Arriving(messages[r], Broadcaster, Payload, MaxMessages) :
        messages' = [messages EXCEPT ![r].seen = a.at]
  BY DEF PollMessage
<1>2. /\ a.at \in Nat
      /\ Broadcaster # faulty => a.at <= Len(messages[r].sent)
  BY PolledType
<1>3. /\ \A q \in Receiver : messages'[q].sent = messages[q].sent
      /\ messages'[r].seen = a.at
      /\ \A q \in Receiver : q # r => messages'[q].seen = messages[q].seen
  BY <1>1 DEF TypeOK, Link
<1>4. /\ next_index' = next_index /\ to_sign' = to_sign /\ faulty' = faulty
  BY DEF PollMessage
<1>5. ASSUME faulty # Broadcaster PROVE MessagesInOrder'
  <2>1. MessagesInOrder
    BY <1>5 DEF SenderInv
  <2>2. \A q \in Receiver : messages'[q].seen <= next_index
    BY <1>2, <1>3, <1>5, <2>1 DEF MessagesInOrder
  <2> QED BY <1>3, <1>4, <2>1, <2>2 DEF MessagesInOrder
<1> QED BY <1>4, <1>5 DEF SenderInv

LEMMA SenderNext ==
  ASSUME Assumption, TypeOK, SenderInv, [Next]_vars PROVE SenderInv'
<1>1. CASE UNCHANGED <<faulty, next_index, to_sign, messages>>
  BY <1>1 DEF SenderInv, MessagesInOrder
<1>2. ASSUME NEW i \in Index, Sign(i) PROVE SenderInv'
  BY <1>2 DEF Sign, SenderInv, MessagesInOrder
<1>3. ASSUME NEW r \in Receiver,
             \/ PollSignature(r) \/ PollVerification(r) \/ Poll(r)
             \/ \E q \in Others(r) : PollEcho(r, q)
             \/ \E s \in RegisterIndex : PollWrite(r, s)
             \/ \E i \in Index : PollReads(r, i)
      PROVE  UNCHANGED <<faulty, next_index, to_sign, messages>>
  BY <1>3 DEF PollSignature, PollVerification, Poll, PollEcho, PollWrite, PollReads,
              links
<1>4. CASE UNCHANGED vars
  BY <1>1, <1>4 DEF vars, links
<1> QED BY <1>1, <1>2, <1>3, <1>4, SenderBroadcast, SenderPollMessage DEF Next

-----------------------------------------------------------------------------
(* What the steps do to the messages a receiver keeps                       *)

\* r accepted m, which is newer than all it accepted before.
Accepted(r, m) ==
  /\ ~Past(r, m.index) /\ \A j \in Index : Past(r, j) => j < m.index
  /\ m.index \in Kept(r)' /\ Kept(r)' \subseteq Kept(r) \cup {m.index}
  /\ m.index \notin Kept(r)
  /\ \A k \in Kept(r)' : k # m.index => msg_tail'[r][k] = msg_tail[r][k]
  /\ \A k \in Kept(r) : k < m.index
  /\ msg_tail'[r][m.index].value = m.value
  /\ msg_tail'[r][m.index].signature = None /\ msg_tail'[r][m.index].checked = 0
  /\ \A q \in msg_tail'[r][m.index].echoes :
       \E k \in 1..Len(buffered_echoes[r][q]) :
         /\ q \in Others(r) /\ buffered_echoes[r][q][k].index = m.index
         /\ msg_tail'[r][m.index].match => buffered_echoes[r][q][k].value = m.value
  /\ \A q \in Others(r) : \A k \in 1..Len(buffered_echoes'[r][q]) :
       \E j \in 1..Len(buffered_echoes[r][q]) :
         buffered_echoes'[r][q][k] = buffered_echoes[r][q][j]
  /\ \A q \in Others(r) : /\ msg_tail'[q] = msg_tail[q]
                          /\ buffered_echoes'[q] = buffered_echoes[q]
  /\ \A o \in Others(r) : echoes'[o][r] = SendOn(echoes[o][r], m)
  /\ \A o \in Receiver : \A q \in Others(o) : q # r => echoes'[o][q] = echoes[o][q]

LEMMA AcceptFacts ==
  ASSUME Assumption, TypeOK, NEW r \in Receiver, NEW m \in Sent,
         ~Repeated(r, m.index), ~OutOfOrder(r, m.index), Accept(r, m),
         UNCHANGED latest_polled
  PROVE  Accepted(r, m)
<1> DEFINE i == m.index
           early == {q \in Others(r) : Replays(buffered_echoes[r][q], i)}
           data == [NewData(m.value) EXCEPT
                      !.echoes = early,
                      !.match = \A q \in early :
                        Head(Pending(buffered_echoes[r][q], i)).value = m.value]
           all == Put(msg_tail[r], i, data)
           left == [q \in Others(r) |-> LET b == Pending(buffered_echoes[r][q], i)
                                        IN  IF q \in early THEN Tail(b) ELSE b]
           new == IF Cardinality(DOMAIN all) > TailSize THEN Drop(all, Min(DOMAIN all))
                  ELSE all
<1>1. /\ msg_tail' = [msg_tail EXCEPT ![r] = new]
      /\ buffered_echoes' = [buffered_echoes EXCEPT ![r] = left]
      /\ echoes' = [o \in Receiver |-> IF o = r THEN echoes[o]
                     ELSE [echoes[o] EXCEPT ![r] = SendOn(@, m)]]
  BY DEF Accept
<1>2. i \in Index /\ i \in Nat /\ Kept(r) \subseteq Nat
  BY EchoFacts DEF TypeOK
<1>3. i \notin Kept(r) /\ latest_polled[r] <= i /\ \A k \in Kept(r) : k < i
  <2>1. latest_polled[r] \in Nat
    BY DEF TypeOK
  <2>2. i \notin Kept(r) /\ ~(latest_polled[r] > i) /\ \A k \in Kept(r) : ~(k >= i)
    BY DEF Repeated, OutOfOrder
  <2> QED BY <1>2, <2>1, <2>2
<1>4. /\ ~Past(r, i) /\ \A j \in Index : Past(r, j) => j < i
  <2>1. latest_polled[r] \in Nat
    BY DEF TypeOK
  <2>2. \A j \in Index : j \in Nat
    BY EchoFacts
  <2> QED BY <1>2, <1>3, <2>1, <2>2 DEF Past
<1>5. /\ data.value = m.value /\ data.signature = None /\ data.checked = 0
      /\ data.echoes = early
      /\ data.match => \A q \in early :
           Head(Pending(buffered_echoes[r][q], i)).value = m.value
  <2> HIDE DEF early
  <2> QED BY DEF NewData
<1>6. ASSUME NEW q \in Others(r)
      PROVE  /\ \A k \in 1..Len(left[q]) :
                  \E j \in 1..Len(buffered_echoes[r][q]) :
                    left[q][k] = buffered_echoes[r][q][j]
             /\ q \in early => \E j \in 1..Len(buffered_echoes[r][q]) :
                  /\ buffered_echoes[r][q][j] = Head(Pending(buffered_echoes[r][q], i))
                  /\ buffered_echoes[r][q][j].index = i
  <2> DEFINE b == buffered_echoes[r][q]
             p == Pending(b, i)
  <2>1. b \in Seq(Echo)
    BY DEF TypeOK
  <2>2. p \in Seq(Echo) /\ \A k \in 1..Len(p) : \E j \in 1..Len(b) : p[k] = b[j]
    BY <1>2, <2>1, EchoFacts, PendingFacts
  <2>3. q \in early => p # << >> /\ Head(p).index = i
    BY DEF Replays
  <2>4. left[q] = IF q \in early THEN Tail(p) ELSE p
    OBVIOUS
  <2> HIDE DEF early, left, p, b
  <2>5. CASE q \in early
    <3>1. p # << >> /\ Head(p).index = i /\ left[q] = Tail(p)
      BY <2>3, <2>4, <2>5
    <3>2. Len(p) \in Nat /\ Len(p) >= 1
      BY <2>2, <3>1
    <3>3. Head(p) = p[1] /\ Len(Tail(p)) = Len(p) - 1
          /\ \A k \in 1..(Len(p) - 1) : Tail(p)[k] = p[k + 1]
      BY <2>2, <3>1
    <3>4. \A k \in 1..Len(left[q]) : k + 1 \in 1..Len(p) /\ left[q][k] = p[k + 1]
      BY <3>1, <3>2, <3>3
    <3>5. \A k \in 1..Len(left[q]) : \E j \in 1..Len(b) : left[q][k] = b[j]
      BY <2>2, <3>4
    <3>6. 1 \in 1..Len(p)
      BY <3>2
    <3>7. \E j \in 1..Len(b) : b[j] = Head(p) /\ b[j].index = i
      BY <2>2, <3>1, <3>3, <3>6
    <3> QED BY <3>5, <3>7 DEF b, p
  <2>6. CASE q \notin early
    BY <2>2, <2>4, <2>6 DEF b
  <2> QED BY <2>5, <2>6
<1> HIDE DEF early, data
<1>7. /\ DOMAIN all = Kept(r) \cup {i} /\ all[i] = data
      /\ \A j \in Kept(r) : j # i => all[j] = msg_tail[r][j]
  BY DEF Put, Kept
<1> HIDE DEF all
<1>8. /\ DOMAIN new \subseteq Kept(r) \cup {i} /\ i \in DOMAIN new /\ new[i] = data
      /\ \A j \in DOMAIN new : j # i => new[j] = msg_tail[r][j]
  <2>1. CASE Cardinality(DOMAIN all) > TailSize
    <3>1. Kept(r) # {}
      <4>1. SUFFICES ASSUME Kept(r) = {} PROVE FALSE
        OBVIOUS
      <4>2. DOMAIN all = {i}
        BY <1>7, <4>1
      <4>3. Cardinality(DOMAIN all) = 1
        BY <4>2, FS_Singleton
      <4> QED BY <2>1, <4>3 DEF Assumption
    <3>2. Min(DOMAIN all) \in DOMAIN all /\ \A k \in DOMAIN all : Min(DOMAIN all) <= k
      BY <1>2, <1>7, IndexMin
    <3>3. Min(DOMAIN all) # i
      BY <1>2, <1>3, <1>7, <3>1, <3>2
    <3>4. new = Drop(all, Min(DOMAIN all))
      BY <2>1
    <3> QED BY <1>7, <3>2, <3>3, <3>4 DEF Drop
  <2>2. CASE ~(Cardinality(DOMAIN all) > TailSize)
    BY <1>7, <2>2
  <2> QED BY <2>1, <2>2
<1> HIDE DEF left, new
<1>9. /\ msg_tail'[r] = new /\ Kept(r)' = DOMAIN new
      /\ \A q \in Others(r) : msg_tail'[q] = msg_tail[q]
  BY <1>1 DEF TypeOK, Kept, Others
<1>10. /\ buffered_echoes'[r] = left
       /\ \A q \in Others(r) : buffered_echoes'[q] = buffered_echoes[q]
  BY <1>1 DEF TypeOK, Others
<1>11. \A o \in Others(r) : echoes'[o][r] = SendOn(echoes[o][r], m)
  BY <1>1 DEF TypeOK, Others
<1>12. \A o \in Receiver : \A q \in Others(o) : q # r => echoes'[o][q] = echoes[o][q]
  BY <1>1 DEF TypeOK, Others
<1>13. /\ msg_tail'[r][i].value = m.value
       /\ msg_tail'[r][i].signature = None /\ msg_tail'[r][i].checked = 0
  BY <1>5, <1>8, <1>9
<1>14. \A q \in msg_tail'[r][i].echoes :
         \E k \in 1..Len(buffered_echoes[r][q]) :
           /\ q \in Others(r) /\ buffered_echoes[r][q][k].index = i
           /\ msg_tail'[r][i].match => buffered_echoes[r][q][k].value = m.value
  <2>1. msg_tail'[r][i] = data
    BY <1>8, <1>9
  <2>2. TAKE q \in msg_tail'[r][i].echoes
  <2>3. q \in early /\ q \in Others(r)
    BY <1>5, <2>1, <2>2 DEF early
  <2> QED BY <1>5, <1>6, <2>1, <2>3
<1>15. \A q \in Others(r) : \A k \in 1..Len(buffered_echoes'[r][q]) :
         \E j \in 1..Len(buffered_echoes[r][q]) :
           buffered_echoes'[r][q][k] = buffered_echoes[r][q][j]
  BY <1>6, <1>10
<1> QED BY <1>3, <1>4, <1>8, <1>9, <1>10, <1>11, <1>12, <1>13, <1>14, <1>15 DEF Accepted
\* r keeps the same messages, and the signatures it has.
SameKept(r) ==
  /\ Kept(r)' = Kept(r)
  /\ \A i \in Kept(r) :
       /\ msg_tail'[r][i].value = msg_tail[r][i].value
       /\ msg_tail[r][i].signature # None =>
            msg_tail'[r][i].signature = msg_tail[r][i].signature

SameVotes(r) ==
  \A i \in Kept(r) : /\ msg_tail'[r][i].echoes = msg_tail[r][i].echoes
                     /\ msg_tail'[r][i].match = msg_tail[r][i].match
SameChecked(r) ==
  \A i \in Kept(r) : msg_tail'[r][i].checked = msg_tail[r][i].checked
SameSignatures(r) ==
  \A i \in Kept(r) : msg_tail'[r][i].signature = msg_tail[r][i].signature

LEMMA SameAfterChange ==
  ASSUME TypeOK, NEW r \in Receiver, NEW i \in Kept(r), NEW d \in MessageData,
         msg_tail' = [msg_tail EXCEPT ![r][i] = d], d.value = msg_tail[r][i].value,
         msg_tail[r][i].signature # None => d.signature = msg_tail[r][i].signature
  PROVE  /\ \A q \in Receiver : SameKept(q)
         /\ d.echoes = msg_tail[r][i].echoes /\ d.match = msg_tail[r][i].match =>
              \A q \in Receiver : SameVotes(q)
         /\ d.checked = msg_tail[r][i].checked => \A q \in Receiver : SameChecked(q)
         /\ d.signature = msg_tail[r][i].signature =>
              \A q \in Receiver : SameSignatures(q)
<1>1. /\ \A q \in Receiver : Kept(q)' = Kept(q)
      /\ msg_tail'[r][i] = d
      /\ \A q \in Receiver : \A j \in Kept(q) :
           q # r \/ j # i => msg_tail'[q][j] = msg_tail[q][j]
  <2>1. /\ msg_tail'[r] = [msg_tail[r] EXCEPT ![i] = d]
        /\ \A q \in Receiver : q # r => msg_tail'[q] = msg_tail[q]
    BY DEF TypeOK
  <2> QED BY <2>1 DEF Kept
<1>2. ASSUME NEW q \in Receiver PROVE SameKept(q)
  BY <1>1 DEF SameKept
<1>3. ASSUME d.echoes = msg_tail[r][i].echoes, d.match = msg_tail[r][i].match,
             NEW q \in Receiver
      PROVE  SameVotes(q)
  BY <1>1, <1>3 DEF SameVotes
<1>4. ASSUME d.checked = msg_tail[r][i].checked, NEW q \in Receiver
      PROVE  SameChecked(q)
  BY <1>1, <1>4 DEF SameChecked
<1>5. ASSUME d.signature = msg_tail[r][i].signature, NEW q \in Receiver
      PROVE  SameSignatures(q)
  BY <1>1, <1>5 DEF SameSignatures
<1> QED BY <1>2, <1>3, <1>4, <1>5

LEMMA SameUnchanged ==
  ASSUME UNCHANGED msg_tail
  PROVE  \A q \in Receiver : /\ SameKept(q) /\ SameVotes(q)
                             /\ SameChecked(q) /\ SameSignatures(q)
BY DEF SameKept, SameVotes, SameChecked, SameSignatures, Kept

LEMMA KeptPollEcho ==
  ASSUME Assumption, TypeOK, NEW r \in Receiver, NEW q \in Others(r), PollEcho(r, q)
  PROVE  \A o \in Receiver : SameKept(o) /\ SameChecked(o) /\ SameSignatures(o)
<1>1. PICK a \in Arriving(echoes[r][q], q, Payload \cup {Garbage}, MaxEchoes) :
        handleEcho(r, q, a.msg)
  BY DEF PollEcho
<1> DEFINE e == a.msg
<1>2. CASE UNCHANGED msg_tail
  BY <1>2, SameUnchanged
<1>3. CASE /\ e.index \in Kept(r)
           /\ msg_tail' = [msg_tail EXCEPT ![r][e.index] = echoed(@, q, e.value)]
  <2> DEFINE d == echoed(msg_tail[r][e.index], q, e.value)
  <2>1. msg_tail[r][e.index] \in MessageData /\ q \in Receiver
    BY <1>3 DEF TypeOK, Others
  <2>2. /\ d \in MessageData /\ d.value = msg_tail[r][e.index].value
        /\ d.signature = msg_tail[r][e.index].signature
        /\ d.checked = msg_tail[r][e.index].checked
    BY <2>1 DEF echoed, MessageData
  <2>3. msg_tail' = [msg_tail EXCEPT ![r][e.index] = d]
    BY <1>3 DEF TypeOK, Kept
  <2> HIDE DEF d
  <2> QED BY <1>3, <2>2, <2>3, SameAfterChange
<1> QED BY <1>1, <1>2, <1>3 DEF handleEcho

LEMMA KeptPollSignature ==
  ASSUME Assumption, TypeOK, NEW r \in Receiver, PollSignature(r)
  PROVE  \A o \in Receiver : SameKept(o) /\ SameVotes(o) /\ SameChecked(o)
<1>1. PICK a \in Arriving(signatures[r], Broadcaster, Payload \cup {Garbage},
                          MaxSignatures) : handleSignature(r, a.msg)
  BY DEF PollSignature
<1> DEFINE s == a.msg
<1>2. CASE UNCHANGED msg_tail
  BY <1>2, SameUnchanged
<1>3. CASE /\ s.index \in Kept(r) /\ msg_tail[r][s.index].signature = None
           /\ msg_tail' = [msg_tail EXCEPT ![r][s.index].signature = s.value]
  <2> DEFINE d == [msg_tail[r][s.index] EXCEPT !.signature = s.value]
  <2>1. msg_tail[r][s.index] \in MessageData /\ s.value \in Value
    BY <1>3, PolledType DEF TypeOK, Echo, Value
  <2>2. /\ d \in MessageData /\ d.value = msg_tail[r][s.index].value
        /\ d.echoes = msg_tail[r][s.index].echoes
        /\ d.match = msg_tail[r][s.index].match
        /\ d.checked = msg_tail[r][s.index].checked
    BY <2>1 DEF MessageData
  <2>3. msg_tail' = [msg_tail EXCEPT ![r][s.index] = d]
    BY <1>3
  <2> DEFINE i == s.index
  <2>4. i \in Kept(r) /\ msg_tail[r][i].signature = None
    BY <1>3
  <2> HIDE DEF d, s
  <2>5. /\ d.value = msg_tail[r][i].value /\ msg_tail' = [msg_tail EXCEPT ![r][i] = d]
        /\ d.echoes = msg_tail[r][i].echoes /\ d.match = msg_tail[r][i].match
        /\ d.checked = msg_tail[r][i].checked
    BY <2>2, <2>3
  <2> HIDE DEF i
  <2>6. \A o \in Receiver : SameKept(o) /\ SameVotes(o) /\ SameChecked(o)
    BY <2>2, <2>4, <2>5, SameAfterChange
  <2> QED BY <2>6
<1> QED BY <1>1, <1>2, <1>3 DEF handleSignature

LEMMA KeptPollVerification ==
  ASSUME Assumption, TypeOK, NEW r \in Receiver, PollVerification(r)
  PROVE  \A o \in Receiver : SameKept(o) /\ SameVotes(o) /\ SameSignatures(o)
<1>1. PICK t \in verifying[r] :
        \/ UNCHANGED msg_tail
        \/ /\ t.index \in Kept(r)
           /\ msg_tail' = [msg_tail EXCEPT ![r][t.index].checked = @ + 1]
  BY DEF PollVerification
<1>2. CASE UNCHANGED msg_tail
  BY <1>2, SameUnchanged
<1>3. CASE /\ t.index \in Kept(r)
           /\ msg_tail' = [msg_tail EXCEPT ![r][t.index].checked = @ + 1]
  <2> DEFINE d == [msg_tail[r][t.index] EXCEPT !.checked = @ + 1]
  <2>1. msg_tail[r][t.index] \in MessageData
    BY <1>3 DEF TypeOK
  <2>2. /\ d \in MessageData /\ d.value = msg_tail[r][t.index].value
        /\ d.signature = msg_tail[r][t.index].signature
        /\ d.echoes = msg_tail[r][t.index].echoes
        /\ d.match = msg_tail[r][t.index].match
    BY <2>1 DEF MessageData
  <2>3. msg_tail' = [msg_tail EXCEPT ![r][t.index] = d]
    BY <1>3
  <2> HIDE DEF d
  <2> DEFINE j == t.index
  <2>4. /\ j \in Kept(r) /\ msg_tail' = [msg_tail EXCEPT ![r][j] = d]
        /\ d.value = msg_tail[r][j].value /\ d.signature = msg_tail[r][j].signature
        /\ d.echoes = msg_tail[r][j].echoes /\ d.match = msg_tail[r][j].match
    BY <1>3, <2>2, <2>3
  <2> HIDE DEF j
  <2>5. \A o \in Receiver : SameKept(o) /\ SameVotes(o) /\ SameSignatures(o)
    BY <2>2, <2>4, SameAfterChange
  <2> QED BY <2>5
<1> QED BY <1>1, <1>2, <1>3

LEMMA KeptPollReads ==
  ASSUME Assumption, TypeOK, NEW r \in Receiver, NEW i \in Index, PollReads(r, i)
  PROVE  \A o \in Receiver : SameKept(o) /\ SameVotes(o) /\ SameSignatures(o)
<1>1a. PICK D \in SUBSET Others(r) : \E x : Pass(r, i, D, x)
  BY PassFacts
<1>1. PICK x : Pass(r, i, D, x)
  BY <1>1a
<1>2. CASE UNCHANGED msg_tail
  BY <1>2, SameUnchanged
<1>3. CASE /\ i \in Kept(r)
           /\ msg_tail' = [msg_tail EXCEPT ![r][i].checked =
                @ + Cardinality(SafeOnes(r, i, D, x))]
  <2> DEFINE n == Cardinality(SafeOnes(r, i, D, x))
             d == [msg_tail[r][i] EXCEPT !.checked = @ + n]
  <2>1. msg_tail[r][i] \in MessageData /\ n \in Nat
    BY <1>3, SafeFinite DEF TypeOK
  <2>2. msg_tail' = [msg_tail EXCEPT ![r][i] = d]
    BY <1>3
  <2> HIDE DEF n
  <2>3. /\ d \in MessageData /\ d.value = msg_tail[r][i].value
        /\ d.signature = msg_tail[r][i].signature
        /\ d.echoes = msg_tail[r][i].echoes
        /\ d.match = msg_tail[r][i].match
    BY <2>1 DEF MessageData
  <2> HIDE DEF d
  <2>4. i \in Kept(r)
    BY <1>3
  <2>5. \A o \in Receiver : SameKept(o) /\ SameVotes(o) /\ SameSignatures(o)
    BY <2>2, <2>3, <2>4, SameAfterChange
  <2> QED BY <2>5
<1> QED BY <1>1, <1>2, <1>3 DEF Pass

(* A step accepts a message, delivers one, or keeps all there is.           *)
Same == /\ \A r \in Receiver : SameKept(r)
        /\ UNCHANGED <<latest_polled, delivered>>

LEMMA StepKept ==
  ASSUME Assumption, TypeOK, [Next]_vars
  PROVE  /\ faulty' = faulty
         /\ \/ Same
            \/ \E r \in Correct, m \in Sent : PollMessage(r) /\ Accepted(r, m)
            \/ \E r \in Correct : Poll(r)
<1>1. CASE UNCHANGED vars
  BY <1>1, SameUnchanged DEF vars, Same
<1>2. CASE Broadcast
  BY <1>2, SameUnchanged DEF Broadcast, Same
<1>3. ASSUME NEW i \in Index, Sign(i) PROVE Same /\ faulty' = faulty
  BY <1>3, SameUnchanged DEF Sign, Same
<1>4. ASSUME NEW r \in Receiver, PollMessage(r)
      PROVE  /\ faulty' = faulty
             /\ Same \/ \E m \in Sent : r \in Correct /\ Accepted(r, m)
  <2>1. PICK a \in Arriving(messages[r], Broadcaster, Payload, MaxMessages) :
           \/ UNCHANGED msg_tail
           \/ /\ ~Repeated(r, a.msg.index) /\ ~OutOfOrder(r, a.msg.index)
              /\ Accept(r, a.msg)
    BY <1>4 DEF PollMessage
  <2>2. a.msg \in Sent
    BY PolledType
  <2>3. faulty' = faulty /\ UNCHANGED <<latest_polled, delivered>> /\ r \in Correct
    BY <1>4 DEF PollMessage, Running
  <2>4. CASE UNCHANGED msg_tail
    BY <2>3, <2>4, SameUnchanged DEF Same
  <2>5. CASE /\ ~Repeated(r, a.msg.index) /\ ~OutOfOrder(r, a.msg.index)
             /\ Accept(r, a.msg)
    BY <2>2, <2>3, <2>5, AcceptFacts
  <2> QED BY <2>1, <2>3, <2>4, <2>5
<1>5. ASSUME NEW r \in Receiver,
             \/ PollSignature(r) \/ PollVerification(r)
             \/ \E q \in Others(r) : PollEcho(r, q)
             \/ \E i \in Index : PollReads(r, i)
      PROVE  Same /\ faulty' = faulty
  <2>1. UNCHANGED <<faulty, latest_polled, delivered>>
    BY <1>5 DEF PollSignature, PollVerification, PollEcho, PollReads
  <2>2. \A o \in Receiver : SameKept(o)
    BY <1>5, KeptPollSignature, KeptPollVerification, KeptPollEcho, KeptPollReads
  <2> QED BY <2>1, <2>2 DEF Same
<1>6. ASSUME NEW r \in Receiver, NEW s \in RegisterIndex, PollWrite(r, s)
      PROVE  Same /\ faulty' = faulty
  BY <1>6, SameUnchanged DEF PollWrite, Same
<1>7. ASSUME NEW r \in Receiver, Poll(r) PROVE r \in Correct /\ faulty' = faulty
  BY <1>7 DEF Poll, Running
<1>8. CASE Next
  BY <1>2, <1>3, <1>4, <1>5, <1>6, <1>7, <1>8 DEF Next
<1> QED BY <1>1, <1>8 DEF vars
\* r delivered i, the oldest message it kept.
Polled(r, i) ==
  /\ i \in Kept(r) /\ i \in Index /\ \A k \in Kept(r) : i <= k
  /\ pollable(msg_tail[r][i], r) /\ r \in Correct /\ dead[r] = None
  /\ Kept(r)' = Kept(r) \ {i}
  /\ \A j \in Kept(r) \ {i} : msg_tail'[r][j] = msg_tail[r][j]
  /\ latest_polled'[r] = i + 1
  /\ delivered'[r][i] = msg_tail[r][i].value
  /\ \A j \in Index \ {i} : delivered'[r][j] = delivered[r][j]
  /\ \A q \in Others(r) : /\ msg_tail'[q] = msg_tail[q]
                          /\ latest_polled'[q] = latest_polled[q]
                          /\ delivered'[q] = delivered[q]
  /\ UNCHANGED <<links, buffered_echoes, slow, dead>>

LEMMA PollFacts ==
  ASSUME Assumption, TypeOK, NEW r \in Receiver, Poll(r)
  PROVE  \E i \in Index : Polled(r, i)
<1> DEFINE i == Min(Kept(r))
<1>1. Kept(r) \subseteq Nat /\ Kept(r) # {}
  BY EchoFacts DEF TypeOK, Poll
<1>2. i \in Kept(r) /\ \A k \in Kept(r) : i <= k
  BY <1>1, IndexMin
<1>3. i \in Index
  BY <1>2 DEF TypeOK
<1>4. /\ latest_polled' = [latest_polled EXCEPT ![r] = i + 1]
      /\ delivered' = [delivered EXCEPT ![r][i] = msg_tail[r][i].value]
      /\ msg_tail' = [msg_tail EXCEPT ![r] = Drop(@, i)]
      /\ pollable(msg_tail[r][i], r) /\ r \in Correct /\ dead[r] = None
      /\ UNCHANGED <<links, buffered_echoes, slow, dead>>
  BY DEF Poll, Running
<1> HIDE DEF i
<1>5. /\ msg_tail'[r] = Drop(msg_tail[r], i)
      /\ \A q \in Others(r) : msg_tail'[q] = msg_tail[q]
  BY <1>4 DEF TypeOK, Others
<1>6. /\ DOMAIN Drop(msg_tail[r], i) = Kept(r) \ {i}
      /\ \A j \in Kept(r) : j # i => Drop(msg_tail[r], i)[j] = msg_tail[r][j]
  BY DropFacts DEF Kept
<1>7. Kept(r)' = Kept(r) \ {i} /\ \A j \in Kept(r) \ {i} : msg_tail'[r][j] = msg_tail[r][j]
  BY <1>5, <1>6 DEF Kept
<1>8. /\ latest_polled'[r] = i + 1 /\ delivered'[r][i] = msg_tail[r][i].value
      /\ \A j \in Index \ {i} : delivered'[r][j] = delivered[r][j]
      /\ \A q \in Others(r) : /\ latest_polled'[q] = latest_polled[q]
                              /\ delivered'[q] = delivered[q]
  BY <1>3, <1>4 DEF TypeOK, Others
<1> QED BY <1>2, <1>3, <1>4, <1>5, <1>7, <1>8 DEF Polled

(* What a receiver has gone past, it stays past; what it keeps it is past,  *)
(* and a message that is new in its map it was not past.                    *)
LEMMA StepPast ==
  ASSUME Assumption, TypeOK, KeptEchoed, [Next]_vars, NEW r \in Correct
  PROVE  /\ \A i \in Index : Past(r, i) => Past(r, i)'
         /\ \A i \in Kept(r) : Past(r, i)
         /\ \A i \in Kept(r)' :
              \/ /\ i \in Kept(r) /\ msg_tail'[r][i].value = msg_tail[r][i].value
                 /\ msg_tail[r][i].signature # None =>
                      msg_tail'[r][i].signature = msg_tail[r][i].signature
              \/ ~Past(r, i)
<1>0. r \in Receiver /\ Kept(r) \subseteq Index /\ Index \subseteq Nat
      /\ latest_polled[r] \in Nat
  BY EchoFacts DEF Correct, TypeOK
<1>1. \A i \in Kept(r) : Past(r, i)
  <2>1. TAKE i \in Kept(r)
  <2>2. i \in Nat
    BY <1>0
  <2>3. i >= i
    BY <2>2
  <2> QED BY <2>1, <2>3 DEF Past
<1>2. CASE Same
  BY <1>0, <1>1, <1>2 DEF Same, SameKept, Past
<1>3. ASSUME NEW q \in Correct, NEW m \in Sent, PollMessage(q), Accepted(q, m)
      PROVE  /\ \A i \in Index : Past(r, i) => Past(r, i)'
             /\ \A i \in Kept(r)' :
                  \/ /\ i \in Kept(r) /\ msg_tail'[r][i].value = msg_tail[r][i].value
                     /\ msg_tail[r][i].signature # None =>
                          msg_tail'[r][i].signature = msg_tail[r][i].signature
                  \/ ~Past(r, i)
  <2>1. latest_polled' = latest_polled
    BY <1>3 DEF PollMessage
  <2>2. CASE q = r
    <3>1. /\ ~Past(r, m.index) /\ \A j \in Index : Past(r, j) => j < m.index
          /\ m.index \in Kept(r)' /\ Kept(r)' \subseteq Kept(r) \cup {m.index}
          /\ \A k \in Kept(r)' : k # m.index => msg_tail'[r][k] = msg_tail[r][k]
      BY <1>3, <2>2 DEF Accepted
    <3>2. m.index \in Nat
      BY EchoFacts
    <3>3. \A i \in Index : Past(r, i) => Past(r, i)'
      <4>1. TAKE i \in Index
      <4>2. HAVE Past(r, i)
      <4>3. i < m.index /\ i \in Nat
        BY <1>0, <3>1, <4>2
      <4>4. \E k \in Kept(r)' : k >= i
        BY <3>1, <3>2, <4>3
      <4> QED BY <4>4 DEF Past
    <3> QED BY <3>1, <3>3
  <2>3. CASE q # r
    <3>1. msg_tail'[r] = msg_tail[r]
      BY <1>0, <1>3, <2>3 DEF Accepted, Others
    <3> QED BY <2>1, <3>1 DEF Past, Kept
  <2> QED BY <2>2, <2>3
<1>4. ASSUME NEW q \in Correct, Poll(q)
      PROVE  /\ \A i \in Index : Past(r, i) => Past(r, i)'
             /\ \A i \in Kept(r)' :
                  /\ i \in Kept(r) /\ msg_tail'[r][i].value = msg_tail[r][i].value
                  /\ msg_tail[r][i].signature # None =>
                       msg_tail'[r][i].signature = msg_tail[r][i].signature
  <2>0. q \in Receiver
    BY DEF Correct
  <2>1. PICK k \in Index : Polled(q, k)
    BY <1>4, <2>0, PollFacts
  <2>2. CASE q = r
    <3>1. /\ k \in Kept(r) /\ Kept(r)' = Kept(r) \ {k} /\ latest_polled'[r] = k + 1
          /\ \A j \in Kept(r) \ {k} : msg_tail'[r][j] = msg_tail[r][j]
          /\ k >= latest_polled[r]
      BY <2>1, <2>2 DEF Polled, KeptEchoed
    <3>2. k \in Nat
      BY <1>0
    <3>3. \A i \in Index : Past(r, i) => Past(r, i)'
      <4>1. TAKE i \in Index
      <4>2. HAVE Past(r, i)
      <4>3. CASE i < k + 1
        BY <3>1, <4>3 DEF Past
      <4>4. CASE ~(i < k + 1)
        <5>0. ~(i < latest_polled[r])
          BY <1>0, <3>1, <3>2, <4>4
        <5>1. PICK j \in Kept(r) : j >= i
          BY <4>2, <5>0 DEF Past
        <5>2. j # k
          BY <1>0, <3>2, <4>4, <5>1
        <5> QED BY <3>1, <5>1, <5>2 DEF Past
      <4> QED BY <4>3, <4>4
    <3> QED BY <3>1, <3>3
  <2>3. CASE q # r
    <3>1. msg_tail'[r] = msg_tail[r] /\ latest_polled'[r] = latest_polled[r]
      BY <1>0, <2>1, <2>3 DEF Polled, Others
    <3> QED BY <3>1 DEF Past, Kept
  <2> QED BY <2>2, <2>3
<1> QED BY <1>1, <1>2, <1>3, <1>4, StepKept

-----------------------------------------------------------------------------
(* Echoes                                                                   *)

LEMMA EchoLink ==
  ASSUME TypeOK, NEW r \in Receiver, NEW o \in Others(r)
  PROVE  /\ o \in Receiver /\ r \in Others(o) /\ echoes[o][r] \in Link
         /\ Len(echoes[o][r].sent) \in Nat /\ echoes[o][r].seen \in Nat
         /\ \A p \in 1..Len(echoes[o][r].sent) : echoes[o][r].sent[p] \in Sent
<1>1. o \in Receiver /\ r \in Others(o)
  BY DEF Others
<1>2. echoes[o][r] \in Link
  BY <1>1 DEF TypeOK
<1>3. echoes[o][r].sent \in Seq(Sent) /\ echoes[o][r].seen \in Nat
  BY <1>2 DEF Link
<1> DEFINE s == echoes[o][r].sent
<1> HIDE DEF s
<1>4. Len(s) \in Nat /\ \A p \in 1..Len(s) : s[p] \in Sent
  BY <1>3 DEF s
<1> QED BY <1>1, <1>2, <1>3, <1>4 DEF s

(* A step reads an echo, or sends those of the message it accepts.          *)
LEMMA StepEchoes ==
  ASSUME Assumption, TypeOK, [Next]_vars, NEW o \in Receiver, NEW q \in Others(o)
  PROVE  /\ \/ echoes'[o][q].seen = echoes[o][q].seen
            \/ /\ echoes'[o][q].seen \in Nat
               /\ echoes'[o][q].seen > echoes[o][q].seen
               /\ q \in Correct => echoes'[o][q].seen <= Len(echoes[o][q].sent)
         /\ \/ echoes'[o][q].sent = echoes[o][q].sent
            \/ /\ echoes'[o][q].seen = echoes[o][q].seen
               /\ q \in Correct
               /\ \E m \in Sent : PollMessage(q) /\ Accepted(q, m)
<1> DEFINE Goal == 
         /\ \/ echoes'[o][q].seen = echoes[o][q].seen
            \/ /\ echoes'[o][q].seen \in Nat
               /\ echoes'[o][q].seen > echoes[o][q].seen
               /\ q \in Correct => echoes'[o][q].seen <= Len(echoes[o][q].sent)
         /\ \/ echoes'[o][q].sent = echoes[o][q].sent
            \/ /\ echoes'[o][q].seen = echoes[o][q].seen
               /\ q \in Correct
               /\ \E m \in Sent : PollMessage(q) /\ Accepted(q, m)
<1>0. q \in Receiver /\ o \in Others(q) /\ echoes[o][q] \in Link
  BY DEF Others, TypeOK
<1>1. UNCHANGED echoes => Goal
  OBVIOUS
<1>2. ASSUME NEW r \in Receiver, PollMessage(r) PROVE Goal
  <2>1. PICK a \in Arriving(messages[r], Broadcaster, Payload, MaxMessages) :
           \/ UNCHANGED echoes
           \/ /\ ~Repeated(r, a.msg.index) /\ ~OutOfOrder(r, a.msg.index)
              /\ Accept(r, a.msg)
    BY <1>2 DEF PollMessage
  <2>2. CASE UNCHANGED echoes
    BY <2>2
  <2>3. CASE /\ ~Repeated(r, a.msg.index) /\ ~OutOfOrder(r, a.msg.index)
             /\ Accept(r, a.msg)
    <3>1. a.msg \in Sent /\ UNCHANGED latest_polled /\ r \in Correct
      BY <1>2, PolledType DEF PollMessage, Running
    <3>2. Accepted(r, a.msg)
      BY <2>3, <3>1, AcceptFacts
    <3>3. CASE q = r
      <4>1. echoes'[o][q] = SendOn(echoes[o][q], a.msg)
        BY <1>0, <3>2, <3>3 DEF Accepted
      <4>2. echoes'[o][q].seen = echoes[o][q].seen
        BY <1>0, <3>1, <4>1, SendFacts
      <4> QED BY <1>2, <3>1, <3>2, <3>3, <4>2
    <3>4. CASE q # r
      BY <3>2, <3>4 DEF Accepted
    <3> QED BY <3>3, <3>4
  <2> QED BY <2>1, <2>2, <2>3
<1>3. ASSUME NEW r \in Receiver, NEW p \in Others(r), PollEcho(r, p) PROVE Goal
  <2>1. PICK a \in Arriving(echoes[r][p], p, Payload \cup {Garbage}, MaxEchoes) :
          echoes' = [echoes EXCEPT ![r][p].seen = a.at]
    BY <1>3 DEF PollEcho
  <2>2. /\ a.at \in Nat /\ a.at > echoes[r][p].seen
        /\ p # faulty => a.at <= Len(echoes[r][p].sent)
    BY PolledType
  <2>3. /\ echoes'[r] = [echoes[r] EXCEPT ![p].seen = a.at]
        /\ \A z \in Receiver : z # r => echoes'[z] = echoes[z]
    BY <2>1 DEF TypeOK
  <2>4. echoes[r] \in [Others(r) -> Link]
    BY DEF TypeOK
  <2>5. /\ echoes'[r][p] = [echoes[r][p] EXCEPT !.seen = a.at]
        /\ \A z \in Others(r) : z # p => echoes'[r][z] = echoes[r][z]
    BY <2>3, <2>4
  <2>6. echoes[r][p] \in Link
    BY <2>4
  <2>7. echoes'[r][p].seen = a.at /\ echoes'[r][p].sent = echoes[r][p].sent
    BY <2>5, <2>6 DEF Link
  <2>8. CASE o = r /\ q = p
    BY <2>2, <2>7, <2>8 DEF Correct
  <2>9. CASE ~(o = r /\ q = p)
    BY <2>3, <2>5, <2>9
  <2> QED BY <2>8, <2>9
<1>4. ASSUME NEW r \in Receiver,
             \/ PollSignature(r) \/ PollVerification(r) \/ Poll(r)
             \/ \E s \in RegisterIndex : PollWrite(r, s)
             \/ \E i \in Index : PollReads(r, i)
      PROVE  UNCHANGED echoes
  BY <1>4 DEF PollSignature, PollVerification, Poll, PollWrite, PollReads, links
<1>5. ASSUME UNCHANGED vars \/ Broadcast \/ \E i \in Index : Sign(i) PROVE Goal
  BY <1>5 DEF vars, links, Broadcast, Sign
<1> HIDE DEF Goal
<1>6. ASSUME NEW r \in Receiver,
             \/ PollMessage(r) \/ PollSignature(r) \/ PollVerification(r) \/ Poll(r)
             \/ \E p \in Others(r) : PollEcho(r, p)
             \/ \E s \in RegisterIndex : PollWrite(r, s)
             \/ \E i \in Index : PollReads(r, i)
      PROVE  Goal
  <2>1. CASE PollMessage(r)
    BY <1>2, <2>1
  <2>2. CASE \E p \in Others(r) : PollEcho(r, p)
    BY <1>3, <2>2
  <2>3. CASE UNCHANGED echoes
    BY <1>1, <2>3
  <2> QED BY <1>4, <1>6, <2>1, <2>2, <2>3
<1>7. Goal
  <2>1. CASE Next
    BY <1>1, <1>5, <1>6, <2>1 DEF Next
  <2> QED BY <1>1, <1>5, <2>1 DEF vars
<1> QED BY <1>7 DEF Goal

\* The echoes q sent o, before and after.
SentGrows(q, o) ==
  /\ Len(echoes[o][q].sent) \in Nat /\ Len(echoes'[o][q].sent) \in Nat
  /\ Len(echoes'[o][q].sent) >= Len(echoes[o][q].sent)
  /\ \A p \in 1..Len(echoes[o][q].sent) :
       echoes'[o][q].sent[p] = echoes[o][q].sent[p]

LEMMA EchoesGrow ==
  ASSUME Assumption, TypeOK, [Next]_vars, NEW q \in Receiver, NEW o \in Others(q)
  PROVE  /\ SentGrows(q, o)
         /\ \A i, v : EchoedTo(q, o, i, v) => EchoedTo(q, o, i, v)'
<1>0. o \in Receiver /\ q \in Others(o) /\ echoes[o][q] \in Link
  BY DEF Others, TypeOK
<1>1. Len(echoes[o][q].sent) \in Nat
  BY <1>0 DEF Link
<1>2. SentGrows(q, o)
  <2>1. CASE echoes'[o][q].sent = echoes[o][q].sent
    BY <1>1, <2>1 DEF SentGrows
  <2>2. CASE \E m \in Sent : PollMessage(q) /\ Accepted(q, m)
    <3>1. PICK m \in Sent : Accepted(q, m)
      BY <2>2
    <3>2. echoes'[o][q] = SendOn(echoes[o][q], m)
      BY <3>1 DEF Accepted
    <3>3. /\ Len(SendOn(echoes[o][q], m).sent) = Len(echoes[o][q].sent) + 1
          /\ \A p \in 1..Len(echoes[o][q].sent) :
               SendOn(echoes[o][q], m).sent[p] = echoes[o][q].sent[p]
      BY <1>0, SendFacts
    <3>4. /\ Len(echoes'[o][q].sent) = Len(echoes[o][q].sent) + 1
          /\ \A p \in 1..Len(echoes[o][q].sent) :
               echoes'[o][q].sent[p] = echoes[o][q].sent[p]
      BY <3>2, <3>3
    <3> QED BY SMTT(30), <1>1, <3>4 DEF SentGrows
  <2> QED BY <1>0, <2>1, <2>2, StepEchoes
<1>3. ASSUME NEW i, NEW v, EchoedTo(q, o, i, v) PROVE EchoedTo(q, o, i, v)'
  <2>1. PICK p \in 1..Len(echoes[o][q].sent) : echoes[o][q].sent[p] = Message(i, v)
    BY <1>3 DEF EchoedTo
  <2>2. p \in 1..Len(echoes'[o][q].sent) /\ echoes'[o][q].sent[p] = Message(i, v)
    <3>1. echoes'[o][q].sent[p] = echoes[o][q].sent[p]
      BY <1>2, <2>1 DEF SentGrows
    <3>2. p \in Nat /\ 1 <= p /\ p <= Len(echoes[o][q].sent)
      BY <1>1, <2>1
    <3>3. /\ Len(echoes'[o][q].sent) \in Nat
          /\ Len(echoes'[o][q].sent) >= Len(echoes[o][q].sent)
      BY <1>2 DEF SentGrows
    <3>4. p \in 1..Len(echoes'[o][q].sent)
      BY <1>1, <3>2, <3>3
    <3> QED BY <2>1, <3>1, <3>4
  <2> QED BY <2>2 DEF EchoedTo, Message
<1> QED BY <1>2, <1>3

(* Echoes of one index have one value.                                      *)
LEMMA EchoesAgree ==
  ASSUME TypeOK, EchoesOrdered, NEW q \in Correct, NEW o \in Others(q), NEW i, NEW v,
         NEW w, EchoedTo(q, o, i, v), EchoedTo(q, o, i, w)
  PROVE  v = w
<1>0. q \in Receiver /\ o \in Receiver /\ q \in Others(o)
  BY DEF Correct, Others
<1> DEFINE s == echoes[o][q].sent
<1>1. PICK a \in 1..Len(s) : s[a] = Message(i, v)
  BY DEF EchoedTo
<1>2. PICK b \in 1..Len(s) : s[b] = Message(i, w)
  BY DEF EchoedTo
<1>3. Increasing(s) /\ s \in Seq(Sent)
  BY <1>0 DEF EchoesOrdered, TypeOK, Link
<1> HIDE DEF s
<1>4. s[a].index = i /\ s[a].value = v /\ s[b].index = i /\ s[b].value = w
  BY <1>1, <1>2 DEF Message
<1>5. s[a] \in Sent /\ a \in Nat /\ b \in Nat
  BY <1>3
<1>6. i \in Int
  BY <1>4, <1>5 DEF Sent, Index
<1>7. a = b
  BY <1>3, <1>4, <1>5, <1>6 DEF Increasing
<1> QED BY <1>4, <1>7

LEMMA NextEchoesOrdered ==
  ASSUME Assumption, TypeOK, KeptEchoed, EchoesOrdered, [Next]_vars
  PROVE  EchoesOrdered'
<1>0. faulty' = faulty /\ Correct' = Correct
  BY StepKept DEF Correct
<1>1. SUFFICES ASSUME NEW r \in Correct, NEW o \in Others(r)
               PROVE  /\ Increasing(echoes'[o][r].sent)
                      /\ \A p \in 1..Len(echoes'[o][r].sent) :
                           Past(r, echoes[o][r].sent[p].index)'
                      /\ echoes'[o][r].seen <= Len(echoes'[o][r].sent)
  BY <1>0 DEF EchoesOrdered
<1>2. /\ r \in Receiver /\ o \in Receiver /\ r \in Others(o)
      /\ echoes[o][r] \in Link /\ Len(echoes[o][r].sent) \in Nat
      /\ \A p \in 1..Len(echoes[o][r].sent) : echoes[o][r].sent[p] \in Sent
      /\ echoes[o][r].seen \in Nat
  BY EchoLink DEF Correct
<1> DEFINE s == echoes[o][r].sent
           t == echoes'[o][r].sent
<1>3. /\ Increasing(s) /\ \A p \in 1..Len(s) : Past(r, s[p].index)
      /\ echoes[o][r].seen <= Len(s)
  BY DEF EchoesOrdered
<1>4. \A p \in 1..Len(s) : s[p].index \in Index /\ s[p].index \in Nat
  BY <1>2, EchoFacts
<1>5. \A p \in 1..Len(s) : \A i \in Index : i = s[p].index => Past(r, i)'
  BY <1>3, <1>4, StepPast
<1>6. SentGrows(r, o)
  BY <1>2, EchoesGrow
<1>7. echoes'[o][r].seen <= Len(echoes'[o][r].sent)
  <2>1. \/ echoes'[o][r].seen = echoes[o][r].seen
        \/ /\ echoes'[o][r].seen \in Nat /\ echoes'[o][r].seen <= Len(s)
    BY <1>2, StepEchoes
  <2> QED BY <1>2, <1>3, <1>6, <2>1 DEF SentGrows
<1>8. ASSUME \A p \in 1..Len(t) : \E i \in Index : i = t[p].index /\ Past(r, i)'
      PROVE  \A p \in 1..Len(t) : Past(r, echoes[o][r].sent[p].index)'
  BY <1>8 DEF Past
<1>9. CASE t = s
  <2>1. \A p \in 1..Len(t) : \E i \in Index : i = t[p].index /\ Past(r, i)'
    BY <1>4, <1>5, <1>9
  <2> QED BY <1>3, <1>7, <1>8, <1>9, <2>1
<1>10. CASE \E m \in Sent : PollMessage(r) /\ Accepted(r, m)
  <2>1. PICK m \in Sent : Accepted(r, m)
    BY <1>10
  <2>2. /\ echoes'[o][r] = SendOn(echoes[o][r], m) /\ m.index \in Kept(r)'
        /\ \A j \in Index : Past(r, j) => j < m.index
    BY <2>1 DEF Accepted
  <2>3. /\ Len(SendOn(echoes[o][r], m).sent) = Len(s) + 1
        /\ \A p \in 1..Len(s) : SendOn(echoes[o][r], m).sent[p] = s[p]
        /\ SendOn(echoes[o][r], m).sent[Len(s) + 1] = m
    BY <1>2, SendFacts
  <2>4. /\ Len(t) = Len(s) + 1 /\ \A p \in 1..Len(s) : t[p] = s[p]
        /\ t[Len(s) + 1] = m
    BY <2>2, <2>3
  <2>5. m.index \in Index /\ m.index \in Nat /\ m.index >= m.index
    BY EchoFacts
  <2>6. \A p \in 1..Len(s) : s[p].index < m.index
    BY <1>3, <1>4, <2>2
  <2>7. Len(s) \in Nat
    BY <1>2
  <2>8. \A i \in Index : i = m.index => Past(r, i)'
    BY <2>2, <2>5 DEF Past
  <2> HIDE DEF s, t
  <2>9. \A p \in 1..Len(t) : p \in 1..Len(s) \/ p = Len(s) + 1
    BY <2>4, <2>7
  <2>10. Increasing(t)
    BY <1>3, <1>4, <2>4, <2>5, <2>6, <2>7, <2>9 DEF Increasing
  <2>11. \A p \in 1..Len(t) : \E i \in Index : i = t[p].index /\ Past(r, i)'
    <3>1. TAKE p \in 1..Len(t)
    <3>2. CASE p \in 1..Len(s)
      BY <1>4, <1>5, <2>4, <3>2
    <3>3. CASE p = Len(s) + 1
      BY <2>4, <2>5, <2>8, <3>3
    <3> QED BY <2>9, <3>2, <3>3
  <2> QED BY <1>7, <1>8, <2>10, <2>11 DEF t
<1> QED BY <1>2, <1>9, <1>10, StepEchoes

LEMMA NextKeptEchoed ==
  ASSUME Assumption, TypeOK, KeptEchoed, [Next]_vars PROVE KeptEchoed'
<1>0. faulty' = faulty /\ Correct' = Correct
  BY StepKept DEF Correct
<1>1. SUFFICES ASSUME NEW r \in Correct, NEW i \in Kept(r)'
               PROVE  /\ i >= latest_polled'[r]
                      /\ Echoed(r, i, msg_tail[r][i].value)'
  BY <1>0 DEF KeptEchoed
<1>2. r \in Receiver /\ latest_polled[r] \in Nat /\ Kept(r) \subseteq Nat
  BY EchoFacts DEF Correct, TypeOK
<1>3. \A k \in Kept(r) : k >= latest_polled[r] /\ Echoed(r, k, msg_tail[r][k].value)
  BY DEF KeptEchoed
<1>4. ASSUME i \in Kept(r), msg_tail'[r][i].value = msg_tail[r][i].value
      PROVE  Echoed(r, i, msg_tail[r][i].value)'
  <2>1. \A o \in Others(r) : EchoedTo(r, o, i, msg_tail[r][i].value)
    BY <1>3, <1>4 DEF Echoed
  <2>2. PICK v : v = msg_tail[r][i].value
    OBVIOUS
  <2>3. \A o \in Others(r) : EchoedTo(r, o, i, v)'
    BY <1>2, <2>1, <2>2, EchoesGrow
  <2> QED BY <1>4, <2>2, <2>3 DEF Echoed, EchoedTo, Message
<1>5. CASE Same
  BY <1>2, <1>3, <1>4, <1>5 DEF Same, SameKept
<1>6. ASSUME NEW q \in Correct, NEW m \in Sent, PollMessage(q), Accepted(q, m)
      PROVE  i >= latest_polled'[r] /\ Echoed(r, i, msg_tail[r][i].value)'
  <2>1. latest_polled' = latest_polled
    BY <1>6 DEF PollMessage
  <2>2. CASE q = r /\ i = m.index
    <3>1. i \in Nat
      BY <2>2, EchoFacts
    <3>2. ~Past(r, i) /\ msg_tail'[r][i].value = m.value
          /\ \A o \in Others(r) : echoes'[o][r] = SendOn(echoes[o][r], m)
      BY <1>6, <2>2 DEF Accepted
    <3>3. i >= latest_polled'[r]
      BY <1>2, <2>1, <3>1, <3>2 DEF Past
    <3>4. m = Message(i, m.value)
      BY <2>2 DEF Message, Sent
    <3>5. ASSUME NEW o \in Others(r) PROVE EchoedTo(r, o, i, msg_tail[r][i].value)'
      <4>1. echoes[o][r] \in Link
        BY <1>2, EchoLink
      <4>2. /\ Len(SendOn(echoes[o][r], m).sent) = Len(echoes[o][r].sent) + 1
            /\ SendOn(echoes[o][r], m).sent[Len(echoes[o][r].sent) + 1] = m
            /\ Len(echoes[o][r].sent) \in Nat
        BY <4>1, SendFacts
      <4> DEFINE n == Len(echoes[o][r].sent) + 1
      <4>3. Len(echoes'[o][r].sent) = n /\ echoes'[o][r].sent[n] = m
        BY <3>2, <4>2
      <4>4. n \in 1..Len(echoes'[o][r].sent)
        BY <4>2, <4>3
      <4> HIDE DEF n
      <4>5. echoes'[o][r].sent[n] = Message(i, msg_tail[r][i].value)'
        BY <3>2, <3>4, <4>3 DEF Message
      <4> QED BY <4>4, <4>5 DEF EchoedTo
    <3> QED BY <3>3, <3>5 DEF Echoed
  <2>3. CASE q = r /\ i # m.index
    <3>1. i \in Kept(r) /\ msg_tail'[r][i] = msg_tail[r][i]
      BY <1>6, <2>3 DEF Accepted
    <3> QED BY <1>3, <1>4, <2>1, <3>1
  <2>4. CASE q # r
    <3>1. msg_tail'[r] = msg_tail[r]
      BY <1>2, <1>6, <2>4 DEF Accepted, Others
    <3>2. i \in Kept(r)
      BY <3>1 DEF Kept
    <3> QED BY <1>3, <1>4, <2>1, <3>1, <3>2
  <2> QED BY <2>2, <2>3, <2>4
<1>7. ASSUME NEW q \in Correct, Poll(q)
      PROVE  i >= latest_polled'[r] /\ Echoed(r, i, msg_tail[r][i].value)'
  <2>1. PICK k \in Index : Polled(q, k)
    BY <1>7, PollFacts DEF Correct
  <2>2. CASE q = r
    <3>1. /\ k \in Kept(r) /\ Kept(r)' = Kept(r) \ {k} /\ latest_polled'[r] = k + 1
          /\ \A j \in Kept(r) \ {k} : msg_tail'[r][j] = msg_tail[r][j]
          /\ \A j \in Kept(r) : k <= j
      BY <2>1, <2>2 DEF Polled
    <3>2. i \in Kept(r) /\ i # k /\ msg_tail'[r][i] = msg_tail[r][i]
      BY <3>1
    <3>3. k \in Nat /\ i \in Nat /\ k <= i
      BY <1>2, <3>1, <3>2
    <3> QED BY <1>4, <3>1, <3>2, <3>3
  <2>3. CASE q # r
    <3>1. msg_tail'[r] = msg_tail[r] /\ latest_polled'[r] = latest_polled[r]
      BY <1>2, <2>1, <2>3 DEF Polled, Others
    <3>2. i \in Kept(r)
      BY <3>1 DEF Kept
    <3> QED BY <1>3, <1>4, <3>1, <3>2
  <2> QED BY <2>2, <2>3
<1> QED BY <1>5, <1>6, <1>7, StepKept

(* What r consumed of q's echoes stays consumed.                            *)
LEMMA SeenGrows ==
  ASSUME Assumption, TypeOK, EchoesOrdered, [Next]_vars,
         NEW q \in Correct, NEW r \in Others(q)
  PROVE  \A p \in 1..echoes[r][q].seen :
           /\ p \in 1..echoes'[r][q].seen
           /\ echoes'[r][q].sent[p] = echoes[r][q].sent[p]
<1>1. /\ q \in Receiver /\ r \in Receiver /\ q \in Others(r)
      /\ Len(echoes[r][q].sent) \in Nat /\ echoes[r][q].seen \in Nat
  BY EchoLink DEF Correct
<1>2. echoes[r][q].seen <= Len(echoes[r][q].sent)
  BY DEF EchoesOrdered
<1>3. SentGrows(q, r)
  BY <1>1, EchoesGrow
<1>4. \/ echoes'[r][q].seen = echoes[r][q].seen
      \/ echoes'[r][q].seen \in Nat /\ echoes'[r][q].seen > echoes[r][q].seen
  BY <1>1, StepEchoes
<1>5. TAKE p \in 1..echoes[r][q].seen
<1>6. p \in 1..Len(echoes[r][q].sent)
  BY <1>1, <1>2
<1>7. p \in 1..echoes'[r][q].seen
  BY <1>1, <1>4
<1> QED BY <1>3, <1>6, <1>7 DEF SentGrows

LEMMA BufferStaysSeen ==
  ASSUME Assumption, TypeOK, EchoesOrdered, [Next]_vars,
         NEW q \in Correct, NEW r \in Others(q), BufferSeen(r, q),
         \A k \in 1..Len(buffered_echoes'[r][q]) :
           \E j \in 1..Len(buffered_echoes[r][q]) :
             buffered_echoes'[r][q][k] = buffered_echoes[r][q][j]
  PROVE  BufferSeen(r, q)'
<1>1. ASSUME NEW k \in 1..Len(buffered_echoes'[r][q])
      PROVE  \E p \in 1..echoes'[r][q].seen :
               echoes'[r][q].sent[p] = buffered_echoes'[r][q][k]
  <2>1. PICK j \in 1..Len(buffered_echoes[r][q]) :
          buffered_echoes'[r][q][k] = buffered_echoes[r][q][j]
    OBVIOUS
  <2>2. PICK p \in 1..echoes[r][q].seen :
          echoes[r][q].sent[p] = buffered_echoes[r][q][j]
    BY DEF BufferSeen
  <2>3. p \in 1..echoes'[r][q].seen /\ echoes'[r][q].sent[p] = echoes[r][q].sent[p]
    BY SeenGrows
  <2> QED BY <2>1, <2>2, <2>3
<1> QED BY <1>1 DEF BufferSeen

\* What r keeps, it kept, with the echoes it has.
OldVotes(r) ==
  \A i \in Kept(r)' :
    /\ i \in Kept(r) /\ msg_tail'[r][i].value = msg_tail[r][i].value
    /\ msg_tail'[r][i].echoes = msg_tail[r][i].echoes
    /\ msg_tail'[r][i].match = msg_tail[r][i].match

LEMMA CountedStaysSeen ==
  ASSUME Assumption, TypeOK, EchoesOrdered, [Next]_vars,
         NEW q \in Correct, NEW r \in Others(q), CountedSeen(r, q),
         OldVotes(r)
  PROVE  CountedSeen(r, q)'
<1>1. ASSUME NEW i \in Kept(r)', q \in msg_tail'[r][i].echoes
      PROVE  \E p \in 1..echoes'[r][q].seen :
               /\ echoes'[r][q].sent[p].index = i
               /\ msg_tail'[r][i].match =>
                    echoes'[r][q].sent[p].value = msg_tail'[r][i].value
  <2>1. /\ i \in Kept(r) /\ msg_tail'[r][i].value = msg_tail[r][i].value
        /\ msg_tail'[r][i].echoes = msg_tail[r][i].echoes
        /\ msg_tail'[r][i].match = msg_tail[r][i].match
    BY DEF OldVotes
  <2>2. PICK p \in 1..echoes[r][q].seen :
          /\ echoes[r][q].sent[p].index = i
          /\ msg_tail[r][i].match => echoes[r][q].sent[p].value = msg_tail[r][i].value
    BY <1>1, <2>1 DEF CountedSeen
  <2>3. p \in 1..echoes'[r][q].seen /\ echoes'[r][q].sent[p] = echoes[r][q].sent[p]
    BY SeenGrows
  <2> QED BY <2>1, <2>2, <2>3
<1> QED BY <1>1 DEF CountedSeen

(* Everything but a message accepted by r and an echo read by r.            *)
LEMMA SeenOtherwise ==
  ASSUME Assumption, TypeOK, EchoesOrdered, [Next]_vars,
         NEW q \in Correct, NEW r \in Others(q), BufferSeen(r, q), CountedSeen(r, q),
         buffered_echoes'[r] = buffered_echoes[r], OldVotes(r)
  PROVE  BufferSeen(r, q)' /\ CountedSeen(r, q)'
<1>1. \A k \in 1..Len(buffered_echoes'[r][q]) :
        \E j \in 1..Len(buffered_echoes[r][q]) :
          buffered_echoes'[r][q][k] = buffered_echoes[r][q][j]
  OBVIOUS
<1>2. BufferSeen(r, q)'
  BY <1>1, BufferStaysSeen
<1>3. CountedSeen(r, q)'
  BY CountedStaysSeen
<1> QED BY <1>2, <1>3

LEMMA SeenAfterAccept ==
  ASSUME Assumption, TypeOK, EchoesOrdered, [Next]_vars,
         NEW q \in Correct, NEW r \in Others(q), BufferSeen(r, q), CountedSeen(r, q),
         NEW m \in Sent, Accepted(r, m)
  PROVE  BufferSeen(r, q)' /\ CountedSeen(r, q)'
<1>0. q \in Others(r)
  BY DEF Others, Correct
<1>1. BufferSeen(r, q)'
  BY <1>0, BufferStaysSeen DEF Accepted
<1>2. ASSUME NEW i \in Kept(r)', q \in msg_tail'[r][i].echoes
      PROVE  \E p \in 1..echoes'[r][q].seen :
               /\ echoes'[r][q].sent[p].index = i
               /\ msg_tail'[r][i].match =>
                    echoes'[r][q].sent[p].value = msg_tail'[r][i].value
  <2>1. PICK p \in 1..echoes[r][q].seen :
          /\ echoes[r][q].sent[p].index = i
          /\ msg_tail'[r][i].match => echoes[r][q].sent[p].value = msg_tail'[r][i].value
    <3>1. CASE i = m.index
      <4>1. PICK k \in 1..Len(buffered_echoes[r][q]) :
              /\ buffered_echoes[r][q][k].index = m.index
              /\ msg_tail'[r][m.index].match => buffered_echoes[r][q][k].value = m.value
        BY <1>2, <3>1 DEF Accepted
      <4>2. msg_tail'[r][m.index].value = m.value
        BY DEF Accepted
      <4>3. PICK p \in 1..echoes[r][q].seen :
              echoes[r][q].sent[p] = buffered_echoes[r][q][k]
        BY DEF BufferSeen
      <4> QED BY <3>1, <4>1, <4>2, <4>3
    <3>2. CASE i # m.index
      <4>1. i \in Kept(r) /\ msg_tail'[r][i] = msg_tail[r][i]
        BY <3>2 DEF Accepted
      <4> QED BY <1>2, <4>1 DEF CountedSeen
    <3> QED BY <3>1, <3>2
  <2>2. p \in 1..echoes'[r][q].seen /\ echoes'[r][q].sent[p] = echoes[r][q].sent[p]
    BY SeenGrows
  <2> QED BY <2>1, <2>2
<1>3. CountedSeen(r, q)'
  BY <1>2 DEF CountedSeen
<1> QED BY <1>1, <1>3

(* An echo that is read is counted, buffered or of no use.                  *)
LEMMA SeenAfterEcho ==
  ASSUME Assumption, TypeOK, EchoesOrdered, [Next]_vars,
         NEW q \in Correct, NEW r \in Others(q), BufferSeen(r, q), CountedSeen(r, q),
         NEW o \in Others(r), PollEcho(r, o)
  PROVE  BufferSeen(r, q)' /\ CountedSeen(r, q)'
<1>0. q \in Others(r) /\ r \in Receiver /\ q \in Receiver /\ q # faulty
  BY DEF Others, Correct
<1>1. PICK a \in Arriving(echoes[r][o], o, Payload \cup {Garbage}, MaxEchoes) :
        /\ echoes' = [echoes EXCEPT ![r][o].seen = a.at]
        /\ handleEcho(r, o, a.msg)
  BY DEF PollEcho
<1>2. /\ a.msg \in Echo /\ a.at \in Nat /\ a.at > echoes[r][o].seen
      /\ o # faulty => a.at <= Len(echoes[r][o].sent) /\ a.msg = echoes[r][o].sent[a.at]
  <2>1. echoes[r][o] \in [sent : Seq(Sent), seen : Nat]
    BY <1>0, EchoLink DEF TypeOK, Link, Others
  <2>2. o # faulty => a.at <= Len(echoes[r][o].sent) /\ a.msg = echoes[r][o].sent[a.at]
    BY <2>1, ArrivingFacts
  <2> QED BY <1>0, <2>2, PolledType
<1> DEFINE e == a.msg

(* The echo itself is now among those consumed.                             *)
<1>3. ASSUME o = q
      PROVE  \E p \in 1..echoes'[r][q].seen : echoes'[r][q].sent[p] = e
  <2>1. echoes[r] \in [Others(r) -> Link] /\ echoes'[r] = [echoes[r] EXCEPT ![o].seen = a.at]
    BY <1>0, <1>1 DEF TypeOK
  <2>2. echoes[r][q] \in Link /\ echoes'[r][q] = [echoes[r][q] EXCEPT !.seen = a.at]
    BY <1>0, <1>3, <2>1
  <2>3. echoes'[r][q].seen = a.at /\ echoes'[r][q].sent = echoes[r][q].sent
        /\ echoes[r][q].seen \in Nat
    BY <2>2 DEF Link
  <2>4. a.at \in 1..a.at
    BY <1>2, <1>3, <2>3
  <2> QED BY <1>0, <1>2, <1>3, <2>3, <2>4
<1>4. CASE UNCHANGED <<msg_tail, buffered_echoes>>
  <2>1. OldVotes(r)
    BY <1>4 DEF OldVotes, Kept
  <2>2. buffered_echoes'[r] = buffered_echoes[r]
    BY <1>4
  <2> QED BY <2>1, <2>2, SeenOtherwise
<1>5. CASE /\ e.index \in Kept(r) /\ UNCHANGED buffered_echoes
           /\ msg_tail' = [msg_tail EXCEPT ![r][e.index] = echoed(@, o, e.value)]
  <2> DEFINE i == e.index
             d == msg_tail[r][i]
             c == echoed(d, o, e.value)
  <2>0. d \in MessageData /\ i \in Kept(r)
    BY <1>0, <1>5 DEF TypeOK
  <2>1. /\ c.value = d.value /\ c.echoes = d.echoes \cup {o}
        /\ c.match => d.match /\ e.value = d.value
    BY <2>0 DEF echoed, MessageData
  <2>2. msg_tail'[r] = [msg_tail[r] EXCEPT ![i] = c]
    BY <1>0, <1>5 DEF TypeOK
  <2> HIDE DEF c, d, i
  <2>3. /\ Kept(r)' = Kept(r) /\ msg_tail'[r][i] = c
        /\ \A j \in Kept(r) : j # i => msg_tail'[r][j] = msg_tail[r][j]
    BY <2>0, <2>2 DEF Kept
  <2>4. BufferSeen(r, q)'
    BY <1>5, BufferStaysSeen
  <2>5. ASSUME NEW j \in Kept(r)', q \in msg_tail'[r][j].echoes
        PROVE  \E p \in 1..echoes'[r][q].seen :
                 /\ echoes'[r][q].sent[p].index = j
                 /\ msg_tail'[r][j].match =>
                      echoes'[r][q].sent[p].value = msg_tail'[r][j].value
    <3>1. CASE o = q /\ j = i
      <4>1. PICK p \in 1..echoes'[r][q].seen : echoes'[r][q].sent[p] = e
        BY <1>3, <3>1
      <4>2. msg_tail'[r][j].match => e.value = msg_tail'[r][j].value
        BY <2>1, <2>3, <3>1
      <4> QED BY <3>1, <4>1, <4>2 DEF i
    <3>2. CASE ~(o = q /\ j = i)
      <4>1. /\ j \in Kept(r) /\ q \in msg_tail[r][j].echoes
            /\ msg_tail'[r][j].value = msg_tail[r][j].value
            /\ msg_tail'[r][j].match => msg_tail[r][j].match
        BY <2>1, <2>3, <2>5, <3>2 DEF d
      <4>2. PICK p \in 1..echoes[r][q].seen :
              /\ echoes[r][q].sent[p].index = j
              /\ msg_tail[r][j].match => echoes[r][q].sent[p].value = msg_tail[r][j].value
        BY <4>1 DEF CountedSeen
      <4>3. p \in 1..echoes'[r][q].seen /\ echoes'[r][q].sent[p] = echoes[r][q].sent[p]
        BY SeenGrows
      <4> QED BY <4>1, <4>2, <4>3
    <3> QED BY <3>1, <3>2
  <2>6. CountedSeen(r, q)'
    BY <2>5 DEF CountedSeen
  <2> QED BY <2>4, <2>6
<1>6. CASE /\ UNCHANGED msg_tail
           /\ LET longer == Append(buffered_echoes[r][o], e)
              IN  buffered_echoes' = [buffered_echoes EXCEPT ![r][o] =
                    IF Len(longer) > TailSize THEN Tail(longer) ELSE longer]
  <2>1. CountedSeen(r, q)'
    <3>1. OldVotes(r)
      BY <1>6 DEF OldVotes, Kept
    <3> QED BY <3>1, CountedStaysSeen
  <2> DEFINE b == buffered_echoes[r][o]
             longer == Append(b, e)
             new == IF Len(longer) > TailSize THEN Tail(longer) ELSE longer
  <2>2. b \in Seq(Echo) /\ buffered_echoes[r] \in [Others(r) -> Seq(Echo)]
    BY <1>0 DEF TypeOK
  <2>3. Len(longer) = Len(b) + 1 /\ Len(b) \in Nat /\ longer \in Seq(Echo)
        /\ \A k \in 1..(Len(b) + 1) : longer[k] = e \/ \E j \in 1..Len(b) : longer[k] = b[j]
    BY <1>2, <2>2
  <2>4. \A k \in 1..Len(new) : new[k] = e \/ \E j \in 1..Len(b) : new[k] = b[j]
    <3> HIDE DEF longer, b
    <3>1. Len(Tail(longer)) = Len(longer) - 1
          /\ \A k \in 1..(Len(longer) - 1) : Tail(longer)[k] = longer[k + 1]
      BY <2>3
    <3> QED BY <2>3, <3>1
  <2>5. buffered_echoes'[r] = [buffered_echoes[r] EXCEPT ![o] = new]
    BY <1>0, <1>6 DEF TypeOK
  <2> HIDE DEF b, longer, new
  <2>6. /\ buffered_echoes'[r][o] = new
        /\ \A z \in Others(r) : z # o => buffered_echoes'[r][z] = buffered_echoes[r][z]
    BY <2>2, <2>5
  <2>7. CASE o # q
    BY <1>0, <2>1, <2>6, <2>7, BufferStaysSeen
  <2>8. CASE o = q
    <3>1. ASSUME NEW k \in 1..Len(buffered_echoes'[r][q])
          PROVE  \E p \in 1..echoes'[r][q].seen :
                   echoes'[r][q].sent[p] = buffered_echoes'[r][q][k]
      <4>1. CASE buffered_echoes'[r][q][k] = e
        BY <1>3, <2>8, <4>1
      <4>2. CASE \E j \in 1..Len(b) : buffered_echoes'[r][q][k] = b[j]
        <5>1. PICK j \in 1..Len(b) : buffered_echoes'[r][q][k] = b[j]
          BY <4>2
        <5>2. PICK p \in 1..echoes[r][q].seen : echoes[r][q].sent[p] = b[j]
          BY <2>8, <5>1 DEF BufferSeen, b
        <5>3. p \in 1..echoes'[r][q].seen /\ echoes'[r][q].sent[p] = echoes[r][q].sent[p]
          BY SeenGrows
        <5> QED BY <5>1, <5>2, <5>3
      <4> QED BY <2>4, <2>6, <2>8, <4>1, <4>2
    <3>2. BufferSeen(r, q)'
      BY <3>1 DEF BufferSeen
    <3> QED BY <2>1, <3>2
  <2> QED BY <2>7, <2>8
<1> QED BY <1>1, <1>4, <1>5, <1>6 DEF handleEcho

LEMMA NextEchoesSeen ==
  ASSUME Assumption, TypeOK, EchoesOrdered, EchoesSeen, [Next]_vars
  PROVE  EchoesSeen'
<1>0. faulty' = faulty /\ Correct' = Correct
  BY StepKept DEF Correct
<1>1. SUFFICES ASSUME NEW r \in Correct, NEW q \in Correct \cap Others(r)
               PROVE  BufferSeen(r, q)' /\ CountedSeen(r, q)'
  BY <1>0 DEF EchoesSeen
<1>2. /\ r \in Receiver /\ q \in Correct /\ r \in Others(q)
      /\ BufferSeen(r, q) /\ CountedSeen(r, q)
  BY DEF EchoesSeen, Correct, Others
<1> DEFINE Goal == BufferSeen(r, q)' /\ CountedSeen(r, q)'
<1>3. buffered_echoes'[r] = buffered_echoes[r] /\ OldVotes(r) => Goal
  BY <1>2, SeenOtherwise
<1>4. UNCHANGED <<msg_tail, buffered_echoes>> => Goal
  BY <1>3 DEF OldVotes, Kept
<1>5. SameKept(r) /\ SameVotes(r) /\ UNCHANGED buffered_echoes => Goal
  BY <1>3 DEF OldVotes, SameKept, SameVotes
<1>6. ASSUME NEW z \in Receiver, PollMessage(z) PROVE Goal
  <2>1. PICK a \in Arriving(messages[z], Broadcaster, Payload, MaxMessages) :
           \/ UNCHANGED <<msg_tail, buffered_echoes>>
           \/ /\ ~Repeated(z, a.msg.index) /\ ~OutOfOrder(z, a.msg.index)
              /\ Accept(z, a.msg)
    BY <1>6 DEF PollMessage
  <2>2. CASE UNCHANGED <<msg_tail, buffered_echoes>>
    BY <1>4, <2>2
  <2>3. CASE /\ ~Repeated(z, a.msg.index) /\ ~OutOfOrder(z, a.msg.index)
             /\ Accept(z, a.msg)
    <3>1. a.msg \in Sent /\ UNCHANGED latest_polled
      BY <1>6, PolledType DEF PollMessage
    <3>2. Accepted(z, a.msg)
      BY <2>3, <3>1, AcceptFacts
    <3>3. CASE z = r
      BY <1>2, <3>1, <3>2, <3>3, SeenAfterAccept
    <3>4. CASE z # r
      <4>1. buffered_echoes'[r] = buffered_echoes[r] /\ msg_tail'[r] = msg_tail[r]
        BY <1>2, <3>2, <3>4 DEF Accepted, Others
      <4> QED BY <1>3, <4>1 DEF OldVotes, Kept
    <3> QED BY <3>3, <3>4
  <2> QED BY <2>1, <2>2, <2>3
<1>7. ASSUME NEW z \in Receiver, NEW o \in Others(z), PollEcho(z, o) PROVE Goal
  <2>1. CASE z = r
    BY <1>2, <1>7, <2>1, SeenAfterEcho
  <2>2. CASE z # r
    <3>1. buffered_echoes'[r] = buffered_echoes[r] /\ msg_tail'[r] = msg_tail[r]
      BY <1>2, <1>7, <2>2 DEF PollEcho, handleEcho, TypeOK
    <3> QED BY <1>3, <3>1 DEF OldVotes, Kept
  <2> QED BY <2>1, <2>2
<1>8. ASSUME NEW z \in Receiver, Poll(z) PROVE Goal
  <2>1. PICK i \in Index : Polled(z, i)
    BY <1>8, PollFacts
  <2>2. CASE z = r
    BY <1>3, <2>1, <2>2 DEF Polled, OldVotes
  <2>3. CASE z # r
    <3>1. buffered_echoes'[r] = buffered_echoes[r] /\ msg_tail'[r] = msg_tail[r]
      BY <1>2, <2>1, <2>3 DEF Polled, Others
    <3> QED BY <1>3, <3>1 DEF OldVotes, Kept
  <2> QED BY <2>2, <2>3
<1>9. ASSUME NEW z \in Receiver,
             \/ PollSignature(z) \/ PollVerification(z)
             \/ \E i \in Index : PollReads(z, i)
      PROVE  Goal
  <2>1. UNCHANGED buffered_echoes
    BY <1>9 DEF PollSignature, PollVerification, PollReads
  <2>2. SameKept(r) /\ SameVotes(r)
    BY <1>2, <1>9, KeptPollSignature, KeptPollVerification, KeptPollReads
  <2> QED BY <1>5, <2>1, <2>2
<1>10. ASSUME \/ UNCHANGED vars \/ Broadcast \/ \E i \in Index : Sign(i)
              \/ \E z \in Receiver : \E s \in RegisterIndex : PollWrite(z, s)
       PROVE  Goal
  BY <1>4, <1>10 DEF vars, Broadcast, Sign, PollWrite
<1> HIDE DEF Goal
<1>11. ASSUME NEW z \in Receiver,
             \/ PollMessage(z) \/ PollSignature(z) \/ PollVerification(z) \/ Poll(z)
             \/ \E p \in Others(z) : PollEcho(z, p)
             \/ \E s \in RegisterIndex : PollWrite(z, s)
             \/ \E i \in Index : PollReads(z, i)
      PROVE  Goal
  BY <1>6, <1>7, <1>8, <1>9, <1>10, <1>11
<1>12. Goal
  BY <1>10, <1>11 DEF Next
<1> QED BY <1>12 DEF Goal

-----------------------------------------------------------------------------
(* Registers                                                                *)

LEMMA RegisterType ==
  ASSUME TypeOK, NEW q \in Receiver, NEW s \in RegisterIndex
  PROVE  /\ registers[q][s] \in Register
         /\ registers[q][s].log \in Seq([inc : Nat, value : Value])
         /\ Len(registers[q][s].log) \in Nat /\ registers[q][s].done \in Nat
         /\ \A k \in 1..Len(registers[q][s].log) :
              registers[q][s].log[k] \in [inc : Nat, value : Value]
         /\ outstanding_writes[q][s] \in Index \cup {Idle}
<1>1. registers[q][s] \in Register /\ outstanding_writes[q][s] \in Index \cup {Idle}
  BY DEF TypeOK
<1> DEFINE log == registers[q][s].log
<1>2. log \in Seq([inc : Nat, value : Value]) /\ registers[q][s].done \in Nat
  BY <1>1 DEF Register
<1> HIDE DEF log
<1> DEFINE Entry == [inc : Nat, value : Value]
<1>4. log \in Seq(Entry)
  BY <1>2
<1> HIDE DEF Entry
<1>5. Len(log) \in Nat /\ \A k \in 1..Len(log) : log[k] \in Entry
  BY <1>4
<1>3. Len(log) \in Nat /\ \A k \in 1..Len(log) : log[k] \in [inc : Nat, value : Value]
  BY <1>5 DEF Entry
<1> QED BY <1>1, <1>2, <1>3 DEF log

\* q starts to write the signature of message i to its register s.
StartsWrite(q, s, i) ==
  /\ q \in Correct /\ i \in Kept(q) /\ s = i % TailSize
  /\ [index |-> i, origin |-> "broadcaster", ok |-> TRUE] \in verifying[q]
  /\ outstanding_writes[q][s] = Idle /\ outstanding_writes'[q][s] = i
  /\ Incarnation(i) > Last(registers[q][s].log).inc
  /\ registers'[q][s].log = Append(registers[q][s].log,
       [inc |-> Incarnation(i), value |-> msg_tail[q][i].signature])
  /\ registers'[q][s].done = registers[q][s].done

EndsWrite(q, s) ==
  /\ PollWrite(q, s) /\ outstanding_writes[q][s] \in Index
  /\ outstanding_writes'[q][s] = Idle
  /\ registers'[q][s].log = registers[q][s].log
  /\ registers'[q][s].done = Len(registers[q][s].log)

(* A write starts, ends, or the register is left alone.                     *)
LEMMA StepRegisters ==
  ASSUME Assumption, TypeOK, [Next]_vars, NEW q \in Receiver, NEW s \in RegisterIndex
  PROVE  \/ /\ registers'[q][s] = registers[q][s]
            /\ outstanding_writes'[q][s] = outstanding_writes[q][s]
         \/ \E i \in Index : StartsWrite(q, s, i)
         \/ EndsWrite(q, s)
<1> DEFINE Alone == /\ registers'[q][s] = registers[q][s]
                    /\ outstanding_writes'[q][s] = outstanding_writes[q][s]
           Goal == Alone \/ (\E i \in Index : StartsWrite(q, s, i)) \/ EndsWrite(q, s)
<1>1. UNCHANGED <<registers, outstanding_writes>> => Goal
  OBVIOUS
<1>2. ASSUME NEW r \in Receiver, PollVerification(r) PROVE Goal
  <2>1. PICK t \in verifying[r] :
          \/ UNCHANGED <<registers, outstanding_writes>>
          \/ /\ t.index \in Kept(r) /\ t.origin = "broadcaster" /\ t.ok
             /\ WriteRegister(r, t.index)
    BY <1>2 DEF PollVerification
  <2>2. CASE UNCHANGED <<registers, outstanding_writes>>
    BY <1>1, <2>2
  <2>3. CASE /\ t.index \in Kept(r) /\ t.origin = "broadcaster" /\ t.ok
             /\ WriteRegister(r, t.index)
             /\ ~UNCHANGED <<registers, outstanding_writes>>
    <3> DEFINE i == t.index
               z == i % TailSize
    <3>0. i \in Index /\ i \in Kept(r) /\ t \in Task
      BY <2>3 DEF TypeOK
    <3>1. /\ outstanding_writes[r][z] = Idle
          /\ Incarnation(i) > Last(registers[r][z].log).inc
          /\ registers' = [registers EXCEPT ![r][z].log = Append(@,
               [inc |-> Incarnation(i), value |-> msg_tail[r][i].signature])]
          /\ outstanding_writes' = [outstanding_writes EXCEPT ![r][z] = i]
      <4>1. WriteRegister(r, i) /\ ~UNCHANGED <<registers, outstanding_writes>>
        BY <2>3
      <4> HIDE DEF i
      <4> QED BY <3>0, <4>1, WriteFacts
    <3>2. z \in RegisterIndex
      BY <3>0, SlotFacts
    <3>3. [index |-> i, origin |-> "broadcaster", ok |-> TRUE] \in verifying[r]
      <4>1. t.ok = TRUE /\ t.origin = "broadcaster"
        BY <2>3, <3>0 DEF Task
      <4>2. t = [index |-> t.index, origin |-> t.origin, ok |-> t.ok]
        BY <3>0 DEF Task
      <4>3. t = [index |-> i, origin |-> "broadcaster", ok |-> TRUE]
        BY <4>1, <4>2
      <4> QED BY <4>3
    <3>4. r \in Correct
      BY <1>2 DEF PollVerification, Running
    <3> HIDE DEF i, z
    <3> DEFINE log == Append(registers[r][z].log,
                 [inc |-> Incarnation(i), value |-> msg_tail[r][i].signature])
               g == [registers[r][z] EXCEPT !.log = log]
    <3>5. registers' = [registers EXCEPT ![r][z] = g]
      BY <3>1
    <3>6. registers[r][z] \in Register
      BY <3>2, RegisterType
    <3>7. g.log = log /\ g.done = registers[r][z].done
      BY <3>6 DEF Register
    <3> HIDE DEF g, log
    <3>8. /\ registers'[r] = [registers[r] EXCEPT ![z] = g]
          /\ outstanding_writes'[r] = [outstanding_writes[r] EXCEPT ![z] = i]
          /\ \A o \in Receiver : o # r => /\ registers'[o] = registers[o]
                                          /\ outstanding_writes'[o] = outstanding_writes[o]
      BY <3>1, <3>5 DEF TypeOK
    <3>9. /\ registers'[r][z] = g /\ outstanding_writes'[r][z] = i
          /\ \A y \in RegisterIndex : y # z =>
               /\ registers'[r][y] = registers[r][y]
               /\ outstanding_writes'[r][y] = outstanding_writes[r][y]
      BY <3>2, <3>8 DEF TypeOK
    <3>10. CASE q = r /\ s = z
      <4>1. StartsWrite(q, s, i)
        BY <3>0, <3>1, <3>3, <3>4, <3>7, <3>9, <3>10 DEF StartsWrite, i, z, log
      <4> QED BY <3>0, <4>1 DEF i
    <3>11. CASE ~(q = r /\ s = z)
      BY <3>8, <3>9, <3>11
    <3> QED BY <3>10, <3>11
  <2> QED BY <2>1, <2>2, <2>3
<1>3. ASSUME NEW r \in Receiver, NEW z \in RegisterIndex, PollWrite(r, z) PROVE Goal
  <2>1. /\ registers' = [registers EXCEPT ![r][z].done = Len(registers[r][z].log)]
        /\ outstanding_writes' = [outstanding_writes EXCEPT ![r][z] = Idle]
        /\ outstanding_writes[r][z] # Idle
    BY <1>3 DEF PollWrite
  <2> DEFINE g == [registers[r][z] EXCEPT !.done = Len(registers[r][z].log)]
  <2>2. /\ registers' = [registers EXCEPT ![r][z] = g]
        /\ outstanding_writes[r][z] \in Index /\ registers[r][z] \in Register
    BY <2>1, RegisterType
  <2>3. g.log = registers[r][z].log /\ g.done = Len(registers[r][z].log)
    BY <2>2 DEF Register
  <2> HIDE DEF g
  <2>4. /\ registers'[r] = [registers[r] EXCEPT ![z] = g]
        /\ outstanding_writes'[r] = [outstanding_writes[r] EXCEPT ![z] = Idle]
        /\ \A o \in Receiver : o # r => /\ registers'[o] = registers[o]
                                        /\ outstanding_writes'[o] = outstanding_writes[o]
    BY <2>1, <2>2 DEF TypeOK
  <2>5. /\ registers'[r][z] = g /\ outstanding_writes'[r][z] = Idle
        /\ \A y \in RegisterIndex : y # z =>
             /\ registers'[r][y] = registers[r][y]
             /\ outstanding_writes'[r][y] = outstanding_writes[r][y]
    BY <2>4 DEF TypeOK
  <2>6. CASE q = r /\ s = z
    BY <1>3, <2>2, <2>3, <2>5, <2>6 DEF EndsWrite
  <2>7. CASE ~(q = r /\ s = z)
    BY <2>4, <2>5, <2>7
  <2> QED BY <2>6, <2>7
<1>4. ASSUME NEW r \in Receiver,
             \/ PollMessage(r) \/ PollSignature(r) \/ Poll(r)
             \/ \E p \in Others(r) : PollEcho(r, p)
             \/ \E i \in Index : PollReads(r, i)
      PROVE  UNCHANGED <<registers, outstanding_writes>>
  BY <1>4 DEF PollMessage, PollSignature, Poll, PollEcho, PollReads, slow
<1>5. ASSUME UNCHANGED vars \/ Broadcast \/ \E i \in Index : Sign(i)
      PROVE  UNCHANGED <<registers, outstanding_writes>>
  BY <1>5 DEF vars, slow, Broadcast, Sign
<1> HIDE DEF Goal
<1>6. ASSUME NEW z \in Receiver,
             \/ PollMessage(z) \/ PollSignature(z) \/ PollVerification(z) \/ Poll(z)
             \/ \E p \in Others(z) : PollEcho(z, p)
             \/ \E y \in RegisterIndex : PollWrite(z, y)
             \/ \E i \in Index : PollReads(z, i)
      PROVE  Goal
  BY <1>1, <1>2, <1>3, <1>4, <1>6
<1>7. Goal
  BY <1>1, <1>5, <1>6 DEF Next
<1> QED BY <1>7 DEF Goal

(* The log of a correct receiver's register only grows, and so does what    *)
(* of it is complete.                                                       *)
LEMMA RegistersGrow ==
  ASSUME Assumption, TypeOK, RegistersSound, [Next]_vars, NEW q \in Correct,
         NEW s \in RegisterIndex
  PROVE  /\ \A k \in 1..Len(registers[q][s].log) :
              /\ k \in 1..Len(registers'[q][s].log)
              /\ registers'[q][s].log[k] = registers[q][s].log[k]
         /\ registers[q][s].done \in Nat /\ registers'[q][s].done \in Nat
         /\ registers'[q][s].done >= registers[q][s].done
         /\ registers[q][s].done <= Len(registers[q][s].log)
<1> DEFINE log == registers[q][s].log
           after == registers'[q][s].log
<1>1. /\ q \in Receiver /\ log \in Seq([inc : Nat, value : Value])
      /\ Len(log) \in Nat /\ registers[q][s].done \in Nat
  BY RegisterType DEF Correct
<1>2. registers[q][s].done <= Len(log)
  <2>1. RegisterSound(q, s)
    BY DEF RegistersSound
  <2> QED BY <1>1, <2>1 DEF RegisterSound
<1>3. CASE registers'[q][s] = registers[q][s]
  BY <1>1, <1>2, <1>3
<1>4. ASSUME NEW i \in Index, StartsWrite(q, s, i)
      PROVE  /\ \A k \in 1..Len(log) : k \in 1..Len(after) /\ after[k] = log[k]
             /\ registers'[q][s].done = registers[q][s].done
  <2>1. /\ after = Append(log, [inc |-> Incarnation(i), value |-> msg_tail[q][i].signature])
        /\ registers'[q][s].done = registers[q][s].done
    BY <1>4 DEF StartsWrite
  <2> HIDE DEF log, after
  <2>2. Len(after) = Len(log) + 1 /\ \A k \in 1..Len(log) : after[k] = log[k]
    BY <1>1, <2>1
  <2>3. \A k \in 1..Len(log) : k \in 1..(Len(log) + 1)
    BY <1>1
  <2> QED BY <2>1, <2>2, <2>3
<1>5. CASE EndsWrite(q, s)
  <2>1. after = log /\ registers'[q][s].done = Len(log)
    BY <1>5 DEF EndsWrite
  <2> QED BY <1>1, <1>2, <2>1
<1> QED BY <1>1, <1>2, <1>3, <1>4, <1>5, StepRegisters

(* What is complete stays complete.                                         *)
LEMMA DoneGrows ==
  ASSUME Assumption, TypeOK, RegistersSound, [Next]_vars, NEW q \in Correct,
         NEW i \in Index
  PROVE  /\ Done(q, i) => Done(q, i)'
         /\ \A v : DoneWith(q, i, v) => DoneWith(q, i, v)'
<1> DEFINE s == i % TailSize
<1>1. s \in RegisterIndex
  BY SlotFacts
<1>2. /\ \A k \in 1..Len(registers[q][s].log) :
           /\ k \in 1..Len(registers'[q][s].log)
           /\ registers'[q][s].log[k] = registers[q][s].log[k]
      /\ registers[q][s].done \in Nat /\ registers'[q][s].done \in Nat
      /\ registers'[q][s].done >= registers[q][s].done
      /\ registers[q][s].done <= Len(registers[q][s].log)
  <2> HIDE DEF s
  <2> QED BY <1>1, RegistersGrow
<1>0. Len(registers[q][s].log) \in Nat
  <2>1. q \in Receiver
    BY DEF Correct
  <2> QED BY <1>1, <2>1, RegisterType
<1>3. ASSUME NEW k \in 1..registers[q][s].done
      PROVE  k \in 1..registers'[q][s].done /\ k \in 1..Len(registers[q][s].log)
  BY <1>0, <1>2
<1>4. ASSUME Done(q, i) PROVE Done(q, i)'
  <2>1. PICK k \in 1..registers[q][s].done :
          registers[q][s].log[k].inc = Incarnation(i)
    BY <1>4 DEF Done, Slot
  <2>2. /\ k \in 1..registers'[q][s].done /\ k \in 1..Len(registers'[q][s].log)
        /\ registers'[q][s].log[k].inc = Incarnation(i)
    BY <1>2, <1>3, <2>1
  <2> QED BY <2>2 DEF Done, Slot, Incarnation
<1>5. ASSUME NEW v, DoneWith(q, i, v) PROVE DoneWith(q, i, v)'
  <2>1. PICK k \in 1..registers[q][s].done :
          /\ registers[q][s].log[k].inc = Incarnation(i)
          /\ registers[q][s].log[k].value = v
    BY <1>5 DEF DoneWith, Holds, Slot
  <2>2. /\ k \in 1..registers'[q][s].done /\ k \in 1..Len(registers'[q][s].log)
        /\ registers'[q][s].log[k].inc = Incarnation(i)
        /\ registers'[q][s].log[k].value = v
    BY <1>2, <1>3, <2>1
  <2> QED BY <2>2 DEF DoneWith, Holds, Slot, Incarnation
<1> QED BY <1>4, <1>5

(* The signature a correct receiver writes signs the value it keeps.        *)
LEMMA WritesItsValue ==
  ASSUME Assumption, TypeOK, TasksSound, NEW q \in Correct, NEW s \in RegisterIndex,
         NEW i \in Index, StartsWrite(q, s, i)
  PROVE  /\ msg_tail[q][i].signature = msg_tail[q][i].value
         /\ msg_tail[q][i].value \in Payload /\ i \in Kept(q)
<1> DEFINE t == [index |-> i, origin |-> "broadcaster", ok |-> TRUE]
<1>1. t \in verifying[q] /\ i \in Kept(q)
  BY DEF StartsWrite
<1>2. t.index = i /\ t.origin = "broadcaster" /\ t.ok
  OBVIOUS
<1>3. msg_tail[q][i].signature = msg_tail[q][i].value
  <2> HIDE DEF t
  <2> QED BY <1>1, <1>2 DEF TasksSound
<1>4. msg_tail[q][i] \in MessageData
  BY <1>1 DEF TypeOK, Correct
<1> QED BY <1>1, <1>3, <1>4 DEF MessageData

LEMMA NextRegistersSound ==
  ASSUME Assumption, TypeOK, TasksSound, RegistersSound, [Next]_vars
  PROVE  RegistersSound'
<1>0. faulty' = faulty /\ Correct' = Correct
  BY StepKept DEF Correct
<1>1. SUFFICES ASSUME NEW q \in Correct, NEW s \in RegisterIndex
               PROVE  RegisterSound(q, s)'
  BY <1>0 DEF RegistersSound
<1> DEFINE log == registers[q][s].log
           after == registers'[q][s].log
           done == registers[q][s].done
<1>2. /\ q \in Receiver /\ Len(log) \in Nat /\ done \in Nat
      /\ log \in Seq([inc : Nat, value : Value])
      /\ \A k \in 1..Len(log) : log[k] \in [inc : Nat, value : Value]
  BY RegisterType DEF Correct
<1>3. RegisterSound(q, s)
  BY DEF RegistersSound
<1>4. CASE /\ registers'[q][s] = registers[q][s]
           /\ outstanding_writes'[q][s] = outstanding_writes[q][s]
  BY <1>3, <1>4 DEF RegisterSound, Incarnation
<1>5. ASSUME NEW i \in Index, StartsWrite(q, s, i) PROVE RegisterSound(q, s)'
  <2> DEFINE e == [inc |-> Incarnation(i), value |-> msg_tail[q][i].signature]
  <2>1. /\ after = Append(log, e) /\ registers'[q][s].done = done
        /\ outstanding_writes[q][s] = Idle /\ outstanding_writes'[q][s] = i
        /\ Incarnation(i) > Last(log).inc /\ i % TailSize = s
    BY <1>5 DEF StartsWrite
  <2>2. e.inc = Incarnation(i) /\ e.value # Garbage
    BY <1>5, WritesItsValue DEF Assumption
  <2>3. /\ done = Len(log) /\ done >= 1 /\ Len(log) >= 1
        /\ \A a \in 1..Len(log), b \in 1..Len(log) : a < b => log[a].inc < log[b].inc
        /\ \A k \in 1..Len(log) : log[k].value # Garbage
    BY <1>3, <2>1 DEF RegisterSound
  <2>4. \A a \in 1..Len(log) : log[a].inc \in Nat
    BY <1>2
  <2>5. i \in Nat /\ Incarnation(i) \in Nat /\ i # Idle
    BY EchoFacts, SlotFacts DEF Idle
  <2> DEFINE n == Incarnation(i)
  <2> HIDE DEF e, log, after, done, n
  <2>6. /\ Len(after) = Len(log) + 1 /\ after[Len(log) + 1] = e
        /\ \A k \in 1..Len(log) : after[k] = log[k]
    BY <1>2, <2>1
  <2>7. \A a \in 1..Len(log) : log[a].inc < n
    <3>1. TAKE a \in 1..Len(log)
    <3>2. Len(log) \in 1..Len(log) /\ n > log[Len(log)].inc
      BY <1>2, <2>1, <2>3 DEF Last, n
    <3>3. a = Len(log) \/ a < Len(log)
      BY <1>2
    <3>4. log[a].inc <= log[Len(log)].inc
      BY <2>3, <2>4, <3>2, <3>3
    <3> QED BY <2>4, <2>5, <3>2, <3>4 DEF n
  <2>8. \A a \in 1..Len(after) : a \in 1..Len(log) \/ a = Len(log) + 1
    BY <1>2, <2>6
  <2>9. \A a \in 1..Len(after), b \in 1..Len(after) :
          a < b => after[a].inc < after[b].inc
    <3>1. TAKE a \in 1..Len(after), b \in 1..Len(after)
    <3>2. HAVE a < b
    <3>3. a \in 1..Len(log) /\ after[a] = log[a]
      BY <1>2, <2>6, <3>2
    <3>4. CASE b \in 1..Len(log)
      BY <2>3, <2>6, <3>2, <3>3, <3>4
    <3>5. CASE b = Len(log) + 1
      BY <2>2, <2>6, <2>7, <3>3, <3>5 DEF n
    <3> QED BY <2>8, <3>4, <3>5
  <2>10. \A k \in 1..Len(after) : after[k].value # Garbage
    <3>1. TAKE k \in 1..Len(after)
    <3>2. CASE k \in 1..Len(log)
      BY <2>3, <2>6, <3>2
    <3>3. CASE k = Len(log) + 1
      BY <2>2, <2>6, <3>3
    <3> QED BY <2>8, <3>2, <3>3
  <2>11. /\ registers'[q][s].done >= 1 /\ Len(after) >= 1
         /\ registers'[q][s].done = Len(after) - 1
         /\ after[Len(after)].inc = Incarnation(i)
    BY <1>2, <2>1, <2>2, <2>3, <2>6
  <2>12. /\ outstanding_writes'[q][s] = i /\ i # Idle /\ i % TailSize = s
    BY <2>1, <2>5
  <2> QED BY <2>9, <2>10, <2>11, <2>12 DEF RegisterSound, after, Incarnation
<1>6. CASE EndsWrite(q, s)
  <2>1. /\ after = log /\ registers'[q][s].done = Len(log)
        /\ outstanding_writes'[q][s] = Idle
    BY <1>6 DEF EndsWrite
  <2>2. /\ Len(log) >= 1
        /\ \A a \in 1..Len(log), b \in 1..Len(log) : a < b => log[a].inc < log[b].inc
        /\ \A k \in 1..Len(log) : log[k].value # Garbage
    BY <1>3 DEF RegisterSound
  <2> QED BY <2>1, <2>2 DEF RegisterSound
<1> QED BY <1>2, <1>4, <1>5, <1>6, StepRegisters

LEMMA NextWrittenEchoed ==
  ASSUME Assumption, TypeOK, KeptEchoed, TasksSound, WrittenEchoed, [Next]_vars
  PROVE  WrittenEchoed'
<1>0. faulty' = faulty /\ Correct' = Correct
  BY StepKept DEF Correct
<1>1. SUFFICES ASSUME NEW r \in Correct, NEW i \in Index, NEW v \in Value,
                      Wrote(r, i, v)'
               PROVE  /\ Past(r, i)' /\ Echoed(r, i, v)'
                      /\ i \in Kept(r)' => /\ msg_tail'[r][i].signature = v
                                           /\ msg_tail'[r][i].value = v
  BY <1>0 DEF WrittenEchoed
<1> DEFINE s == i % TailSize
<1>2. r \in Receiver /\ s \in RegisterIndex /\ Incarnation(i) \in Nat
  BY SlotFacts DEF Correct
<1>4. PICK k \in 1..Len(registers'[r][s].log) :
        registers'[r][s].log[k].inc = Incarnation(i) /\ registers'[r][s].log[k].value = v
  BY <1>1 DEF Wrote, Holds, Slot, Incarnation
<1>5. /\ Len(registers[r][s].log) \in Nat
      /\ registers[r][s].log \in Seq([inc : Nat, value : Value])
  <2> HIDE DEF s
  <2> QED BY <1>2, RegisterType

(* It suffices that all this holds of i and v before the step.              *)
<1>6. ASSUME Past(r, i), Echoed(r, i, v), v \in Payload \/ i \notin Kept(r),
             i \in Kept(r) => msg_tail[r][i].signature = v /\ msg_tail[r][i].value = v
      PROVE  /\ Past(r, i)' /\ Echoed(r, i, v)'
             /\ i \in Kept(r)' => /\ msg_tail'[r][i].signature = v
                                  /\ msg_tail'[r][i].value = v
  <2>0. Past(r, i)'
    BY <1>6, StepPast
  <2>3. \A o \in Others(r) : EchoedTo(r, o, i, v)'
    BY <1>2, <1>6, EchoesGrow DEF Echoed
  <2>1. Past(r, i)' /\ Echoed(r, i, v)'
    BY <2>0, <2>3 DEF Echoed
  <2>2. ASSUME i \in Kept(r)'
        PROVE  msg_tail'[r][i].signature = v /\ msg_tail'[r][i].value = v
    <3>1. /\ i \in Kept(r) /\ msg_tail'[r][i].value = msg_tail[r][i].value
          /\ msg_tail[r][i].signature # None =>
               msg_tail'[r][i].signature = msg_tail[r][i].signature
      BY <1>6, <2>2, StepPast
    <3>2. v # None
      BY <1>6, <3>1 DEF Assumption
    <3> QED BY <1>6, <3>1, <3>2
  <2> QED BY <2>1, <2>2
<1>7. ASSUME k \in 1..Len(registers[r][s].log),
             registers'[r][s].log[k] = registers[r][s].log[k]
      PROVE  /\ Past(r, i) /\ Echoed(r, i, v)
             /\ v \in Payload \/ i \notin Kept(r)
             /\ i \in Kept(r) => msg_tail[r][i].signature = v /\ msg_tail[r][i].value = v
  <2>1. Wrote(r, i, v)
    BY <1>4, <1>7 DEF Slot, Wrote, Holds
  <2>2. /\ Past(r, i) /\ Echoed(r, i, v)
        /\ i \in Kept(r) => msg_tail[r][i].signature = v /\ msg_tail[r][i].value = v
    BY <2>1 DEF WrittenEchoed
  <2>3. i \in Kept(r) => msg_tail[r][i] \in MessageData
    BY <1>2 DEF TypeOK
  <2>4. i \in Kept(r) => v \in Payload
    BY <2>2, <2>3 DEF MessageData
  <2> QED BY <2>2, <2>4
<1>8. CASE registers'[r][s].log = registers[r][s].log
  BY <1>4, <1>6, <1>7, <1>8
<1>9. ASSUME NEW j \in Index, StartsWrite(r, s, j)
      PROVE  /\ Past(r, i)' /\ Echoed(r, i, v)'
             /\ i \in Kept(r)' => /\ msg_tail'[r][i].signature = v
                                  /\ msg_tail'[r][i].value = v
  <2> DEFINE log == registers[r][s].log
             e == [inc |-> Incarnation(j), value |-> msg_tail[r][j].signature]
  <2>1. registers'[r][s].log = Append(log, e) /\ s = j % TailSize
    BY <1>9 DEF StartsWrite
  <2>2. e.inc = Incarnation(j) /\ e.value = msg_tail[r][j].signature
    OBVIOUS
  <2> HIDE DEF e
  <2>3. /\ Len(Append(log, e)) = Len(log) + 1 /\ Append(log, e)[Len(log) + 1] = e
        /\ \A z \in 1..Len(log) : Append(log, e)[z] = log[z]
    BY <1>5
  <2>4. k \in 1..Len(log) \/ k = Len(log) + 1
    <3>1. k \in 1..(Len(log) + 1)
      BY <1>4, <2>1, <2>3
    <3> QED BY SMTT(30), <1>5, <3>1
  <2>5. CASE k \in 1..Len(log)
    <3>1. registers'[r][s].log[k] = registers[r][s].log[k]
      BY <2>1, <2>3, <2>5
    <3> QED BY <1>6, <1>7, <2>5, <3>1
  <2>6. CASE k = Len(log) + 1
    <3>1. Incarnation(j) = Incarnation(i) /\ msg_tail[r][j].signature = v
      BY <1>4, <2>1, <2>2, <2>3, <2>6
    <3>2. i = j
      BY <2>1, <3>1, SlotUnique
    <3>3. /\ msg_tail[r][j].signature = msg_tail[r][j].value
          /\ msg_tail[r][j].value \in Payload /\ j \in Kept(r)
      <4> HIDE DEF s
      <4> QED BY <1>2, <1>9, WritesItsValue
    <3>4. Past(r, j)
      BY <3>3, StepPast
    <3>5. Echoed(r, j, msg_tail[r][j].value)
      BY <3>3 DEF KeptEchoed
    <3> QED BY <1>6, <3>1, <3>2, <3>3, <3>4, <3>5
  <2> QED BY <2>4, <2>5, <2>6
<1>10. CASE EndsWrite(r, s)
  BY <1>8, <1>10 DEF EndsWrite
<1>11. registers'[r][s] = registers[r][s] \/ (\E j \in Index : StartsWrite(r, s, j))
       \/ EndsWrite(r, s)
  <2> HIDE DEF s
  <2> QED BY <1>2, StepRegisters
<1> QED BY <1>8, <1>9, <1>10, <1>11

(* A new task concerns a message that is kept.                              *)
LEMMA StepTasks ==
  ASSUME Assumption, TypeOK, [Next]_vars, NEW q \in Correct, NEW t \in verifying'[q]
  PROVE  \/ t \in verifying[q]
         \/ /\ t.index \in Kept(q) /\ t.origin = "broadcaster"
            /\ msg_tail'[q][t.index].signature # None
            /\ t.ok <=> msg_tail'[q][t.index].signature = msg_tail'[q][t.index].value
         \/ t.index \in Kept(q) /\ t.origin = "register" /\ PollReads(q, t.index)
<1> DEFINE Goal ==
         \/ t \in verifying[q]
         \/ /\ t.index \in Kept(q) /\ t.origin = "broadcaster"
            /\ msg_tail'[q][t.index].signature # None
            /\ t.ok <=> msg_tail'[q][t.index].signature = msg_tail'[q][t.index].value
         \/ t.index \in Kept(q) /\ t.origin = "register" /\ PollReads(q, t.index)
<1>0. q \in Receiver /\ verifying \in [Receiver -> SUBSET Task]
  BY DEF Correct, TypeOK
<1>1. verifying'[q] = verifying[q] => Goal
  OBVIOUS
<1>2. ASSUME NEW r \in Receiver, PollSignature(r) PROVE Goal
  <2>1. PICK a \in Arriving(signatures[r], Broadcaster, Payload \cup {Garbage},
                       MaxSignatures) : handleSignature(r, a.msg)
    BY <1>2 DEF PollSignature
  <2> DEFINE m == a.msg
  <2>2. m \in Echo
    BY PolledType
  <2>3. CASE UNCHANGED verifying
    BY <1>1, <2>3
  <2>4. CASE /\ m.index \in Kept(r) /\ r = q
             /\ msg_tail' = [msg_tail EXCEPT ![r][m.index].signature = m.value]
             /\ verifying' = [verifying EXCEPT ![r] = @ \cup
                  {[index |-> m.index, origin |-> "broadcaster",
                    ok |-> m.value = msg_tail[r][m.index].value]}]
    <3> DEFINE i == m.index
               d == msg_tail[q][i]
               ok == m.value = d.value
               new == [index |-> i, origin |-> "broadcaster", ok |-> ok]
    <3>1. d \in MessageData /\ m.value # None
      BY <1>0, <2>2, <2>4 DEF TypeOK, Echo, Assumption
    <3>2. msg_tail'[q] = [msg_tail[q] EXCEPT ![i] = [d EXCEPT !.signature = m.value]]
      BY <1>0, <2>4 DEF TypeOK
    <3>3. msg_tail'[q][i] = [d EXCEPT !.signature = m.value]
      BY <2>4, <3>2 DEF Kept
    <3>4. msg_tail'[q][i].signature = m.value /\ msg_tail'[q][i].value = d.value
      BY <3>1, <3>3 DEF MessageData
    <3>5. verifying'[q] = verifying[q] \cup {new}
      BY <1>0, <2>4
    <3>6. ok <=> msg_tail'[q][i].signature = msg_tail'[q][i].value
      BY <3>4
    <3>7. new.index = i /\ new.origin = "broadcaster" /\ new.ok = ok
      OBVIOUS
    <3> HIDE DEF new, ok, d
    <3>8. CASE t = new
      BY <2>4, <3>1, <3>4, <3>6, <3>7, <3>8
    <3> QED BY <3>5, <3>8
  <2>5. CASE /\ r # q
             /\ verifying' = [verifying EXCEPT ![r] = @ \cup
                  {[index |-> m.index, origin |-> "broadcaster",
                    ok |-> m.value = msg_tail[r][m.index].value]}]
    BY <1>0, <1>1, <2>5
  <2> QED BY <2>1, <2>3, <2>4, <2>5 DEF handleSignature
<1>3. ASSUME NEW r \in Receiver, NEW i \in Index, PollReads(r, i) PROVE Goal
  <2>1a. PICK D \in SUBSET Others(r) : \E x : Pass(r, i, D, x)
    BY <1>3, PassFacts
  <2>1. PICK x : Pass(r, i, D, x)
    BY <2>1a
  <2>2. verifying' = [verifying EXCEPT ![r] = @ \cup Suspects(r, i, D, x)]
    BY <2>1 DEF Pass
  <2>3. ASSUME t \in Suspects(r, i, D, x)
        PROVE  t.index = i /\ t.origin = "register" /\ i \in Kept(r)
    <3>1. PICK p \in UnsafeOnes(r, i, D, x) :
            t = [index |-> i, origin |-> "register", ok |-> x[p].value # Garbage]
      BY <2>3 DEF Suspects
    <3>2. i \in Kept(r)
      BY DEF UnsafeOnes
    <3> QED BY <3>1, <3>2
  <2>4. CASE r = q
    BY <1>0, <1>3, <2>2, <2>3, <2>4
  <2>5. CASE r # q
    BY <1>0, <1>1, <2>2, <2>5
  <2> QED BY <2>4, <2>5
<1>4. ASSUME NEW r \in Receiver, PollVerification(r) PROVE Goal
  BY <1>0, <1>4 DEF PollVerification
<1>5. ASSUME NEW r \in Receiver,
             \/ PollMessage(r) \/ Poll(r) \/ \E p \in Others(r) : PollEcho(r, p)
             \/ \E s \in RegisterIndex : PollWrite(r, s)
      PROVE  UNCHANGED verifying
  BY <1>5 DEF PollMessage, Poll, PollEcho, PollWrite, slow
<1>6. ASSUME UNCHANGED vars \/ Broadcast \/ \E i \in Index : Sign(i)
      PROVE  UNCHANGED verifying
  BY <1>6 DEF vars, slow, Broadcast, Sign
<1> HIDE DEF Goal
<1>7. ASSUME NEW z \in Receiver,
             \/ PollMessage(z) \/ PollSignature(z) \/ PollVerification(z) \/ Poll(z)
             \/ \E p \in Others(z) : PollEcho(z, p)
             \/ \E y \in RegisterIndex : PollWrite(z, y)
             \/ \E i \in Index : PollReads(z, i)
      PROVE  Goal
  BY <1>1, <1>2, <1>3, <1>4, <1>5, <1>7
<1>8. Goal
  BY <1>1, <1>6, <1>7 DEF Next
<1> QED BY <1>8 DEF Goal

LEMMA NextTasksSound ==
  ASSUME Assumption, TypeOK, KeptEchoed, TasksSound, [Next]_vars
  PROVE  TasksSound'
<1>0. faulty' = faulty /\ Correct' = Correct
  BY StepKept DEF Correct
<1>1. SUFFICES ASSUME NEW q \in Correct, NEW t \in verifying'[q]
               PROVE  /\ Past(q, t.index)'
                      /\ t.origin = "broadcaster" /\ t.index \in Kept(q)' =>
                           /\ msg_tail'[q][t.index].signature # None
                           /\ t.ok <=> msg_tail'[q][t.index].signature
                                         = msg_tail'[q][t.index].value
  BY <1>0 DEF TasksSound
<1>2. q \in Receiver
  BY DEF Correct
<1>3. TypeOK /\ verifying[q] \subseteq Task
  BY <1>2 DEF TypeOK
<1>4. CASE t \in verifying[q]
  <2>1. t.index \in Index /\ Past(q, t.index)
    BY <1>3, <1>4 DEF Task, TasksSound
  <2>2. Past(q, t.index)'
    BY <2>1, StepPast
  <2>3. ASSUME t.origin = "broadcaster", t.index \in Kept(q)'
        PROVE  /\ msg_tail'[q][t.index].signature # None
               /\ t.ok <=> msg_tail'[q][t.index].signature
                             = msg_tail'[q][t.index].value
    <3>1. /\ t.index \in Kept(q)
          /\ msg_tail'[q][t.index].value = msg_tail[q][t.index].value
          /\ msg_tail[q][t.index].signature # None =>
               msg_tail'[q][t.index].signature = msg_tail[q][t.index].signature
      BY <2>1, <2>3, StepPast
    <3>2. /\ msg_tail[q][t.index].signature # None
          /\ t.ok <=> msg_tail[q][t.index].signature = msg_tail[q][t.index].value
      BY <1>4, <2>3, <3>1 DEF TasksSound
    <3> QED BY <3>1, <3>2
  <2> QED BY <2>2, <2>3
<1>5. CASE /\ t.index \in Kept(q) /\ t.origin = "broadcaster"
           /\ msg_tail'[q][t.index].signature # None
           /\ t.ok <=> msg_tail'[q][t.index].signature = msg_tail'[q][t.index].value
  <2>1. t.index \in Index /\ Past(q, t.index)
    BY <1>2, <1>3, <1>5, StepPast DEF TypeOK
  <2>2. Past(q, t.index)'
    BY <2>1, StepPast
  <2> QED BY <1>5, <2>2
<1>6. CASE t.index \in Kept(q) /\ t.origin = "register"
  <2>1. t.index \in Index /\ Past(q, t.index)
    BY <1>2, <1>3, <1>6, StepPast DEF TypeOK
  <2>2. Past(q, t.index)'
    BY <2>1, StepPast
  <2> QED BY <1>6, <2>2
<1> QED BY <1>4, <1>5, <1>6, StepTasks

-----------------------------------------------------------------------------
(* Writes that complete, and the reads that follow                          *)

(* The write under way is not complete.                                     *)
LEMMA PendingNotDone ==
  ASSUME Assumption, TypeOK, RegistersSound, NEW q \in Correct, NEW i \in Index,
         NEW s \in RegisterIndex, outstanding_writes[q][s] = i
  PROVE  s = i % TailSize /\ ~Done(q, i)
<1> DEFINE log == registers[q][s].log
<1>1. /\ q \in Receiver /\ Len(log) \in Nat
      /\ \A k \in 1..Len(log) : log[k] \in [inc : Nat, value : Value]
  BY RegisterType DEF Correct
<1>2. RegisterSound(q, s) /\ i # Idle
  BY EchoFacts DEF RegistersSound, Idle
<1>3. /\ s = i % TailSize /\ log[Len(log)].inc = Incarnation(i)
      /\ registers[q][s].done = Len(log) - 1 /\ Len(log) >= 1
      /\ \A a \in 1..Len(log), b \in 1..Len(log) : a < b => log[a].inc < log[b].inc
  BY <1>2 DEF RegisterSound
<1>4. ASSUME Done(q, i) PROVE FALSE
  <2>1. PICK k \in 1..registers[q][s].done :
          k \in 1..Len(log) /\ log[k].inc = Incarnation(i)
    BY <1>3, <1>4 DEF Done, Slot
  <2>2. k < Len(log) /\ Len(log) \in 1..Len(log)
    <3> HIDE DEF log
    <3>1. k \in 1..(Len(log) - 1)
      BY <1>3, <2>1
    <3> QED BY <1>1, <1>3, <3>1
  <2>3. log[k].inc < log[Len(log)].inc /\ log[k].inc \in Nat
    BY <1>1, <1>3, <2>1, <2>2
  <2> QED BY <1>3, <2>1, <2>3
<1> QED BY <1>3, <1>4

(* A message is done when its write completes, and only then.               *)
LEMMA DoneFresh ==
  ASSUME Assumption, TypeOK, RegistersSound, [Next]_vars, NEW q \in Correct,
         NEW i \in Index, Done(q, i)', ~Done(q, i)
  PROVE  EndsWrite(q, i % TailSize) /\ outstanding_writes[q][i % TailSize] = i
<1> DEFINE s == i % TailSize
           log == registers[q][s].log
           after == registers'[q][s].log
           done == registers[q][s].done
<1>1. s \in RegisterIndex /\ q \in Receiver /\ Incarnation(i) \in Nat
  BY SlotFacts DEF Correct
<1>2. PICK k \in 1..registers'[q][s].done :
        k \in 1..Len(after) /\ after[k].inc = Incarnation(i)
  BY DEF Done, Slot, Incarnation
<1>3. ~(k \in 1..done /\ k \in 1..Len(log) /\ log[k].inc = Incarnation(i))
  BY DEF Done, Slot
<1> HIDE DEF s
<1>4. /\ Len(log) \in Nat /\ done \in Nat /\ done <= Len(log)
      /\ \A z \in 1..Len(log) : z \in 1..Len(after) /\ after[z] = log[z]
  BY <1>1, RegisterType, RegistersGrow
<1>5. CASE registers'[q][s] = registers[q][s]
  BY <1>2, <1>3, <1>5
<1>6. ASSUME NEW j \in Index, StartsWrite(q, s, j) PROVE FALSE
  <2>1. registers'[q][s].done = done
    BY <1>6 DEF StartsWrite
  <2>2. k \in 1..done /\ k \in 1..Len(log)
    BY <1>2, <1>4, <2>1
  <2> QED BY <1>2, <1>3, <1>4, <2>2
<1>7. CASE EndsWrite(q, s)
  <2>1. /\ after = log /\ registers'[q][s].done = Len(log)
        /\ outstanding_writes[q][s] \in Index
    BY <1>7 DEF EndsWrite
  <2> DEFINE j == outstanding_writes[q][s]
  <2>2. j # Idle /\ RegisterSound(q, s)
    BY <1>1, <2>1, EchoFacts DEF RegistersSound, Idle
  <2>3. j % TailSize = s /\ log[Len(log)].inc = Incarnation(j) /\ done = Len(log) - 1
    BY <2>2 DEF RegisterSound
  <2>4. k = Len(log)
    <3>1. k \in 1..Len(log) /\ ~(k \in 1..done)
      BY <1>2, <1>3, <2>1
    <3> QED BY <1>4, <2>3, <3>1
  <2>5. Incarnation(j) = Incarnation(i)
    BY <1>2, <2>1, <2>3, <2>4
  <2>6. j = i
    BY <2>1, <2>3, <2>5, SlotUnique DEF s
  <2> QED BY <1>7, <2>6 DEF s
<1> QED BY <1>1, <1>5, <1>6, <1>7, StepRegisters DEF s

LEMMA WriteEnds ==
  ASSUME Assumption, TypeOK, NEW q \in Receiver, NEW s \in RegisterIndex, PollWrite(q, s)
  PROVE  EndsWrite(q, s)
<1>1. /\ registers' = [registers EXCEPT ![q][s].done = Len(registers[q][s].log)]
      /\ outstanding_writes' = [outstanding_writes EXCEPT ![q][s] = Idle]
      /\ outstanding_writes[q][s] # Idle
  BY DEF PollWrite
<1>2. registers[q][s] \in Register /\ outstanding_writes[q][s] \in Index
  BY <1>1, RegisterType
<1>3. registers'[q] = [registers[q] EXCEPT ![s].done = Len(registers[q][s].log)]
  BY <1>1 DEF TypeOK
<1>4. registers'[q][s] = [registers[q][s] EXCEPT !.done = Len(registers[q][s].log)]
  BY <1>3 DEF TypeOK
<1>5. registers'[q][s].log = registers[q][s].log
      /\ registers'[q][s].done = Len(registers[q][s].log)
  BY <1>2, <1>4 DEF Register
<1>6. outstanding_writes'[q] = [outstanding_writes[q] EXCEPT ![s] = Idle]
  BY <1>1 DEF TypeOK
<1>7. outstanding_writes'[q][s] = Idle
  BY <1>6 DEF TypeOK
<1> QED BY <1>2, <1>5, <1>7 DEF EndsWrite

LEMMA EndsDone ==
  ASSUME Assumption, TypeOK, RegistersSound, [Next]_vars, NEW q \in Correct, NEW i \in Index,
         EndsWrite(q, i % TailSize), outstanding_writes[q][i % TailSize] = i
  PROVE  Done(q, i)'
<1> DEFINE s == i % TailSize
           log == registers[q][s].log
<1>1. s \in RegisterIndex /\ q \in Receiver
  BY SlotFacts DEF Correct
<1>2. Len(log) \in Nat
  <2> HIDE DEF s
  <2> QED BY <1>1, RegisterType
<1>3. RegisterSound(q, s) /\ i # Idle
  BY <1>1, EchoFacts DEF RegistersSound, Idle
<1>4. log[Len(log)].inc = Incarnation(i) /\ Len(log) >= 1
  BY <1>3 DEF RegisterSound
<1>5. registers'[q][s].log = log /\ registers'[q][s].done = Len(log)
  BY DEF EndsWrite
<1>6. Len(log) \in 1..Len(log)
  BY <1>2, <1>4
<1> QED BY <1>4, <1>5, <1>6 DEF Done, Slot, Incarnation

\* A pass over q's reads for message i: those from D come back.
Reads(q, i, D, x) ==
  /\ PollReads(q, i) /\ Pass(q, i, D, x) /\ D \subseteq Others(q)
  /\ i \in DOMAIN outstanding_reads[q]
  /\ i \in DOMAIN outstanding_reads'[q] <=> D # Others(q)
  /\ i \in DOMAIN outstanding_reads'[q] =>
       outstanding_reads'[q][i] =
         [p \in Others(q) |-> IF p \in D THEN 0 ELSE outstanding_reads[q][i][p]]

\* q's write of message i completes, and it starts to read the others.
StartsReads(q, i, s) ==
  /\ PollWrite(q, s) /\ outstanding_writes[q][s] = i /\ i \in Kept(q)
  /\ i \in DOMAIN outstanding_reads'[q]
  /\ outstanding_reads'[q][i] = [p \in Others(q) |-> registers[p][s].done]

LEMMA ReadsFacts ==
  ASSUME Assumption, TypeOK, NEW q \in Correct, NEW i \in Index, PollReads(q, i)
  PROVE  \E D, x : Reads(q, i, D, x)
<1>0. q \in Receiver /\ DOMAIN outstanding_reads = Receiver
  BY DEF Correct, TypeOK
<1>1a. PICK D \in SUBSET Others(q) : \E x : Pass(q, i, D, x)
  BY <1>0, PassFacts
<1>1. PICK x : Pass(q, i, D, x)
  BY <1>1a
<1>2. i \in DOMAIN outstanding_reads[q]
  BY DEF PollReads
<1> DEFINE left == [p \in Others(q) |->
                      IF p \in D THEN 0 ELSE outstanding_reads[q][i][p]]
           reads == IF D = Others(q) THEN Drop(outstanding_reads[q], i)
                    ELSE [outstanding_reads[q] EXCEPT ![i] = left]
<1>3. outstanding_reads'[q] = reads
  BY <1>0, <1>1 DEF Pass
<1> HIDE DEF left
<1>4. /\ i \in DOMAIN reads <=> D # Others(q)
      /\ i \in DOMAIN reads => reads[i] = left
  BY <1>2 DEF Drop
<1> HIDE DEF reads
<1>5. Reads(q, i, D, x)
  BY <1>1, <1>2, <1>3, <1>4 DEF Reads, left
<1> QED BY <1>5

LEMMA StepReads ==
  ASSUME Assumption, TypeOK, [Next]_vars, NEW q \in Correct, NEW i \in Index
  PROVE  \/ /\ i \in DOMAIN outstanding_reads'[q] <=> i \in DOMAIN outstanding_reads[q]
            /\ i \in DOMAIN outstanding_reads[q] =>
                 outstanding_reads'[q][i] = outstanding_reads[q][i]
         \/ \E D, x : Reads(q, i, D, x)
         \/ \E s \in RegisterIndex : StartsReads(q, i, s)
<1> DEFINE Same1 ==
            /\ i \in DOMAIN outstanding_reads'[q] <=> i \in DOMAIN outstanding_reads[q]
            /\ i \in DOMAIN outstanding_reads[q] =>
                 outstanding_reads'[q][i] = outstanding_reads[q][i]
           Goal == Same1 \/ (\E D, x : Reads(q, i, D, x))
                   \/ (\E s \in RegisterIndex : StartsReads(q, i, s))
<1>0. q \in Receiver /\ DOMAIN outstanding_reads = Receiver
  BY DEF Correct, TypeOK
<1>1. outstanding_reads'[q] = outstanding_reads[q] => Goal
  OBVIOUS
<1>2. ASSUME NEW r \in Receiver, NEW s \in RegisterIndex, PollWrite(r, s) PROVE Goal
  <2> DEFINE j == outstanding_writes[r][s]
             floors == [p \in Others(r) |-> registers[p][s].done]
  <2>1. outstanding_reads' = IF j \notin Kept(r) THEN outstanding_reads
           ELSE [outstanding_reads EXCEPT ![r] = Put(@, j, floors)]
    BY <1>2 DEF PollWrite
  <2>2. CASE j \notin Kept(r) \/ r # q
    BY <1>0, <1>1, <2>1, <2>2
  <2>3. CASE j \in Kept(r) /\ r = q
    <3> HIDE DEF floors
    <3>1. outstanding_reads'[q] = Put(outstanding_reads[q], j, floors)
      BY <1>0, <2>1, <2>3
    <3>2. /\ DOMAIN Put(outstanding_reads[q], j, floors)
               = DOMAIN outstanding_reads[q] \cup {j}
          /\ Put(outstanding_reads[q], j, floors)[j] = floors
          /\ \A k \in DOMAIN outstanding_reads[q] : k # j =>
               Put(outstanding_reads[q], j, floors)[k] = outstanding_reads[q][k]
      BY DEF Put
    <3>3. CASE j = i
      <4>1. StartsReads(q, i, s)
        BY <1>2, <2>3, <3>1, <3>2, <3>3 DEF StartsReads, floors
      <4> QED BY <4>1
    <3>4. CASE j # i
      <4>1. Same1
        BY <3>1, <3>2, <3>4
      <4> QED BY <4>1
    <3> QED BY <3>3, <3>4
  <2> QED BY <2>2, <2>3
<1>3. ASSUME NEW r \in Receiver, NEW j \in Index, PollReads(r, j) PROVE Goal
  <2>1a. PICK D \in SUBSET Others(r) : \E x : Pass(r, j, D, x)
    BY <1>3, PassFacts
  <2>1. PICK x : Pass(r, j, D, x)
    BY <2>1a
  <2>2. j \in DOMAIN outstanding_reads[r]
    BY <1>3 DEF PollReads
  <2> DEFINE left == [p \in Others(r) |->
                        IF p \in D THEN 0 ELSE outstanding_reads[r][j][p]]
             reads == IF D = Others(r) THEN Drop(outstanding_reads[r], j)
                      ELSE [outstanding_reads[r] EXCEPT ![j] = left]
  <2>3. outstanding_reads' = [outstanding_reads EXCEPT ![r] = reads]
    BY <1>0, <2>1 DEF Pass
  <2>4. CASE r # q
    BY <1>0, <1>1, <2>3, <2>4
  <2>5. CASE r = q
    <3>1. outstanding_reads'[q] = reads
      BY <1>0, <2>3, <2>5
    <3> HIDE DEF left
    <3>2. /\ DOMAIN reads \subseteq DOMAIN outstanding_reads[q]
          /\ \A k \in DOMAIN outstanding_reads[q] : k # j =>
               k \in DOMAIN reads /\ reads[k] = outstanding_reads[q][k]
      BY <2>2, <2>5 DEF Drop
    <3> HIDE DEF reads
    <3>3. CASE j = i
      BY <1>3, <2>5, <3>3, ReadsFacts
    <3>4. CASE j # i
      <4>1. Same1
        BY <3>1, <3>2, <3>4
      <4> QED BY <4>1
    <3> QED BY <3>3, <3>4
  <2> QED BY <2>4, <2>5
<1>4. ASSUME NEW r \in Receiver,
             \/ PollMessage(r) \/ PollSignature(r) \/ PollVerification(r) \/ Poll(r)
             \/ \E p \in Others(r) : PollEcho(r, p)
      PROVE  UNCHANGED outstanding_reads
  BY <1>4 DEF PollMessage, PollSignature, PollVerification, Poll, PollEcho, slow
<1>5. ASSUME UNCHANGED vars \/ Broadcast \/ \E j \in Index : Sign(j)
      PROVE  UNCHANGED outstanding_reads
  BY <1>5 DEF vars, slow, Broadcast, Sign
<1> HIDE DEF Goal
<1>6. ASSUME NEW z \in Receiver,
             \/ PollMessage(z) \/ PollSignature(z) \/ PollVerification(z) \/ Poll(z)
             \/ \E p \in Others(z) : PollEcho(z, p)
             \/ \E y \in RegisterIndex : PollWrite(z, y)
             \/ \E j \in Index : PollReads(z, j)
      PROVE  Goal
  BY <1>1, <1>2, <1>3, <1>4, <1>6
<1>7. Goal
  BY <1>1, <1>5, <1>6 DEF Next
<1> QED BY <1>7 DEF Goal

LEMMA NextReadsDone ==
  ASSUME Assumption, TypeOK, TypeOK', RegistersSound, ReadsDone, [Next]_vars
  PROVE  ReadsDone'
<1>0. faulty' = faulty /\ Correct' = Correct
  BY StepKept DEF Correct
<1>1. SUFFICES ASSUME NEW q \in Correct, NEW i \in DOMAIN outstanding_reads'[q]
               PROVE  Done(q, i)'
  BY <1>0 DEF ReadsDone
<1>2. i \in Index /\ q \in Receiver
  BY DEF TypeOK, Correct
<1>3. CASE i \in DOMAIN outstanding_reads[q]
  <2>1. Done(q, i)
    BY <1>3 DEF ReadsDone
  <2> QED BY <1>2, <2>1, DoneGrows
<1>4. ASSUME NEW s \in RegisterIndex, StartsReads(q, i, s) PROVE Done(q, i)'
  <2>1. PollWrite(q, s) /\ outstanding_writes[q][s] = i
    BY <1>4 DEF StartsReads
  <2>2. s = i % TailSize
    BY <1>2, <2>1, PendingNotDone
  <2>8. EndsWrite(q, s)
    BY <1>2, <2>1, WriteEnds
  <2> QED BY <1>2, <2>1, <2>2, <2>8, EndsDone
<1> QED BY <1>2, <1>3, <1>4, StepReads DEF Reads

-----------------------------------------------------------------------------
(* Counting                                                                 *)

(* Those read come off the count, one by one, as they are found safe or     *)
(* handed to the pool.                                                      *)
LEMMA CountOff ==
  ASSUME NEW W, IsFiniteSet(W), NEW D \in SUBSET W, NEW S \in SUBSET D,
         NEW before \in {0, 1}, NEW after \in {0, 1},
         after > before => D # S
  PROVE  Cardinality(S) + after + Cardinality(W \ D) <= before + Cardinality(W)
<1>1. IsFiniteSet(D) /\ IsFiniteSet(S) /\ IsFiniteSet(W \ D)
  <2>1. IsFiniteSet(D)
    BY FS_Subset
  <2>2. IsFiniteSet(S)
    BY <2>1, FS_Subset
  <2>3. IsFiniteSet(W \ D)
    BY FS_Subset
  <2> QED BY <2>1, <2>2, <2>3
<1>2. /\ Cardinality(W) \in Nat /\ Cardinality(D) \in Nat /\ Cardinality(S) \in Nat
      /\ Cardinality(W \ D) \in Nat
  BY <1>1, FS_CardinalityType
<1>3. Cardinality(W \ D) = Cardinality(W) - Cardinality(D)
  <2>1. Cardinality(W \ D) = Cardinality(W) - Cardinality(W \cap D)
    BY <1>1, FS_Difference
  <2>2. W \cap D = D
    OBVIOUS
  <2> QED BY <2>1, <2>2
<1>4. Cardinality(S) <= Cardinality(D) /\ (S # D => Cardinality(S) < Cardinality(D))
  <2>1. Cardinality(S) <= Cardinality(D) /\ (Cardinality(S) = Cardinality(D) => S = D)
    BY <1>1, FS_Subset
  <2> QED BY <1>2, <2>1
<1> QED BY <1>2, <1>3, <1>4

LEMMA WaitingSome ==
  ASSUME Assumption, NEW q \in Receiver, NEW i, NEW X
  PROVE  /\ Waiting(q, i) \subseteq Others(q) /\ IsFiniteSet(Others(q))
         /\ IsFiniteSet(Waiting(q, i)) /\ IsFiniteSet(Waiting(q, i) \ X)
         /\ Cardinality(Waiting(q, i) \ X) \in Nat
         /\ Cardinality(Others(q)) \in Nat
<1>1. Waiting(q, i) \subseteq Others(q)
  BY DEF Waiting
<1>2. IsFiniteSet(Others(q))
  <2>1. Others(q) \subseteq Receiver
    BY DEF Others
  <2> QED BY <2>1, FS_Subset DEF Assumption
<1>3. IsFiniteSet(Waiting(q, i))
  BY <1>1, <1>2, FS_Subset
<1>4. IsFiniteSet(Waiting(q, i) \ X)
  BY <1>3, FS_Difference
<1> QED BY <1>1, <1>2, <1>3, <1>4, FS_CardinalityType

LEMMA StepWaiting ==
  ASSUME Assumption, TypeOK, RegistersSound, ReadsDone, [Next]_vars,
         NEW q \in Correct, NEW i \in Index
  PROVE  \/ /\ Waiting(q, i)' = Waiting(q, i) /\ ~PollReads(q, i)
            /\ i \in DOMAIN outstanding_reads[q] =>
                 /\ i \in DOMAIN outstanding_reads'[q]
                 /\ outstanding_reads'[q][i] = outstanding_reads[q][i]
         \/ /\ EndsWrite(q, i % TailSize) /\ outstanding_writes[q][i % TailSize] = i
            /\ ~Done(q, i) /\ Done(q, i)'
         \/ \E D, x : /\ Reads(q, i, D, x) /\ Waiting(q, i)' = Waiting(q, i) \ D
                      /\ D \subseteq Waiting(q, i)
                      /\ i \in DOMAIN outstanding_reads'[q] =>
                           \A p \in Others(q) \ D : outstanding_reads'[q][i][p]
                                                  = outstanding_reads[q][i][p]
<1>0. q \in Receiver
  BY DEF Correct
<1>1. CASE Done(q, i)' /\ ~Done(q, i)
  BY <1>1, DoneFresh
<1>2. CASE \E s \in RegisterIndex : StartsReads(q, i, s)
  <2>1. PICK s \in RegisterIndex : PollWrite(q, s) /\ outstanding_writes[q][s] = i
    BY <1>2 DEF StartsReads
  <2>2. s = i % TailSize /\ ~Done(q, i) /\ EndsWrite(q, s)
    BY <1>0, <2>1, PendingNotDone, WriteEnds
  <2>3. Done(q, i)'
    BY <2>1, <2>2, EndsDone
  <2> QED BY <2>1, <2>2, <2>3
<1>3. CASE /\ Done(q, i)' <=> Done(q, i)
           /\ ~PollReads(q, i)
           /\ i \in DOMAIN outstanding_reads'[q] <=> i \in DOMAIN outstanding_reads[q]
           /\ i \in DOMAIN outstanding_reads[q] =>
                outstanding_reads'[q][i] = outstanding_reads[q][i]
  <2>1. Waiting(q, i)' = Waiting(q, i)
    BY <1>3 DEF Waiting
  <2> QED BY <1>3, <2>1
<1>4. CASE (Done(q, i)' <=> Done(q, i)) /\ \E D, x : Reads(q, i, D, x)
  <2>1. PICK D, x : Reads(q, i, D, x)
    BY <1>4
  <2>2. /\ i \in DOMAIN outstanding_reads[q] /\ D \subseteq Others(q)
        /\ D \subseteq {p \in Others(q) : outstanding_reads[q][i][p] # 0}
        /\ i \in DOMAIN outstanding_reads'[q] <=> D # Others(q)
        /\ i \in DOMAIN outstanding_reads'[q] =>
             outstanding_reads'[q][i] =
               [p \in Others(q) |-> IF p \in D THEN 0 ELSE outstanding_reads[q][i][p]]
    BY <2>1 DEF Reads, Pass
  <2>3. Done(q, i) /\ Done(q, i)'
    BY <1>4, <2>2 DEF ReadsDone
  <2>4. Waiting(q, i) = {p \in Others(q) : outstanding_reads[q][i][p] # 0}
    BY <2>2, <2>3 DEF Waiting
  <2>5. CASE i \in DOMAIN outstanding_reads'[q]
    <3>1. Waiting(q, i)' = {p \in Others(q) : outstanding_reads'[q][i][p] # 0}
      BY <2>3, <2>5 DEF Waiting
    <3>2. \A p \in Others(q) : outstanding_reads'[q][i][p] =
            IF p \in D THEN 0 ELSE outstanding_reads[q][i][p]
      BY <2>2, <2>5
    <3>3. Waiting(q, i)' = Waiting(q, i) \ D
      BY <2>4, <3>1, <3>2
    <3> QED BY <2>1, <2>2, <2>4, <3>2, <3>3
  <2>6. CASE i \notin DOMAIN outstanding_reads'[q]
    <3>1. Waiting(q, i)' = {} /\ D = Others(q)
      BY <2>2, <2>3, <2>6 DEF Waiting
    <3>2. Waiting(q, i) \ D = {}
      BY <2>4, <3>1
    <3> QED BY <2>1, <2>2, <2>4, <2>6, <3>1, <3>2
  <2> QED BY <2>5, <2>6
<1>5. Done(q, i) => Done(q, i)'
  BY DoneGrows
<1>6. PollReads(q, i) => \E D, x : Reads(q, i, D, x)
  BY ReadsFacts
<1> QED BY <1>1, <1>2, <1>3, <1>4, <1>5, <1>6, StepReads

(* One more is checked when a bad signature leaves the pool.                *)
LEMMA StepChecked ==
  ASSUME Assumption, TypeOK, KeptEchoed, [Next]_vars, NEW q \in Correct,
         NEW i \in Kept(q), i \in Kept(q)', ~PollReads(q, i)
  PROVE  \/ /\ msg_tail'[q][i].checked = msg_tail[q][i].checked
            /\ InPool(q, i)' <= InPool(q, i)
         \/ /\ msg_tail'[q][i].checked = msg_tail[q][i].checked + 1
            /\ InPool(q, i) = 1 /\ InPool(q, i)' = 0
<1> DEFINE same == msg_tail'[q][i].checked = msg_tail[q][i].checked
           Goal == \/ same
                   \/ /\ msg_tail'[q][i].checked = msg_tail[q][i].checked + 1
                      /\ BadSignature(i) \in verifying[q]
                      /\ BadSignature(i) \notin verifying'[q]
<1>0. q \in Receiver /\ i \in Index
  BY DEF Correct, TypeOK
<1>1. BadSignature(i) \in verifying'[q] => BadSignature(i) \in verifying[q]
  <2>1. BadSignature(i).index = i /\ BadSignature(i).origin = "register"
    BY DEF BadSignature
  <2> QED BY <2>1, StepTasks
<1>2. ASSUME NEW r \in Receiver, PollVerification(r) PROVE Goal
  <2>1. PICK t \in verifying[r] :
          /\ verifying' = [verifying EXCEPT ![r] = @ \ {t}]
          /\ \/ UNCHANGED msg_tail
             \/ /\ t.index \in Kept(r) /\ t.origin = "register" /\ ~t.ok
                /\ msg_tail' = [msg_tail EXCEPT ![r][t.index].checked = @ + 1]
    BY <1>2 DEF PollVerification
  <2>2. CASE UNCHANGED msg_tail
    BY <2>2
  <2>3. CASE /\ t.index \in Kept(r) /\ t.origin = "register" /\ ~t.ok
             /\ msg_tail' = [msg_tail EXCEPT ![r][t.index].checked = @ + 1]
    <3>1. CASE r # q
      BY <1>0, <2>3, <3>1 DEF TypeOK
    <3>2. CASE r = q
      <4> DEFINE j == t.index
      <4>1. msg_tail'[q] = [msg_tail[q] EXCEPT ![j].checked = @ + 1]
        BY <1>0, <2>3, <3>2 DEF TypeOK
      <4>2. CASE j # i
        BY <4>1, <4>2 DEF Kept
      <4>3. CASE j = i
        <5>1. msg_tail'[q][i] = [msg_tail[q][i] EXCEPT !.checked = @ + 1]
          BY <4>1, <4>3 DEF Kept
        <5>2. msg_tail[q][i] \in MessageData
          BY <1>0 DEF TypeOK
        <5>3. msg_tail'[q][i].checked = msg_tail[q][i].checked + 1
          BY <5>1, <5>2 DEF MessageData
        <5>4. t \in Task /\ verifying[q] \subseteq Task
          BY <1>0, <3>2 DEF TypeOK
        <5>5. t = [index |-> t.index, origin |-> t.origin, ok |-> t.ok] /\ t.ok \in BOOLEAN
          BY <5>4 DEF Task
        <5>6. t.ok = FALSE
          BY <2>3, <5>5
        <5>7. t = BadSignature(i)
          BY <2>3, <4>3, <5>5, <5>6 DEF BadSignature
        <5>8. verifying'[q] = verifying[q] \ {t}
          BY <1>0, <2>1, <3>2 DEF TypeOK
        <5> QED BY <3>2, <5>3, <5>7, <5>8
      <4> QED BY <4>2, <4>3
    <3> QED BY <3>1, <3>2
  <2> QED BY <2>1, <2>2, <2>3
<1>3. ASSUME NEW r \in Receiver, NEW j \in Index, PollReads(r, j) PROVE Goal
  <2>1a. PICK D \in SUBSET Others(r) : \E x : Pass(r, j, D, x)
    BY <1>3, PassFacts
  <2>1. PICK x : Pass(r, j, D, x)
    BY <2>1a
  <2>2. ~(r = q /\ j = i)
    BY <1>3
  <2>3. CASE UNCHANGED msg_tail
    BY <2>3
  <2>4. CASE /\ j \in Kept(r)
             /\ msg_tail' = [msg_tail EXCEPT ![r][j].checked =
                  @ + Cardinality(SafeOnes(r, j, D, x))]
    <3>1. CASE r # q
      BY <1>0, <2>4, <3>1 DEF TypeOK
    <3>2. CASE r = q
      <4>1. msg_tail'[q] = [msg_tail[q] EXCEPT ![j].checked =
                  @ + Cardinality(SafeOnes(r, j, D, x))]
        BY <1>0, <2>4, <3>2 DEF TypeOK
      <4> QED BY <2>2, <3>2, <4>1 DEF Kept
    <3> QED BY <3>1, <3>2
  <2> QED BY <2>1, <2>3, <2>4 DEF Pass
<1>4. ASSUME NEW r \in Receiver, PollMessage(r) PROVE Goal
  <2>1. PICK a \in Arriving(messages[r], Broadcaster, Payload, MaxMessages) :
           \/ UNCHANGED msg_tail
           \/ /\ ~Repeated(r, a.msg.index) /\ ~OutOfOrder(r, a.msg.index)
              /\ Accept(r, a.msg)
    BY <1>4 DEF PollMessage
  <2>2. CASE UNCHANGED msg_tail
    BY <2>2
  <2>3. CASE /\ ~Repeated(r, a.msg.index) /\ ~OutOfOrder(r, a.msg.index)
             /\ Accept(r, a.msg)
    <3>1. a.msg \in Sent /\ UNCHANGED latest_polled
      BY <1>4, PolledType DEF PollMessage
    <3>2. Accepted(r, a.msg)
      BY <2>3, <3>1, AcceptFacts
    <3>3. msg_tail'[q][i] = msg_tail[q][i]
      BY <1>0, <3>2 DEF Accepted, Others
    <3> QED BY <3>3
  <2> QED BY <2>1, <2>2, <2>3
<1>5. ASSUME NEW r \in Receiver, Poll(r) PROVE Goal
  <2>1. PICK k \in Index : Polled(r, k)
    BY <1>5, PollFacts
  <2>2. msg_tail'[q][i] = msg_tail[q][i]
    BY <1>0, <2>1 DEF Polled, Others
  <2> QED BY <2>2
<1>6. ASSUME NEW r \in Receiver,
             PollSignature(r) \/ \E p \in Others(r) : PollEcho(r, p)
      PROVE  Goal
  <2>1. SameChecked(q)
    BY <1>0, <1>6, KeptPollSignature, KeptPollEcho
  <2> QED BY <2>1 DEF SameChecked
<1>7. ASSUME \/ UNCHANGED vars \/ Broadcast \/ \E j \in Index : Sign(j)
             \/ \E r \in Receiver : \E s \in RegisterIndex : PollWrite(r, s)
      PROVE  Goal
  <2>1. UNCHANGED msg_tail
    BY <1>7 DEF vars, Broadcast, Sign, PollWrite
  <2> QED BY <2>1
<1> HIDE DEF Goal
<1>8. ASSUME NEW z \in Receiver,
             \/ PollMessage(z) \/ PollSignature(z) \/ PollVerification(z) \/ Poll(z)
             \/ \E p \in Others(z) : PollEcho(z, p)
             \/ \E y \in RegisterIndex : PollWrite(z, y)
             \/ \E j \in Index : PollReads(z, j)
      PROVE  Goal
  BY <1>2, <1>3, <1>4, <1>5, <1>6, <1>7, <1>8
<1>9. Goal
  BY <1>7, <1>8 DEF Next
<1>10. /\ InPool(q, i) = IF BadSignature(i) \in verifying[q] THEN 1 ELSE 0
       /\ InPool(q, i)' = IF BadSignature(i) \in verifying'[q] THEN 1 ELSE 0
  BY DEF InPool, BadSignature
<1> QED BY <1>1, <1>9, <1>10 DEF Goal

LEMMA TallyType ==
  ASSUME Assumption, TypeOK, NEW q \in Receiver, NEW i \in Kept(q), NEW X
  PROVE  /\ msg_tail[q][i].checked \in Nat /\ InPool(q, i) \in {0, 1}
         /\ Cardinality(Waiting(q, i) \ X) \in Nat
         /\ Tally(q, i, X) \in Nat
<1>1. msg_tail[q][i].checked \in Nat
  BY DEF TypeOK, MessageData
<1>2. InPool(q, i) \in {0, 1}
  BY DEF InPool
<1>3. Cardinality(Waiting(q, i) \ X) \in Nat
  BY WaitingSome
<1> QED BY <1>1, <1>2, <1>3 DEF Tally

(* A pass over the reads does not raise the tally of the receivers outside  *)
(* X, if those in X that it read are found neither safe nor bad.            *)
LEMMA TallyReads ==
  ASSUME Assumption, TypeOK, NEW q \in Correct, NEW i \in Kept(q), NEW D, NEW x,
         Reads(q, i, D, x), D \subseteq Waiting(q, i),
         Waiting(q, i)' = Waiting(q, i) \ D, NEW X,
         \A p \in X : p \in D => /\ p \notin SafeOnes(q, i, D, x)
                                 /\ x[p].value # Garbage
  PROVE  Tally(q, i, X)' <= Tally(q, i, X)
<1> DEFINE S == SafeOnes(q, i, D, x)
           n == Cardinality(S)
<1>0. q \in Receiver /\ i \in Index /\ D \in SUBSET Others(q) /\ Pass(q, i, D, x)
  BY DEF Correct, TypeOK, Reads
<1>1. n \in Nat /\ IsFiniteSet(S)
  BY <1>0, SafeFinite
<1>2. msg_tail[q][i] \in MessageData /\ msg_tail[q][i].checked \in Nat
  BY <1>0 DEF TypeOK, MessageData
<1>3. msg_tail'[q][i].checked = msg_tail[q][i].checked + n
  <2>1. CASE S = {} /\ UNCHANGED msg_tail
    <3>1. n = 0
      BY <2>1, FS_EmptySet
    <3> QED BY <1>2, <2>1, <3>1
  <2>2. CASE msg_tail' = [msg_tail EXCEPT ![q][i].checked = @ + n]
    <3> HIDE DEF n
    <3>1. msg_tail'[q] = [msg_tail[q] EXCEPT ![i].checked = @ + n]
      BY <1>0, <2>2 DEF TypeOK
    <3>2. msg_tail'[q][i] = [msg_tail[q][i] EXCEPT !.checked = @ + n]
      BY <3>1 DEF Kept
    <3> QED BY <1>2, <3>2 DEF MessageData
  <2> QED BY <1>0, <2>1, <2>2 DEF Pass
<1>4. verifying'[q] = verifying[q] \cup Suspects(q, i, D, x)
  BY <1>0 DEF Pass, TypeOK
<1>5. S \subseteq D \ X
  BY DEF SafeOnes
<1>6. ASSUME BadSignature(i) \in verifying'[q], BadSignature(i) \notin verifying[q]
      PROVE  D \ X # S
  <2>1. BadSignature(i) \in Suspects(q, i, D, x)
    BY <1>4, <1>6
  <2>2. PICK p \in UnsafeOnes(q, i, D, x) :
          BadSignature(i) = [index |-> i, origin |-> "register",
                             ok |-> x[p].value # Garbage]
    BY <2>1 DEF Suspects
  <2>3. BadSignature(i).ok = FALSE
    BY DEF BadSignature
  <2> DEFINE ok == x[p].value # Garbage
  <2>4. ok = FALSE
    <3>1. BadSignature(i).ok = ok
      BY <2>2
    <3> HIDE DEF ok
    <3> QED BY <2>3, <3>1
  <2>5. x[p].value = Garbage
    BY <2>4
  <2>6. p \in D /\ p \notin S
    BY DEF UnsafeOnes
  <2> QED BY <2>5, <2>6
<1> DEFINE before == InPool(q, i)
           after == IF BadSignature(i) \in verifying'[q] THEN 1 ELSE 0
           W == Waiting(q, i) \ X
<1>7. before \in {0, 1} /\ after \in {0, 1} /\ (after > before => D \ X # S)
  BY <1>6 DEF InPool
<1>8. IsFiniteSet(W) /\ D \ X \in SUBSET W /\ S \in SUBSET (D \ X)
      /\ Cardinality(W) \in Nat /\ Cardinality(W \ (D \ X)) \in Nat
  <2>1. IsFiniteSet(W) /\ Cardinality(W) \in Nat
    BY <1>0, WaitingSome
  <2>2. IsFiniteSet(W \ (D \ X))
    BY <2>1, FS_Difference
  <2> QED BY <1>5, <2>1, <2>2, FS_CardinalityType
<1>9. W \ (D \ X) = Waiting(q, i)' \ X
  OBVIOUS
<1>10. after = InPool(q, i)'
  BY DEF InPool, BadSignature
<1> HIDE DEF S, before, after, W
<1>11. Cardinality(S) + after + Cardinality(W \ (D \ X)) <= before + Cardinality(W)
  BY <1>7, <1>8, CountOff
<1>12. Tally(q, i, X) = msg_tail[q][i].checked + before + Cardinality(W)
  BY DEF Tally, before, W
<1>13. Tally(q, i, X)' = msg_tail[q][i].checked + Cardinality(S) + after
                           + Cardinality(W \ (D \ X))
  <2>1. Tally(q, i, X)' = msg_tail'[q][i].checked + InPool(q, i)'
                            + Cardinality(Waiting(q, i)' \ X)
    BY DEF Tally
  <2> QED BY <1>3, <1>9, <1>10, <2>1
<1>14. Cardinality(S) \in Nat
  BY <1>1
<1> QED BY <1>2, <1>7, <1>8, <1>11, <1>12, <1>13, <1>14

(* No other step raises a tally, but the end of the write itself.           *)
LEMMA StepTally ==
  ASSUME Assumption, TypeOK, TypeOK', KeptEchoed, RegistersSound, ReadsDone, [Next]_vars,
         NEW q \in Correct, NEW i \in Kept(q), i \in Kept(q)', NEW X
  PROVE  \/ /\ Tally(q, i, X)' <= Tally(q, i, X)
            /\ Waiting(q, i)' = Waiting(q, i)
            /\ i \in DOMAIN outstanding_reads[q] =>
                 /\ i \in DOMAIN outstanding_reads'[q]
                 /\ outstanding_reads'[q][i] = outstanding_reads[q][i]
         \/ /\ EndsWrite(q, i % TailSize) /\ outstanding_writes[q][i % TailSize] = i
            /\ ~Done(q, i) /\ Done(q, i)'
            /\ Tally(q, i, X)' <= msg_tail[q][i].checked + InPool(q, i)
                                    + Cardinality(Waiting(q, i)' \ X)
         \/ \E D, x : /\ Reads(q, i, D, x) /\ Waiting(q, i)' = Waiting(q, i) \ D
                      /\ D \subseteq Waiting(q, i)
                      /\ i \in DOMAIN outstanding_reads'[q] =>
                           \A p \in Others(q) \ D : outstanding_reads'[q][i][p]
                                                  = outstanding_reads[q][i][p]
<1>0. q \in Receiver /\ i \in Index
  BY DEF Correct, TypeOK
<1>1. CASE \E D, x : /\ Reads(q, i, D, x) /\ Waiting(q, i)' = Waiting(q, i) \ D
                     /\ D \subseteq Waiting(q, i)
                     /\ i \in DOMAIN outstanding_reads'[q] =>
                           \A p \in Others(q) \ D : outstanding_reads'[q][i][p]
                                                  = outstanding_reads[q][i][p]
  BY <1>1
<1>2. ASSUME ~PollReads(q, i)
      PROVE  msg_tail'[q][i].checked + InPool(q, i)'
               <= msg_tail[q][i].checked + InPool(q, i)
  <2>1. /\ msg_tail[q][i].checked \in Nat /\ InPool(q, i) \in {0, 1}
    BY <1>0, TallyType
  <2>2. InPool(q, i)' \in {0, 1}
    BY DEF InPool
  <2> QED BY <1>2, <2>1, <2>2, StepChecked
<1> DEFINE n == Cardinality(Waiting(q, i)' \ X)
<1>3. n \in Nat /\ Tally(q, i, X)' = msg_tail'[q][i].checked + InPool(q, i)' + n
  <2>1. Waiting(q, i)' \subseteq Others(q) /\ IsFiniteSet(Others(q))
    BY <1>0, WaitingSome DEF Waiting
  <2>2. IsFiniteSet(Waiting(q, i)')
    BY <2>1, FS_Subset
  <2>3. IsFiniteSet(Waiting(q, i)' \ X)
    BY <2>2, FS_Difference
  <2>4. n \in Nat
    BY <2>3, FS_CardinalityType
  <2> QED BY <2>4 DEF Tally
<1>4. /\ msg_tail[q][i].checked \in Nat /\ InPool(q, i) \in {0, 1}
      /\ msg_tail'[q][i].checked \in Nat /\ InPool(q, i)' \in {0, 1}
  <2>1. msg_tail[q][i].checked \in Nat /\ InPool(q, i) \in {0, 1}
    BY <1>0, TallyType
  <2>2. msg_tail'[q][i] \in MessageData
    BY <1>0 DEF TypeOK
  <2>3. InPool(q, i)' \in {0, 1}
    BY DEF InPool
  <2> QED BY <2>1, <2>2, <2>3 DEF MessageData
<1>5. CASE /\ EndsWrite(q, i % TailSize) /\ outstanding_writes[q][i % TailSize] = i
           /\ ~Done(q, i) /\ Done(q, i)'
  <2>1. ~PollReads(q, i)
    <3>1. SUFFICES ASSUME PollReads(q, i) PROVE FALSE
      OBVIOUS
    <3>2. outstanding_writes' = outstanding_writes
      BY <3>1 DEF PollReads
    <3>3. outstanding_writes'[q][i % TailSize] = Idle /\ i # Idle
      BY <1>0, <1>5, EchoFacts DEF EndsWrite, Idle
    <3> QED BY <1>5, <3>2, <3>3
  <2> HIDE DEF n
  <2>2. Tally(q, i, X)' <= msg_tail[q][i].checked + InPool(q, i) + n
    BY <1>2, <1>3, <1>4, <2>1
  <2> QED BY <1>5, <2>2 DEF n
<1>6. CASE /\ Waiting(q, i)' = Waiting(q, i) /\ ~PollReads(q, i)
           /\ i \in DOMAIN outstanding_reads[q] =>
                 /\ i \in DOMAIN outstanding_reads'[q]
                 /\ outstanding_reads'[q][i] = outstanding_reads[q][i]
  <2>1. Tally(q, i, X) = msg_tail[q][i].checked + InPool(q, i) + n
    BY <1>6 DEF Tally
  <2> HIDE DEF n
  <2>2. Tally(q, i, X)' <= Tally(q, i, X)
    BY <1>2, <1>3, <1>4, <1>6, <2>1
  <2> QED BY <1>6, <2>2
<1> QED BY <1>0, <1>1, <1>5, <1>6, StepWaiting

(* A message that is new in a map was just accepted.                        *)
LEMMA NewMessage ==
  ASSUME Assumption, TypeOK, KeptEchoed, TasksSound, [Next]_vars, NEW q \in Correct,
         NEW i \in Kept(q)', i \notin Kept(q), i \in Index
  PROVE  /\ msg_tail'[q][i].checked = 0 /\ InPool(q, i)' = 0
         /\ msg_tail'[q][i].signature = None
         /\ \E m \in Sent : m.index = i /\ PollMessage(q) /\ Accepted(q, m)
<1>0. q \in Receiver
  BY DEF Correct
<1>1. /\ msg_tail'[q][i].checked = 0 /\ msg_tail'[q][i].signature = None
      /\ \E m \in Sent : m.index = i /\ PollMessage(q) /\ Accepted(q, m)
  <2>1. CASE Same
    BY <1>0, <2>1 DEF Same, SameKept
  <2>2. ASSUME NEW r \in Correct, NEW m \in Sent, PollMessage(r), Accepted(r, m)
        PROVE  /\ msg_tail'[q][i].checked = 0 /\ msg_tail'[q][i].signature = None
               /\ r = q /\ m.index = i
    <3>1. CASE r = q
      BY <2>2, <3>1 DEF Accepted
    <3>2. CASE r # q
      <4>1. msg_tail'[q] = msg_tail[q]
        BY <1>0, <2>2, <3>2 DEF Accepted, Others
      <4> QED BY <4>1 DEF Kept
    <3> QED BY <3>1, <3>2
  <2>3. ASSUME NEW r \in Correct, Poll(r) PROVE FALSE
    <3>1. PICK k \in Index : Polled(r, k)
      BY <2>3, PollFacts DEF Correct
    <3>2. CASE r = q
      BY <3>1, <3>2 DEF Polled
    <3>3. CASE r # q
      <4>1. msg_tail'[q] = msg_tail[q]
        BY <1>0, <3>1, <3>3 DEF Polled, Others
      <4> QED BY <4>1 DEF Kept
    <3> QED BY <3>2, <3>3
  <2> QED BY <2>1, <2>2, <2>3, StepKept
<1>2. ~Past(q, i)
  BY StepPast
<1>3. BadSignature(i) \notin verifying'[q]
  <2>1. SUFFICES ASSUME BadSignature(i) \in verifying'[q] PROVE FALSE
    OBVIOUS
  <2>2. BadSignature(i).index = i /\ BadSignature(i).origin = "register"
    BY DEF BadSignature
  <2>3. BadSignature(i) \in verifying[q]
    BY <2>1, <2>2, StepTasks
  <2>4. Past(q, i)
    BY <2>2, <2>3 DEF TasksSound
  <2> QED BY <1>2, <2>4
<1>4. InPool(q, i)' = 0
  BY <1>3 DEF InPool, BadSignature
<1> QED BY <1>1, <1>4

LEMMA NextCountedOnce ==
  ASSUME Assumption, TypeOK, TypeOK', KeptEchoed, TasksSound, RegistersSound, ReadsDone,
         CountedOnce, [Next]_vars
  PROVE  CountedOnce'
<1>0. faulty' = faulty /\ Correct' = Correct
  BY StepKept DEF Correct
<1>1. SUFFICES ASSUME NEW q \in Correct, NEW i \in Kept(q)'
               PROVE  Tally(q, i, {})' <= Cardinality(Others(q))
  BY <1>0 DEF CountedOnce
<1>2. q \in Receiver /\ i \in Index /\ Cardinality(Others(q)) \in Nat
  BY WaitingSome DEF Correct, TypeOK
<1>3. /\ Cardinality(Waiting(q, i)' \ {}) \in Nat
      /\ Cardinality(Waiting(q, i)' \ {}) <= Cardinality(Others(q))
  <2>1. Waiting(q, i)' \ {} \subseteq Others(q)
    BY DEF Waiting
  <2>2. IsFiniteSet(Others(q))
    BY <1>2, WaitingSome
  <2>3. IsFiniteSet(Waiting(q, i)' \ {})
    BY <2>1, <2>2, FS_Subset
  <2> QED BY <2>1, <2>2, <2>3, FS_Subset, FS_CardinalityType
<1>4. CASE i \in Kept(q)
  <2>1. /\ Tally(q, i, {}) <= Cardinality(Others(q)) /\ Tally(q, i, {}) \in Nat
        /\ msg_tail[q][i].checked \in Nat /\ InPool(q, i) \in {0, 1}
    BY <1>2, <1>4, TallyType DEF CountedOnce
  <2>2. Tally(q, i, {})' \in Nat
    <3>1. msg_tail'[q][i].checked \in Nat
      BY <1>2 DEF TypeOK, MessageData
    <3>2. InPool(q, i)' \in {0, 1}
      BY DEF InPool
    <3>3. Tally(q, i, {})' = msg_tail'[q][i].checked + InPool(q, i)'
                               + Cardinality(Waiting(q, i)' \ {})
      BY DEF Tally
    <3> QED BY <1>3, <3>1, <3>2, <3>3
  <2>3. CASE Tally(q, i, {})' <= Tally(q, i, {})
    BY <1>2, <2>1, <2>2, <2>3
  <2>4. CASE /\ ~Done(q, i)
             /\ Tally(q, i, {})' <= msg_tail[q][i].checked + InPool(q, i)
                                      + Cardinality(Waiting(q, i)' \ {})
    <3>1. Waiting(q, i) \ {} = Others(q)
      BY <2>4 DEF Waiting
    <3>2. msg_tail[q][i].checked + InPool(q, i) + Cardinality(Others(q))
            <= Cardinality(Others(q))
      BY <2>1, <3>1 DEF Tally
    <3>3. msg_tail[q][i].checked = 0 /\ InPool(q, i) = 0
      BY <1>2, <2>1, <3>2
    <3> QED BY <1>2, <1>3, <2>2, <2>4, <3>3
  <2>5. ASSUME NEW D, NEW x, Reads(q, i, D, x), Waiting(q, i)' = Waiting(q, i) \ D,
               D \subseteq Waiting(q, i)
        PROVE  Tally(q, i, {})' <= Tally(q, i, {})
    BY <1>4, <2>5, TallyReads
  <2> QED BY <1>4, <2>3, <2>4, <2>5, StepTally
<1>5. CASE i \notin Kept(q)
  <2>1. msg_tail'[q][i].checked = 0 /\ InPool(q, i)' = 0
    BY <1>2, <1>5, NewMessage
  <2>2. Tally(q, i, {})' = msg_tail'[q][i].checked + InPool(q, i)'
                             + Cardinality(Waiting(q, i)' \ {})
    BY DEF Tally
  <2> QED BY <1>2, <1>3, <2>1, <2>2
<1> QED BY <1>4, <1>5

(* A receiver that threw stays dead.                                        *)
LEMMA StepDead ==
  ASSUME Assumption, TypeOK, [Next]_vars, NEW q \in Receiver, dead'[q] = None
  PROVE  dead[q] = None
<1>0. dead \in [Receiver -> Cause]
  BY DEF TypeOK
<1> DEFINE Goal == dead[q] = None
<1>1. UNCHANGED dead => Goal
  OBVIOUS
<1>2. ASSUME NEW r \in Receiver,
             \/ PollMessage(r) \/ PollSignature(r) \/ PollVerification(r)
             \/ \E o \in Others(r) : PollEcho(r, o)
             \/ \E i \in Index : PollReads(r, i)
      PROVE  Goal
  <2>1. dead[r] = None
    BY <1>2 DEF PollMessage, PollSignature, PollVerification, PollEcho, PollReads, Running
  <2>2. UNCHANGED dead \/ \E c \in Cause : dead' = [dead EXCEPT ![r] = c]
    <3>1. CASE PollMessage(r)
      BY <3>1 DEF PollMessage, Throw, Cause
    <3>2. CASE PollSignature(r)
      BY <3>2 DEF PollSignature, handleSignature, Throw, Cause
    <3>3. CASE PollVerification(r)
      BY <3>3 DEF PollVerification, WriteRegister, Throw, Cause
    <3>4. CASE \E o \in Others(r) : PollEcho(r, o)
      BY <3>4 DEF PollEcho, handleEcho, Throw, Cause
    <3>5. ASSUME NEW i \in Index, PollReads(r, i)
          PROVE  UNCHANGED dead \/ \E c \in Cause : dead' = [dead EXCEPT ![r] = c]
      BY <3>5, PassFacts DEF Pass, Cause
    <3> QED BY <1>2, <3>1, <3>2, <3>3, <3>4, <3>5
  <2>3. CASE r = q
    BY <2>1, <2>3
  <2>4. CASE r # q
    BY <1>0, <2>2, <2>4
  <2> QED BY <2>3, <2>4
<1>3. ASSUME \/ UNCHANGED vars \/ Broadcast \/ \E i \in Index : Sign(i)
             \/ \E r \in Receiver : Poll(r) \/ \E s \in RegisterIndex : PollWrite(r, s)
      PROVE  UNCHANGED dead
  BY <1>3 DEF vars, Broadcast, Sign, Poll, PollWrite
<1> HIDE DEF Goal
<1>4. ASSUME NEW z \in Receiver,
             \/ PollMessage(z) \/ PollSignature(z) \/ PollVerification(z) \/ Poll(z)
             \/ \E p \in Others(z) : PollEcho(z, p)
             \/ \E y \in RegisterIndex : PollWrite(z, y)
             \/ \E j \in Index : PollReads(z, j)
      PROVE  Goal
  BY <1>1, <1>2, <1>3, <1>4
<1>5. Goal
  BY <1>1, <1>3, <1>4 DEF Next
<1> QED BY <1>5 DEF Goal

-----------------------------------------------------------------------------
(* Of two receivers that wrote different signatures one is spoiled          *)

(* What r's register holds for message i is unique.                         *)
LEMMA OneEntry ==
  ASSUME Assumption, TypeOK, RegistersSound, NEW r \in Correct, NEW i \in Index,
         NEW a \in 1..Len(Slot(r, i).log), NEW b \in 1..Len(Slot(r, i).log),
         Slot(r, i).log[a].inc = Slot(r, i).log[b].inc
  PROVE  a = b
<1>1. i % TailSize \in RegisterIndex
  BY SlotFacts
<1>2. \A x \in 1..Len(Slot(r, i).log), y \in 1..Len(Slot(r, i).log) :
        x < y => Slot(r, i).log[x].inc < Slot(r, i).log[y].inc
  BY <1>1 DEF RegistersSound, RegisterSound, Slot
<1>3. Slot(r, i).log[a].inc \in Nat
  BY <1>1, RegisterType DEF Slot, Correct
<1>4. a \in Int /\ b \in Int
  OBVIOUS
<1>5. ~(a < b) /\ ~(b < a)
  BY <1>2, <1>3
<1> QED BY <1>4, <1>5

LEMMA DoneIsWritten ==
  ASSUME Assumption, NEW r \in Receiver, NEW i, NEW v, DoneWith(r, i, v)
  PROVE  Wrote(r, i, v) /\ Done(r, i)
BY DEF DoneWith, Wrote, Done, Holds

(* A vote for the value of a message is an echo of it.                      *)
LEMMA CountedEchoed ==
  ASSUME Assumption, TypeOK, EchoesOrdered, EchoesSeen, NEW q \in Correct,
         NEW r \in Correct \cap Others(q), NEW i \in Kept(q),
         r \in msg_tail[q][i].echoes, msg_tail[q][i].match
  PROVE  EchoedTo(r, q, i, msg_tail[q][i].value)
<1> DEFINE v == msg_tail[q][i].value
<1>1. q \in Receiver /\ r \in Receiver /\ q \in Others(r)
  BY DEF Others, Correct
<1>2. PICK p \in 1..echoes[q][r].seen :
        echoes[q][r].sent[p].index = i /\ echoes[q][r].sent[p].value = v
  BY DEF EchoesSeen, CountedSeen
<1>3. p \in 1..Len(echoes[q][r].sent)
  <2>1. echoes[q][r].seen <= Len(echoes[q][r].sent)
    BY <1>1 DEF EchoesOrdered
  <2>2. echoes[q][r].seen \in Nat /\ Len(echoes[q][r].sent) \in Nat
    BY <1>1, EchoLink
  <2> QED BY <2>1, <2>2
<1>4. echoes[q][r].sent[p] \in Sent
  BY <1>1, <1>3, EchoLink
<1>5. echoes[q][r].sent[p] = Message(i, v)
  BY <1>2, <1>4 DEF Sent, Message
<1> QED BY <1>3, <1>5 DEF EchoedTo

(* A receiver whose counts are complete or spoiled cannot poll the message. *)
LEMMA SpoiledNotPolled ==
  ASSUME Assumption, TypeOK, EchoesOrdered, EchoesSeen, WrittenEchoed,
         NEW q \in Correct, NEW r \in Correct, q # r, NEW i \in Index,
         NEW v \in Payload, NEW w \in Payload, v # w,
         DoneWith(q, i, v), DoneWith(r, i, w), Spoiled(q, r, i), Polled(q, i)
  PROVE  FALSE
<1>1. i \in Kept(q) /\ dead[q] = None /\ pollable(msg_tail[q][i], q)
  BY DEF Polled
<1>2. r \in Others(q) /\ q \in Receiver /\ r \in Receiver /\ q \in Others(r)
  BY DEF Others, Correct
<1>3. v \in Value /\ w \in Value
  BY DEF Value
<1>4. msg_tail[q][i].value = v
  BY <1>1, <1>2, <1>3, DoneIsWritten DEF WrittenEchoed
<1>5. EchoedTo(r, q, i, w)
  BY <1>2, <1>3, DoneIsWritten DEF WrittenEchoed, Echoed
<1>6. ASSUME msg_tail[q][i].echoes = Others(q), msg_tail[q][i].match
      PROVE  FALSE
  <2>1. EchoedTo(r, q, i, v)
    BY <1>1, <1>2, <1>4, <1>6, CountedEchoed
  <2> QED BY <1>2, <1>5, <2>1, EchoesAgree
<1>7. ASSUME msg_tail[q][i].checked = Cardinality(Others(q)) PROVE FALSE
  <2>1. Tally(q, i, {r}) <= Cardinality(Others(q)) - 1
    BY <1>1 DEF Spoiled
  <2>2. /\ msg_tail[q][i].checked \in Nat /\ InPool(q, i) \in {0, 1}
        /\ Cardinality(Waiting(q, i) \ {r}) \in Nat
    BY <1>1, <1>2, TallyType
  <2> QED BY <1>7, <2>1, <2>2 DEF Tally
<1> QED BY <1>1, <1>6, <1>7 DEF pollable

(* What q reads in r's register, once r's write was done.                   *)
LEMMA SpoiledRead ==
  ASSUME Assumption, TypeOK, RegistersSound, WrittenEchoed,
         NEW q \in Correct, NEW r \in Correct, q # r, NEW i \in Kept(q), i \in Index,
         NEW v \in Payload, NEW w \in Payload, v # w,
         DoneWith(q, i, v), DoneWith(r, i, w), Spoiled(q, r, i),
         dead[q] = None, dead'[q] = None,
         NEW D, NEW x, Reads(q, i, D, x), D \subseteq Waiting(q, i), r \in D
  PROVE  r \notin SafeOnes(q, i, D, x) /\ x[r].value # Garbage
<1> DEFINE log == Slot(r, i).log
           floor == outstanding_reads[q][i][r]
<1>0. q \in Receiver /\ r \in Receiver /\ i % TailSize \in RegisterIndex /\ r # faulty
  BY SlotFacts DEF Correct
<1>1. PICK k \in 1..floor : k \in 1..Len(log) /\ log[k].inc = Incarnation(i)
  BY DEF Spoiled
<1>2. PICK j \in 1..Len(log) : log[j].inc = Incarnation(i) /\ log[j].value = w
  BY <1>0, DoneIsWritten DEF Wrote, Holds
<1>3. x[r] \in Results(r, i, floor)
  BY DEF Reads, Pass
<1>4. PICK m \in floor..Len(log) : x[r] = log[m]
  BY <1>0, <1>3 DEF Results, Slot
<1>5. floor \in Nat /\ Len(log) \in Nat
  <2>1. Len(log) \in Nat
    BY <1>0, RegisterType DEF Slot
  <2>2. outstanding_reads[q][i] \in [Others(q) -> Nat]
    BY <1>0 DEF TypeOK, Reads
  <2>3. r \in Others(q)
    BY <1>0 DEF Others
  <2> QED BY <2>1, <2>2, <2>3
<1>6. m \in 1..Len(log) /\ k <= m /\ k \in Int /\ m \in Int
  BY <1>1, <1>4, <1>5
<1>7. ~(x[r].inc > Incarnation(i))
  <2>1. SUFFICES ASSUME x[r].inc > Incarnation(i) PROVE FALSE
    OBVIOUS
  <2>2. dead' = [dead EXCEPT ![q] = "recycled"]
    BY <2>1 DEF Reads, Pass
  <2>3. dead \in [Receiver -> Cause]
    BY DEF TypeOK
  <2> QED BY <1>0, <2>2, <2>3 DEF None
<1>8. log[k].inc \in Nat /\ log[m].inc \in Nat
  BY <1>0, <1>1, <1>6, RegisterType DEF Slot
<1>9. k = m
  <2>1. k < m => log[k].inc < log[m].inc
    BY <1>0, <1>1, <1>6 DEF RegistersSound, RegisterSound, Slot
  <2>2. ~(k < m)
    BY <1>1, <1>4, <1>7, <1>8, <2>1
  <2> QED BY <1>6, <2>2
<1>10. j = m
  BY <1>1, <1>2, <1>6, <1>9, OneEntry
<1>11. x[r].value = w /\ x[r].inc = Incarnation(i)
  BY <1>2, <1>4, <1>10
<1>12. msg_tail[q][i].signature = v
  BY <1>0, DoneIsWritten DEF WrittenEchoed, Value
<1>13. ~Safe(q, i, x[r])
  <2>1. Incarnation(i) \in Nat
    BY SlotFacts
  <2> QED BY <1>11, <1>12, <2>1 DEF Safe
<1>14. w # Garbage
  BY DEF Assumption
<1> QED BY <1>11, <1>13, <1>14 DEF SafeOnes

(* What a correct receiver delivered changes only when it polls.            *)
LEMMA StepDelivered ==
  ASSUME Assumption, TypeOK, [Next]_vars, NEW q \in Correct, NEW i \in Index
  PROVE  \/ delivered'[q][i] = delivered[q][i]
         \/ Poll(q) /\ Polled(q, i)
<1>0. delivered \in [Receiver -> [Index -> Payload \cup {None}]] /\ q \in Receiver
  BY DEF TypeOK, Correct
<1>1. CASE Same
  BY <1>1 DEF Same
<1>2. ASSUME NEW r \in Correct, NEW m \in Sent, PollMessage(r), Accepted(r, m)
      PROVE  delivered'[q][i] = delivered[q][i]
  BY <1>2 DEF PollMessage
<1>3. ASSUME NEW r \in Correct, Poll(r)
      PROVE  \/ delivered'[q][i] = delivered[q][i]
             \/ Poll(q) /\ Polled(q, i)
  <2>1. PICK k \in Index : Polled(r, k)
    BY <1>3, PollFacts DEF Correct
  <2>2. CASE r = q
    BY <1>3, <2>1, <2>2 DEF Polled
  <2>3. CASE r # q
    <3>1. delivered' = [delivered EXCEPT ![r][Min(Kept(r))] =
                          msg_tail[r][Min(Kept(r))].value]
      BY <1>3 DEF Poll
    <3>2. delivered'[q] = delivered[q]
      BY <1>0, <2>3, <3>1
    <3> QED BY <3>2
  <2> QED BY <2>2, <2>3
<1> QED BY <1>1, <1>2, <1>3, StepKept

LEMMA SpoiledStays ==
  ASSUME Assumption, TypeOK, TypeOK', KeptEchoed, EchoesOrdered, EchoesSeen,
         RegistersSound, WrittenEchoed, ReadsDone, [Next]_vars,
         NEW q \in Correct, NEW r \in Correct, q # r, NEW i \in Index,
         NEW v \in Payload, NEW w \in Payload, v # w,
         DoneWith(q, i, v), DoneWith(r, i, w), Spoiled(q, r, i)
  PROVE  Spoiled(q, r, i)'
<1>0. q \in Receiver /\ r \in Receiver /\ i % TailSize \in RegisterIndex /\ r # faulty
  BY SlotFacts DEF Correct
<1>1. delivered'[q][i] = None
  BY SpoiledNotPolled, StepDelivered DEF Spoiled
<1> DEFINE Entry(k) == /\ k \in 1..Len(Slot(r, i).log)
                       /\ Slot(r, i).log[k].inc = Incarnation(i)
<1>2. SUFFICES ASSUME i \in Kept(q)', dead'[q] = None
               PROVE  /\ Tally(q, i, {r})' <= Cardinality(Others(q)) - 1
                      /\ r \in Waiting(q, i)' =>
                           /\ i \in DOMAIN outstanding_reads'[q]
                           /\ \E k \in 1..outstanding_reads'[q][i][r] :
                                /\ k \in 1..Len(registers'[r][i % TailSize].log)
                                /\ registers'[r][i % TailSize].log[k].inc = Incarnation(i)
  BY <1>1 DEF Spoiled, Slot
<1>3. Past(q, i) /\ Done(q, i)
  BY <1>0, DoneIsWritten DEF WrittenEchoed, Value
<1>4. i \in Kept(q) /\ dead[q] = None
  BY <1>0, <1>2, <1>3, StepPast, StepDead
<1>5. /\ Tally(q, i, {r}) <= Cardinality(Others(q)) - 1
      /\ r \in Waiting(q, i) =>
           /\ i \in DOMAIN outstanding_reads[q]
           /\ \E k \in 1..outstanding_reads[q][i][r] : Entry(k)
  BY <1>4 DEF Spoiled
<1>6. Tally(q, i, {r}) \in Nat /\ Cardinality(Others(q)) \in Nat
  BY <1>0, <1>4, TallyType, WaitingSome
<1>7. Tally(q, i, {r})' \in Nat
  <2>1. msg_tail'[q][i].checked \in Nat
    BY <1>0, <1>2 DEF TypeOK, MessageData
  <2>2. InPool(q, i)' \in {0, 1}
    BY DEF InPool
  <2>3. Cardinality(Waiting(q, i)' \ {r}) \in Nat
    <3>1. Waiting(q, i)' \ {r} \subseteq Others(q)
      BY DEF Waiting
    <3>2. IsFiniteSet(Others(q))
      BY <1>0, WaitingSome
    <3> QED BY <3>1, <3>2, FS_Subset, FS_CardinalityType
  <2>4. Tally(q, i, {r})' = msg_tail'[q][i].checked + InPool(q, i)'
                              + Cardinality(Waiting(q, i)' \ {r})
    BY DEF Tally
  <2> QED BY <2>1, <2>2, <2>3, <2>4
<1>8. ASSUME NEW k, Entry(k)
      PROVE  /\ k \in 1..Len(registers'[r][i % TailSize].log)
             /\ registers'[r][i % TailSize].log[k].inc = Incarnation(i)
  BY <1>0, <1>8, RegistersGrow DEF Slot
<1> HIDE DEF Entry
<1>9. CASE /\ Tally(q, i, {r})' <= Tally(q, i, {r})
           /\ Waiting(q, i)' = Waiting(q, i)
           /\ i \in DOMAIN outstanding_reads[q] =>
                /\ i \in DOMAIN outstanding_reads'[q]
                /\ outstanding_reads'[q][i] = outstanding_reads[q][i]
  <2>1. Tally(q, i, {r})' <= Cardinality(Others(q)) - 1
    BY <1>5, <1>6, <1>7, <1>9
  <2> QED BY <1>5, <1>8, <1>9, <2>1
<1>10. ASSUME NEW D, NEW x, Reads(q, i, D, x), Waiting(q, i)' = Waiting(q, i) \ D,
              D \subseteq Waiting(q, i),
              i \in DOMAIN outstanding_reads'[q] =>
                \A p \in Others(q) \ D : outstanding_reads'[q][i][p]
                                       = outstanding_reads[q][i][p]
       PROVE  /\ Tally(q, i, {r})' <= Cardinality(Others(q)) - 1
              /\ r \in Waiting(q, i)' =>
                   /\ i \in DOMAIN outstanding_reads'[q]
                   /\ \E k \in 1..outstanding_reads'[q][i][r] : Entry(k)
  <2>1. r \in D => r \notin SafeOnes(q, i, D, x) /\ x[r].value # Garbage
    BY <1>2, <1>4, <1>10, SpoiledRead
  <2>2. Tally(q, i, {r})' <= Tally(q, i, {r})
    BY <1>4, <1>10, <2>1, TallyReads
  <2>3. Tally(q, i, {r})' <= Cardinality(Others(q)) - 1
    BY <1>5, <1>6, <1>7, <2>2
  <2>4. ASSUME r \in Waiting(q, i)'
        PROVE  /\ i \in DOMAIN outstanding_reads'[q]
               /\ \E k \in 1..outstanding_reads'[q][i][r] : Entry(k)
    <3>1. r \in Waiting(q, i) /\ r \in Others(q) \ D
      BY <1>10, <2>4 DEF Waiting
    <3>2. Done(q, i)'
      BY <1>3, DoneGrows
    <3>3. i \in DOMAIN outstanding_reads'[q]
      BY <2>4, <3>2 DEF Waiting
    <3>4. outstanding_reads'[q][i][r] = outstanding_reads[q][i][r]
      BY <1>10, <3>1, <3>3
    <3> QED BY <1>5, <3>1, <3>3, <3>4
  <2> QED BY <2>3, <2>4
<1>11. ~(~Done(q, i) /\ Done(q, i)')
  BY <1>3
<1>12. CASE \E D, x : /\ Reads(q, i, D, x) /\ Waiting(q, i)' = Waiting(q, i) \ D
                      /\ D \subseteq Waiting(q, i)
                      /\ i \in DOMAIN outstanding_reads'[q] =>
                           \A p \in Others(q) \ D : outstanding_reads'[q][i][p]
                                                  = outstanding_reads[q][i][p]
  BY <1>8, <1>10, <1>12
<1> QED BY <1>2, <1>4, <1>9, <1>11, <1>12, StepTally

(* The receiver whose write is done second reads the register of the first. *)
LEMMA SpoiledNow ==
  ASSUME Assumption, TypeOK, TypeOK', KeptEchoed, EchoesOrdered, RegistersSound,
         WrittenEchoed, ReadsDone, CountedOnce, DeliveredSound, [Next]_vars,
         NEW q \in Correct, NEW r \in Correct, q # r, NEW i \in Index,
         NEW v \in Payload, NEW w \in Payload, v # w,
         EndsWrite(q, i % TailSize), outstanding_writes[q][i % TailSize] = i,
         DoneWith(q, i, v)', DoneWith(r, i, w), Wrote(q, i, v)
  PROVE  Spoiled(q, r, i)'
<1> DEFINE s == i % TailSize
<1>0. /\ q \in Receiver /\ r \in Receiver /\ s \in RegisterIndex
      /\ r \in Others(q) /\ q \in Others(r)
  BY SlotFacts DEF Correct, Others
<1>1. ~Done(q, i)
  BY <1>0, PendingNotDone
<1>2. PollWrite(q, s)
  BY DEF EndsWrite
<1>3. Echoed(q, i, v) /\ Echoed(r, i, w)
  BY <1>0, DoneIsWritten DEF WrittenEchoed, Value
<1>4. delivered'[q][i] = None
  <2>1. delivered[q][i] = None
    <3>1. SUFFICES ASSUME delivered[q][i] # None PROVE FALSE
      OBVIOUS
    <3>2. /\ Echoed(q, i, delivered[q][i])
          /\ HeardAll(q, i, delivered[q][i]) \/ DoneWith(q, i, delivered[q][i])
      BY <3>1 DEF DeliveredSound
    <3>3. delivered[q][i] = v
      BY <1>0, <1>3, <3>2, EchoesAgree DEF Echoed
    <3>4. ~DoneWith(q, i, delivered[q][i])
      BY <1>0, <1>1, DoneIsWritten
    <3>5. EchoedTo(r, q, i, v)
      BY <1>0, <3>2, <3>3, <3>4 DEF HeardAll
    <3>6. EchoedTo(r, q, i, w)
      BY <1>0, <1>3 DEF Echoed
    <3> QED BY <1>0, <3>5, <3>6, EchoesAgree
  <2> QED BY <1>2, <2>1 DEF PollWrite
<1>5. SUFFICES ASSUME i \in Kept(q)', dead'[q] = None
               PROVE  /\ Tally(q, i, {r})' <= Cardinality(Others(q)) - 1
                      /\ i \in DOMAIN outstanding_reads'[q]
                      /\ \E k \in 1..outstanding_reads'[q][i][r] :
                           /\ k \in 1..Len(registers'[r][s].log)
                           /\ registers'[r][s].log[k].inc = Incarnation(i)
  BY <1>4 DEF Spoiled, Slot
<1>6. i \in Kept(q) /\ msg_tail' = msg_tail /\ verifying' = verifying
  BY <1>2, <1>5 DEF PollWrite, Kept
<1>7. /\ Tally(q, i, {}) <= Cardinality(Others(q))
      /\ msg_tail[q][i].checked \in Nat /\ InPool(q, i) \in {0, 1}
      /\ Cardinality(Others(q)) \in Nat
  BY <1>0, <1>6, TallyType, WaitingSome DEF CountedOnce
<1>8. msg_tail'[q][i].checked = 0 /\ InPool(q, i)' = 0
  <2>1. Waiting(q, i) \ {} = Others(q)
    BY <1>1 DEF Waiting
  <2>2. msg_tail[q][i].checked + InPool(q, i) + Cardinality(Others(q))
          <= Cardinality(Others(q))
    BY <1>7, <2>1 DEF Tally
  <2>3. msg_tail[q][i].checked = 0 /\ InPool(q, i) = 0
    BY <1>7, <2>2
  <2>4. InPool(q, i)' = InPool(q, i)
    BY <1>6 DEF InPool
  <2> QED BY <1>6, <2>3, <2>4
<1>9. Tally(q, i, {r})' <= Cardinality(Others(q)) - 1
  <2>1. Waiting(q, i)' \ {r} \subseteq Others(q) \ {r}
    BY DEF Waiting
  <2>2. /\ IsFiniteSet(Others(q) \ {r})
        /\ Cardinality(Others(q) \ {r}) = Cardinality(Others(q)) - 1
    BY <1>0, WaitingSome, FS_RemoveElement
  <2>3. /\ IsFiniteSet(Waiting(q, i)' \ {r})
        /\ Cardinality(Waiting(q, i)' \ {r}) <= Cardinality(Others(q)) - 1
    BY <2>1, <2>2, FS_Subset
  <2>4. Cardinality(Waiting(q, i)' \ {r}) \in Nat
    BY <2>3, FS_CardinalityType
  <2>5. Tally(q, i, {r})' = msg_tail'[q][i].checked + InPool(q, i)'
                              + Cardinality(Waiting(q, i)' \ {r})
    BY DEF Tally
  <2> QED BY <1>7, <1>8, <2>3, <2>4, <2>5
<1>10. i \in DOMAIN outstanding_reads'[q] /\ outstanding_reads'[q][i][r] = registers[r][s].done
  <2>1. outstanding_reads' = [outstanding_reads EXCEPT ![q] =
          Put(@, i, [p \in Others(q) |-> registers[p][s].done])]
    BY <1>2, <1>6 DEF PollWrite
  <2>2. outstanding_reads'[q] = Put(outstanding_reads[q], i,
                                  [p \in Others(q) |-> registers[p][s].done])
    BY <1>0, <2>1 DEF TypeOK
  <2>3. /\ i \in DOMAIN outstanding_reads'[q]
        /\ outstanding_reads'[q][i] = [p \in Others(q) |-> registers[p][s].done]
    BY <2>2 DEF Put
  <2> QED BY <1>0, <2>3
<1>11. PICK k \in 1..registers[r][s].done :
         k \in 1..Len(registers[r][s].log) /\ registers[r][s].log[k].inc = Incarnation(i)
  BY DEF DoneWith, Holds, Slot
<1>12. /\ k \in 1..Len(registers'[r][s].log)
       /\ registers'[r][s].log[k].inc = Incarnation(i)
  BY <1>0, <1>11, RegistersGrow
<1> QED BY <1>9, <1>10, <1>11, <1>12

(* Who is done now was done before, or its write just ended.                *)
LEMMA DoneWithFresh ==
  ASSUME Assumption, TypeOK, TypeOK', RegistersSound, TasksSound, [Next]_vars,
         NEW q \in Correct, NEW i \in Index, NEW v, DoneWith(q, i, v)'
  PROVE  \/ DoneWith(q, i, v)
         \/ /\ EndsWrite(q, i % TailSize) /\ outstanding_writes[q][i % TailSize] = i
            /\ Wrote(q, i, v)
<1> DEFINE s == i % TailSize
<1>0. q \in Receiver /\ s \in RegisterIndex
  BY SlotFacts DEF Correct
<1>1. PICK k \in 1..registers'[q][s].done :
        /\ k \in 1..Len(registers'[q][s].log)
        /\ registers'[q][s].log[k].inc = Incarnation(i)
        /\ registers'[q][s].log[k].value = v
  BY DEF DoneWith, Holds, Slot
<1>2. Done(q, i)'
  BY <1>1 DEF Done, Slot
<1>3. CASE ~Done(q, i)
  <2>1. EndsWrite(q, s) /\ outstanding_writes[q][s] = i
    BY <1>2, <1>3, DoneFresh
  <2>2. registers'[q][s].log = registers[q][s].log
    BY <2>1 DEF EndsWrite
  <2>3. Wrote(q, i, v)
    BY <1>1, <2>2 DEF Wrote, Holds, Slot
  <2> QED BY <2>1, <2>3
<1>4. CASE Done(q, i)
  <2>1. PICK j \in 1..registers[q][s].done :
          j \in 1..Len(registers[q][s].log) /\ registers[q][s].log[j].inc = Incarnation(i)
    BY <1>4 DEF Done, Slot
  <2>2. /\ j \in 1..Len(registers'[q][s].log)
        /\ registers'[q][s].log[j] = registers[q][s].log[j]
    BY <1>0, <2>1, RegistersGrow
  <2>3. RegistersSound'
    BY NextRegistersSound
  <2>4. \A x \in 1..Len(registers'[q][s].log), y \in 1..Len(registers'[q][s].log) :
          x < y => registers'[q][s].log[x].inc < registers'[q][s].log[y].inc
    <3>1. faulty' = faulty
      BY StepKept
    <3> QED BY <1>0, <2>3, <3>1 DEF RegistersSound, RegisterSound, Correct
  <2>5. registers'[q][s] \in Register
    BY <1>0 DEF TypeOK
  <2>6. registers'[q][s].log[j].inc \in Nat
    <3>1. registers'[q][s].log \in Seq([inc : Nat, value : Value])
      BY <2>5 DEF Register
    <3>2. registers'[q][s].log[j] \in [inc : Nat, value : Value]
      BY <2>2, <3>1, ElementOfSeq
    <3> QED BY <3>2
  <2>7. ~(j < k) /\ ~(k < j)
    <3>1. registers'[q][s].log[j].inc = registers'[q][s].log[k].inc
      BY <1>1, <2>1, <2>2
    <3>2. j < k => registers'[q][s].log[j].inc < registers'[q][s].log[k].inc
      BY <1>1, <2>2, <2>4
    <3>3. k < j => registers'[q][s].log[k].inc < registers'[q][s].log[j].inc
      BY <1>1, <2>2, <2>4
    <3> QED BY <2>6, <3>1, <3>2, <3>3
  <2>8. j = k
    BY <1>1, <2>2, <2>7
  <2>9. Holds(q, i, j, v)
    BY <1>1, <2>1, <2>2, <2>8 DEF Holds, Slot
  <2> QED BY <2>1, <2>9 DEF DoneWith, Slot
<1> QED BY <1>3, <1>4

LEMMA NextOneIsSpoiled ==
  ASSUME Assumption, TypeOK, TypeOK', KeptEchoed, EchoesOrdered, EchoesSeen,
         RegistersSound, WrittenEchoed, TasksSound, ReadsDone, CountedOnce,
         DeliveredSound, OneIsSpoiled, [Next]_vars
  PROVE  OneIsSpoiled'
<1>0. Correct' = Correct
  BY StepKept DEF Correct
<1>1. SUFFICES ASSUME NEW q \in Correct, NEW r \in Correct, NEW i \in Index,
                      NEW v \in Payload, NEW w \in Payload,
                      q # r, v # w, DoneWith(q, i, v)', DoneWith(r, i, w)'
               PROVE  Spoiled(q, r, i)' \/ Spoiled(r, q, i)'
  BY <1>0 DEF OneIsSpoiled
<1>2. CASE DoneWith(q, i, v) /\ DoneWith(r, i, w)
  <2>1. Spoiled(q, r, i) \/ Spoiled(r, q, i)
    BY <1>1, <1>2 DEF OneIsSpoiled
  <2>2. CASE Spoiled(q, r, i)
    BY <1>1, <1>2, <2>2, SpoiledStays
  <2>3. CASE Spoiled(r, q, i)
    BY <1>1, <1>2, <2>3, SpoiledStays
  <2> QED BY <2>1, <2>2, <2>3
<1>3. CASE ~DoneWith(q, i, v)
  <2>1. /\ EndsWrite(q, i % TailSize) /\ outstanding_writes[q][i % TailSize] = i
        /\ Wrote(q, i, v)
    BY <1>1, <1>3, DoneWithFresh
  <2>2. DoneWith(r, i, w)
    <3>1. SUFFICES ASSUME EndsWrite(r, i % TailSize) PROVE FALSE
      BY <1>1, DoneWithFresh
    <3>2. PollWrite(q, i % TailSize) /\ outstanding_writes[q][i % TailSize] \in Index
          /\ outstanding_writes'[q][i % TailSize] = Idle
          /\ PollWrite(r, i % TailSize)
      BY <2>1, <3>1 DEF EndsWrite
    <3>3. outstanding_writes' = [outstanding_writes EXCEPT ![r][i % TailSize] = Idle]
      BY <3>2 DEF PollWrite
    <3>4. outstanding_writes'[q] = outstanding_writes[q]
      BY <1>1, <3>3 DEF TypeOK, Correct
    <3>5. Idle \notin Index
      BY DEF Idle, Index
    <3> QED BY <3>2, <3>4, <3>5
  <2>3. Spoiled(q, r, i)'
    BY <1>1, <2>1, <2>2, SpoiledNow
  <2> QED BY <2>3
<1>4. CASE DoneWith(q, i, v) /\ ~DoneWith(r, i, w)
  <2>1. /\ EndsWrite(r, i % TailSize) /\ outstanding_writes[r][i % TailSize] = i
        /\ Wrote(r, i, w)
    BY <1>1, <1>4, DoneWithFresh
  <2>2. Spoiled(r, q, i)'
    BY <1>1, <1>4, <2>1, SpoiledNow
  <2> QED BY <2>2
<1> QED BY <1>2, <1>3, <1>4

-----------------------------------------------------------------------------
(* What was delivered                                                       *)

(* What a receiver polls every correct receiver echoed to it, or it wrote   *)
(* the signature to its register and the write was done.                    *)
LEMMA PolledSound ==
  ASSUME Assumption, TypeOK, EchoesOrdered, EchoesSeen, WrittenEchoed, CountedOnce,
         NEW q \in Correct, NEW i \in Index, Polled(q, i)
  PROVE  \/ HeardAll(q, i, msg_tail[q][i].value)
         \/ DoneWith(q, i, msg_tail[q][i].value)
<1> DEFINE v == msg_tail[q][i].value
<1>1. i \in Kept(q) /\ q \in Receiver /\ pollable(msg_tail[q][i], q)
  BY DEF Polled, Correct
<1>2. CASE msg_tail[q][i].echoes = Others(q) /\ msg_tail[q][i].match
  BY <1>1, <1>2, CountedEchoed DEF HeardAll
<1>3. CASE msg_tail[q][i].checked = Cardinality(Others(q))
  <2>1. Waiting(q, i) = {}
    <3>1. Tally(q, i, {}) <= Cardinality(Others(q))
      BY <1>1 DEF CountedOnce
    <3>2. /\ msg_tail[q][i].checked \in Nat /\ InPool(q, i) \in {0, 1}
          /\ Cardinality(Waiting(q, i) \ {}) \in Nat
      BY <1>1, TallyType
    <3>3. Cardinality(Waiting(q, i) \ {}) = 0
      BY <1>3, <3>1, <3>2 DEF Tally
    <3>4. IsFiniteSet(Waiting(q, i) \ {})
      BY <1>1, WaitingSome
    <3>5. Waiting(q, i) \ {} = {}
      BY <3>3, <3>4, FS_EmptySet
    <3> QED BY <3>5
  <2>2. CASE ~Done(q, i)
    BY <2>1, <2>2 DEF Waiting, HeardAll
  <2>3. CASE Done(q, i)
    <3>1. PICK k \in 1..Slot(q, i).done :
            k \in 1..Len(Slot(q, i).log) /\ Slot(q, i).log[k].inc = Incarnation(i)
      BY <2>3 DEF Done
    <3> DEFINE u == Slot(q, i).log[k].value
    <3>2. u \in Value
      BY <1>1, <3>1, SlotFacts, RegisterType DEF Slot
    <3>3. Holds(q, i, k, u)
      BY <3>1 DEF Holds
    <3>4. Wrote(q, i, u)
      BY <3>1, <3>3 DEF Wrote
    <3>5. v = u
      BY <1>1, <3>2, <3>4 DEF WrittenEchoed
    <3> QED BY <3>1, <3>3, <3>5 DEF DoneWith
  <2> QED BY <2>2, <2>3
<1> QED BY <1>1, <1>2, <1>3 DEF pollable

LEMMA StepLatest ==
  ASSUME Assumption, TypeOK, [Next]_vars, NEW q \in Correct
  PROVE  latest_polled'[q] = latest_polled[q] \/ \E i \in Index : Polled(q, i)
<1> DEFINE Goal == latest_polled'[q] = latest_polled[q] \/ \E i \in Index : Polled(q, i)
<1>0. q \in Receiver /\ latest_polled \in [Receiver -> Nat]
  BY DEF TypeOK, Correct
<1>1. CASE Same
  BY <1>0, <1>1 DEF Same
<1>2. ASSUME NEW r \in Correct, PollMessage(r) PROVE Goal
  BY <1>0, <1>2 DEF PollMessage
<1>3. ASSUME NEW r \in Correct, Poll(r) PROVE Goal
  <2>1. CASE r = q
    BY <1>3, <2>1, PollFacts DEF Correct
  <2>2. CASE r # q
    <3>1. latest_polled' = [latest_polled EXCEPT ![r] = Min(Kept(r)) + 1]
      BY <1>3 DEF Poll
    <3> QED BY <1>0, <2>2, <3>1
  <2> QED BY <2>1, <2>2
<1> QED BY <1>1, <1>2, <1>3, StepKept

LEMMA LatestGrows ==
  ASSUME Assumption, TypeOK, KeptEchoed, [Next]_vars, NEW q \in Correct
  PROVE  latest_polled'[q] >= latest_polled[q] /\ latest_polled'[q] \in Nat
<1>1. q \in Receiver /\ latest_polled[q] \in Nat
  BY DEF TypeOK, Correct
<1>2. ASSUME NEW i \in Index, Polled(q, i)
      PROVE  latest_polled'[q] >= latest_polled[q] /\ latest_polled'[q] \in Nat
  <2>1. latest_polled'[q] = i + 1 /\ i >= latest_polled[q] /\ i \in Nat
    BY <1>2, EchoFacts DEF Polled, KeptEchoed
  <2> QED BY <1>1, <2>1
<1> QED BY <1>1, <1>2, StepLatest

LEMMA NextDeliveredSound ==
  ASSUME Assumption, TypeOK, TypeOK', KeptEchoed, EchoesOrdered, EchoesSeen,
         RegistersSound, WrittenEchoed, CountedOnce, DeliveredSound, [Next]_vars
  PROVE  DeliveredSound'
<1>0. Correct' = Correct
  BY StepKept DEF Correct
<1>1. SUFFICES ASSUME NEW r \in Correct, NEW i \in Index, NEW v, v # None,
                      delivered'[r][i] = v
               PROVE  /\ i < latest_polled'[r]
                      /\ Echoed(r, i, v)'
                      /\ \/ \A q \in Correct \cap Others(r) : EchoedTo(q, r, i, v)'
                         \/ DoneWith(r, i, v)'
  BY <1>0 DEF DeliveredSound, HeardAll
<1>2. i \in Nat /\ r \in Receiver /\ latest_polled[r] \in Nat
  BY EchoFacts DEF Correct, TypeOK
<1>3. /\ i < latest_polled'[r] /\ Echoed(r, i, v)
      /\ HeardAll(r, i, v) \/ DoneWith(r, i, v)
  <2>1. CASE delivered'[r][i] = delivered[r][i]
    <3>1. /\ i < latest_polled[r] /\ Echoed(r, i, v)
          /\ HeardAll(r, i, v) \/ DoneWith(r, i, v)
      BY <1>1, <2>1 DEF DeliveredSound
    <3> QED BY <1>2, <3>1, LatestGrows
  <2>2. CASE Polled(r, i)
    <3>1. v = msg_tail[r][i].value /\ i \in Kept(r) /\ latest_polled'[r] = i + 1
      BY <1>1, <2>2 DEF Polled
    <3>2. Echoed(r, i, v)
      BY <3>1 DEF KeptEchoed
    <3> QED BY <1>2, <2>2, <3>1, <3>2, PolledSound
  <2> QED BY <2>1, <2>2, StepDelivered
<1>4. Echoed(r, i, v)'
  BY <1>2, <1>3, EchoesGrow DEF Echoed
<1>5. ASSUME HeardAll(r, i, v), NEW q \in Correct \cap Others(r)
      PROVE  EchoedTo(q, r, i, v)'
  <2>1. q \in Receiver /\ r \in Others(q) /\ EchoedTo(q, r, i, v)
    BY <1>2, <1>5 DEF Others, HeardAll
  <2> QED BY <2>1, EchoesGrow
<1>6. DoneWith(r, i, v) => DoneWith(r, i, v)'
  BY DoneGrows
<1> QED BY <1>3, <1>4, <1>5, <1>6

(* No two correct receivers deliver different values under one index.       *)
LEMMA DeliveredAgree ==
  ASSUME Assumption, TypeOK, EchoesOrdered, OneIsSpoiled, DeliveredSound PROVE Agree
<1>1. SUFFICES ASSUME NEW q \in Correct, NEW r \in Correct, NEW i \in Index,
                      NEW v, NEW w, v # None, w # None, v # w, q # r,
                      delivered[q][i] = v, delivered[r][i] = w
               PROVE  FALSE
  BY DEF Agree
<1>2. /\ q \in Others(r) /\ r \in Others(q)
      /\ v \in Payload /\ w \in Payload
  BY <1>1 DEF Others, Correct, TypeOK
<1>3. Echoed(q, i, v) /\ Echoed(r, i, w)
  BY <1>1 DEF DeliveredSound
<1>4. ~HeardAll(q, i, v)
  BY <1>1, <1>2, <1>3, EchoesAgree DEF HeardAll, Echoed
<1>5. ~HeardAll(r, i, w)
  BY <1>1, <1>2, <1>3, EchoesAgree DEF HeardAll, Echoed
<1>6. DoneWith(q, i, v) /\ DoneWith(r, i, w)
  BY <1>1, <1>4, <1>5 DEF DeliveredSound
<1>7. Spoiled(q, r, i) \/ Spoiled(r, q, i)
  BY <1>1, <1>2, <1>6 DEF OneIsSpoiled
<1> QED BY <1>1, <1>7 DEF Spoiled

-----------------------------------------------------------------------------
(* The invariant                                                            *)

LEMMA InvInit == ASSUME Assumption, Init PROVE Inv
<1>1. TypeOK /\ SenderInv
  BY TypeInit, SenderInit
<1>2. /\ \A r \in Receiver : Kept(r) = {} /\ verifying[r] = {}
      /\ \A r \in Receiver : DOMAIN outstanding_reads[r] = {}
      /\ \A r \in Receiver : \A i \in Index : delivered[r][i] = None
  BY DEF Init, Kept, Empty
<1>3. \A r \in Receiver : \A o \in Others(r) :
        /\ o \in Receiver /\ echoes[r][o] = EmptyLink /\ echoes[o][r] = EmptyLink
        /\ buffered_echoes[r][o] = << >>
  BY DEF Init, Others
<1>4. EmptyLink.sent = << >> /\ EmptyLink.seen = 0 /\ Len(<< >>) = 0
  BY DEF EmptyLink
<1>5. \A r \in Receiver : \A s \in RegisterIndex :
        /\ registers[r][s] = [log |-> <<[inc |-> 0, value |-> None]>>, done |-> 1]
        /\ outstanding_writes[r][s] = Idle
  BY DEF Init
<1>6. \A r \in Receiver : \A s \in RegisterIndex :
        /\ Len(registers[r][s].log) = 1 /\ registers[r][s].done = 1
        /\ registers[r][s].log[1] = [inc |-> 0, value |-> None]
  BY <1>5
<1>7. EchoesOrdered
  BY <1>3, <1>4 DEF EchoesOrdered, Increasing, Correct
<1>8. KeptEchoed /\ TasksSound /\ ReadsDone /\ CountedOnce /\ DeliveredSound
  BY <1>2 DEF KeptEchoed, TasksSound, ReadsDone, CountedOnce, DeliveredSound, Correct
<1>9. EchoesSeen
  BY <1>2, <1>3, <1>4 DEF EchoesSeen, BufferSeen, CountedSeen, Correct
<1>10. RegistersSound
  <2>1. SUFFICES ASSUME NEW r \in Correct, NEW s \in RegisterIndex
                 PROVE  RegisterSound(r, s)
    BY DEF RegistersSound
  <2>2. /\ Len(registers[r][s].log) = 1 /\ registers[r][s].done = 1
        /\ registers[r][s].log[1] = [inc |-> 0, value |-> None]
        /\ outstanding_writes[r][s] = Idle
    BY <1>5, <1>6 DEF Correct
  <2>3. \A k \in 1..1 : k = 1
    OBVIOUS
  <2>4. None # Garbage
    BY DEF Assumption
  <2> QED BY <2>2, <2>3, <2>4 DEF RegisterSound
<1>11. \A r \in Correct : \A i \in Index : \A v : ~Wrote(r, i, v)
  <2>1. SUFFICES ASSUME NEW r \in Correct, NEW i \in Index, NEW v, Wrote(r, i, v)
                 PROVE  FALSE
    OBVIOUS
  <2>2. i % TailSize \in RegisterIndex /\ Incarnation(i) \in Nat /\ Incarnation(i) >= 1
    BY SlotFacts
  <2>3. /\ Len(Slot(r, i).log) = 1
        /\ Slot(r, i).log[1] = [inc |-> 0, value |-> None]
    BY <1>6, <2>2 DEF Slot, Correct
  <2>4. PICK k \in 1..1 : Slot(r, i).log[k].inc = Incarnation(i)
    BY <2>1, <2>3 DEF Wrote, Holds
  <2>5. k = 1
    OBVIOUS
  <2> QED BY <2>2, <2>3, <2>4, <2>5
<1>12. WrittenEchoed
  BY <1>11 DEF WrittenEchoed
<1>13. OneIsSpoiled
  <2>1. SUFFICES ASSUME NEW q \in Correct, NEW i \in Index, NEW v, DoneWith(q, i, v)
                 PROVE  FALSE
    BY DEF OneIsSpoiled
  <2> QED BY <1>11, <2>1, DoneIsWritten DEF Correct
<1> QED BY <1>1, <1>7, <1>8, <1>9, <1>10, <1>12, <1>13 DEF Inv

LEMMA InvNext == ASSUME Assumption, Inv, [Next]_vars PROVE Inv'
<1>1. /\ TypeOK /\ SenderInv /\ EchoesOrdered /\ KeptEchoed /\ EchoesSeen
      /\ RegistersSound /\ WrittenEchoed /\ TasksSound /\ ReadsDone
      /\ CountedOnce /\ OneIsSpoiled /\ DeliveredSound
  BY DEF Inv
<1>2. TypeOK' /\ SenderInv'
  BY <1>1, TypeNext, SenderNext
<1>3. EchoesOrdered' /\ KeptEchoed' /\ EchoesSeen'
  BY <1>1, NextEchoesOrdered, NextKeptEchoed, NextEchoesSeen
<1>4. RegistersSound' /\ WrittenEchoed' /\ TasksSound'
  BY <1>1, NextRegistersSound, NextWrittenEchoed, NextTasksSound
<1>5. ReadsDone' /\ CountedOnce'
  BY <1>1, <1>2, NextReadsDone, NextCountedOnce
<1>6. OneIsSpoiled' /\ DeliveredSound'
  BY <1>1, <1>2, NextOneIsSpoiled, NextDeliveredSound
<1> QED BY <1>2, <1>3, <1>4, <1>5, <1>6 DEF Inv

-----------------------------------------------------------------------------
(* Refinement                                                               *)

(* A step of the program is a delivery of ConsistentBroadcast or none.      *)
LEMMA StepDelivers ==
  ASSUME Assumption, Inv, Agree, Agree', [Next]_vars
  PROVE  Cb!Next \/ UNCHANGED <<[i \in Index |-> Delivered(i)], latest_polled>>
<1>0. TypeOK /\ KeptEchoed /\ DeliveredSound /\ faulty' = faulty
  BY StepKept DEF Inv
<1>1. CASE UNCHANGED <<latest_polled, delivered>>
  BY <1>0, <1>1 DEF Delivered, Correct
<1>2. ASSUME NEW r \in Correct, Poll(r) PROVE Cb!Next
  <2>1. PICK i \in Index : Polled(r, i)
    BY <1>0, <1>2, PollFacts DEF Correct
  <2> DEFINE v == msg_tail[r][i].value
  <2>2. /\ r \in Receiver /\ i \in Kept(r) /\ v \in Payload /\ i = Min(Kept(r))
        /\ i \in Nat /\ i >= latest_polled[r] /\ latest_polled[r] \in Nat
    <3>1. i \in Kept(r) /\ r \in Receiver /\ i \in Nat /\ latest_polled[r] \in Nat
      BY <1>0, <2>1, EchoFacts DEF Polled, Correct, TypeOK
    <3>2. msg_tail[r][i] \in MessageData
      BY <1>0, <3>1 DEF TypeOK
    <3>3. i >= latest_polled[r]
      BY <1>0, <3>1 DEF KeptEchoed
    <3>4. i = Min(Kept(r))
      <4>1. Kept(r) \in SUBSET Nat
        BY <1>0, <3>1, EchoFacts DEF TypeOK
      <4>2. Min(Kept(r)) \in Kept(r) /\ Min(Kept(r)) <= i
        BY <3>1, <4>1, IndexMin
      <4>3. i <= Min(Kept(r))
        BY <2>1, <4>2 DEF Polled
      <4> QED BY <3>1, <4>1, <4>2, <4>3
    <3> QED BY <3>1, <3>2, <3>3, <3>4 DEF MessageData
  <2>3. latest_polled' = [latest_polled EXCEPT ![r] = i + 1]
    BY <1>2, <2>2 DEF Poll
  <2>4. delivered' = [delivered EXCEPT ![r][i] = v]
    BY <1>2, <2>2 DEF Poll
  <2>5. delivered \in [Receiver -> [Index -> Payload \cup {None}]]
    BY <1>0 DEF TypeOK
  <2>6. /\ delivered'[r][i] = v
        /\ \A q \in Receiver : \A j \in Index :
             q # r \/ j # i => delivered'[q][j] = delivered[q][j]
    BY <2>2, <2>4, <2>5
  <2>7. delivered[r][i] = None
    BY <1>0, <2>2 DEF DeliveredSound
  <2>8. v # None
    BY <2>2 DEF Assumption
  <2>9. \A q \in Correct : delivered'[q][i] \in {v, None}
    <3>1. \A q \in Correct : delivered'[q][i] # None => delivered'[q][i] = delivered'[r][i]
      BY <1>0, <2>6, <2>8 DEF Agree, Correct
    <3> QED BY <2>6, <3>1
  <2>10. Delivered(i) \subseteq {v}
    <3>1. \A q \in Correct : delivered[q][i] \in {v, None}
      BY <2>6, <2>7, <2>9 DEF Correct
    <3> QED BY <3>1 DEF Delivered
  <2>11. Delivered(i)' = {v}
    <3>1. Delivered(i)' = {delivered'[q][i] : q \in Correct} \ {None}
      BY <1>0 DEF Delivered, Correct
    <3> QED BY <2>6, <2>8, <2>9, <3>1
  <2>12. \A j \in Index \ {i} : Delivered(j)' = Delivered(j)
    BY <1>0, <2>6 DEF Delivered, Correct
  <2> DEFINE chosen == [j \in Index |-> Delivered(j)]
  <2>13. [j \in Index |-> Delivered(j)]' = [chosen EXCEPT ![i] = {v}]
    <3>1. [j \in Index |-> Delivered(j)]'
            = [j \in Index |-> IF j = i THEN {v} ELSE chosen[j]]
      BY <1>0, <2>11, <2>12
    <3> QED BY <3>1
  <2>14. Cb!Deliver(r, i, v)
    BY <2>2, <2>3, <2>10, <2>13 DEF Cb!Deliver
  <2> QED BY <2>2, <2>14 DEF Cb!Next
<1>3. CASE Same
  BY <1>1, <1>3 DEF Same
<1>4. ASSUME NEW r \in Correct, PollMessage(r) PROVE UNCHANGED <<latest_polled, delivered>>
  BY <1>4 DEF PollMessage
<1> QED BY <1>0, <1>1, <1>2, <1>3, <1>4, StepKept

LEMMA InvAgrees == ASSUME Assumption, Inv PROVE Agree
BY DeliveredAgree DEF Inv

(* Correct receivers implement consistent broadcast for every number of     *)
(* receivers, every tail and whichever process is faulty: they never poll   *)
(* different values under one index (Receiver::poll).                       *)
THEOREM BroadcastIsConsistent == Assumption => (Spec => ImplementsBroadcast)
<1> SUFFICES ASSUME Assumption PROVE Spec => ImplementsBroadcast
  OBVIOUS
<1>1. Init => Inv
  BY InvInit
<1>2. Inv /\ [Next]_vars => Inv'
  BY InvNext
<1>3. Inv => Agree
  BY InvAgrees
<1>4. Init => Cb!Init
  <2>1. SUFFICES ASSUME Init PROVE Cb!Init
    OBVIOUS
  <2>2. \A i \in Index : Delivered(i) = {}
    BY <2>1 DEF Init, Delivered, Correct
  <2> QED BY <2>1, <2>2 DEF Cb!Init, Init
<1>5. Inv /\ Agree /\ Agree' /\ [Next]_vars
        => [Cb!Next]_<<[i \in Index |-> Delivered(i)], latest_polled>>
  BY StepDelivers
<1> QED BY <1>1, <1>2, <1>3, <1>4, <1>5, PTL DEF Spec, ImplementsBroadcast, Cb!Spec

-----------------------------------------------------------------------------
(* Accusations: a correct broadcaster sends one value under an index        *)

\* What the links of a correct broadcaster keep.
SentStays ==
  /\ next_index' \in Nat /\ next_index' >= next_index
  /\ \A r \in Receiver :
       /\ messages'[r].seen >= messages[r].seen
       /\ \A i \in Nat : i < next_index => Original(r, i)' = Original(r, i)

LEMMA SentValues ==
  ASSUME Assumption, TypeOK, SenderInv, faulty # Broadcaster
  PROVE  /\ next_index \in Nat
         /\ \A r \in Receiver :
              /\ messages[r].seen \in Nat /\ messages[r].seen <= next_index
              /\ Len(messages[r].sent) = next_index
              /\ \A k \in 1..next_index : messages[r].sent[k].index = k - 1
              /\ \A i \in Nat : i < next_index =>
                   \A q \in Receiver : Original(q, i) = Original(r, i)
BY DEF SenderInv, MessagesInOrder, TypeOK, Link, Original

LEMMA StepSent ==
  ASSUME Assumption, TypeOK, SenderInv, faulty # Broadcaster, [Next]_vars
  PROVE  SentStays
<1>0. /\ next_index \in Nat /\ messages \in [Receiver -> Link]
      /\ \A r \in Receiver : /\ messages[r].seen \in Nat
                             /\ Len(messages[r].sent) = next_index
  BY SentValues DEF TypeOK
<1>1. CASE UNCHANGED <<next_index, messages>>
  BY <1>0, <1>1 DEF SentStays, Original
<1>2. ASSUME Broadcast PROVE SentStays
  <2>1. PICK v \in Payload : messages' = [r \in Receiver |->
                     SendOn(messages[r], Message(next_index, v))]
    BY <1>2 DEF Broadcast
  <2>2. next_index' = next_index + 1 /\ next_index \in Index
    BY <1>0, <1>2 DEF Broadcast, Index, Assumption
  <2>3. Message(next_index, v) \in Sent
    BY <2>2 DEF Message, Sent
  <2>4. ASSUME NEW r \in Receiver
        PROVE  /\ messages'[r].seen = messages[r].seen
               /\ \A i \in Nat : i < next_index =>
                    messages'[r].sent[i + 1] = messages[r].sent[i + 1]
    <3>1. messages'[r] = SendOn(messages[r], Message(next_index, v)) /\ messages[r] \in Link
      BY <1>0, <2>1
    <3>2. /\ messages'[r].seen = messages[r].seen
          /\ \A p \in 1..Len(messages[r].sent) :
               messages'[r].sent[p] = messages[r].sent[p]
      BY <2>3, <3>1, SendFacts
    <3>3. \A i \in Nat : i < next_index => i + 1 \in 1..Len(messages[r].sent)
      BY <1>0
    <3> QED BY <3>2, <3>3
  <2> QED BY <1>0, <2>2, <2>4 DEF SentStays, Original
<1>3. ASSUME NEW r \in Receiver, PollMessage(r) PROVE SentStays
  <2>1. PICK a \in Arriving(messages[r], Broadcaster, Payload, MaxMessages) :
          messages' = [messages EXCEPT ![r].seen = a.at]
    BY <1>3 DEF PollMessage
  <2>2. a.at \in Nat /\ a.at > messages[r].seen
    BY PolledType
  <2>3. /\ \A q \in Receiver : messages'[q].sent = messages[q].sent
        /\ messages'[r].seen = a.at
        /\ \A q \in Receiver : q # r => messages'[q].seen = messages[q].seen
    BY <1>0, <2>1 DEF Link
  <2>4. next_index' = next_index
    BY <1>3 DEF PollMessage
  <2>5. \A q \in Receiver : messages'[q].seen >= messages[q].seen
    BY <1>0, <2>2, <2>3
  <2> QED BY <1>0, <2>3, <2>4, <2>5 DEF SentStays, Original
<1>4. ASSUME NEW r \in Receiver,
             \/ PollSignature(r) \/ PollVerification(r) \/ Poll(r)
             \/ \E q \in Others(r) : PollEcho(r, q)
             \/ \E s \in RegisterIndex : PollWrite(r, s)
             \/ \E i \in Index : PollReads(r, i)
      PROVE  UNCHANGED <<next_index, messages>>
  BY <1>4 DEF PollSignature, PollVerification, Poll, PollEcho, PollWrite, PollReads,
              links
<1>5. ASSUME NEW i \in Index, Sign(i) PROVE UNCHANGED <<next_index, messages>>
  BY <1>5 DEF Sign
<1>6. UNCHANGED vars => UNCHANGED <<next_index, messages>>
  BY DEF vars, links
<1> QED BY <1>1, <1>2, <1>3, <1>4, <1>5, <1>6 DEF Next

(* What a receiver polls is the next message of the broadcaster it did not  *)
(* see, or a later one: never one it kept or passed.                        *)
LEMMA HonestMessage ==
  ASSUME Assumption, TypeOK, SenderInv, AcceptedSent, faulty # Broadcaster,
         NEW r \in Correct, NEW a \in Arriving(messages[r], Broadcaster, Payload, MaxMessages)
  PROVE  /\ a.msg \in Sent /\ a.msg.index = a.at - 1 /\ a.msg.index \in Nat
         /\ a.msg.index < next_index
         /\ a.msg = Original(r, a.msg.index) /\ ~Repeated(r, a.msg.index)
<1>1. r \in Receiver /\ latest_polled[r] \in Nat
  BY DEF Correct, TypeOK
<1>2. /\ a.msg \in Sent /\ a.at \in Nat /\ a.at > messages[r].seen
      /\ a.at <= Len(messages[r].sent) /\ a.msg = messages[r].sent[a.at]
  BY <1>1, PolledType
<1>3. /\ messages[r].seen \in Nat /\ next_index \in Nat /\ Len(messages[r].sent) = next_index
      /\ \A k \in 1..next_index : messages[r].sent[k].index = k - 1
  BY <1>1, SentValues
<1>4. a.msg.index = a.at - 1 /\ a.msg.index \in Nat /\ a.msg.index < next_index
  BY <1>2, <1>3
<1>5. a.msg = Original(r, a.msg.index)
  <2>1. a.msg.index + 1 = a.at
    BY <1>2, <1>4
  <2> QED BY <1>2, <2>1 DEF Original
<1>6. ~Repeated(r, a.msg.index)
  <2>1. latest_polled[r] <= messages[r].seen /\ \A i \in Kept(r) : i < messages[r].seen
    BY DEF AcceptedSent
  <2>2. \A i \in Kept(r) : i \in Nat
    BY <1>1, EchoFacts DEF TypeOK
  <2> QED BY <1>1, <1>2, <1>3, <1>4, <2>1, <2>2 DEF Repeated
<1> QED BY <1>2, <1>4, <1>5, <1>6

LEMMA HonestAccepted ==
  ASSUME Assumption, TypeOK, SenderInv, AcceptedSent, faulty # Broadcaster,
         NEW r \in Correct, NEW m \in Sent, PollMessage(r), Accepted(r, m)
  PROVE  /\ m.index < next_index /\ m.index < messages'[r].seen
         /\ m.value = Original(r, m.index).value
<1>1. r \in Receiver /\ messages \in [Receiver -> Link]
  BY DEF Correct, TypeOK
<1>2. PICK a \in Arriving(messages[r], Broadcaster, Payload, MaxMessages) :
        /\ messages' = [messages EXCEPT ![r].seen = a.at]
        /\ \/ UNCHANGED msg_tail
           \/ /\ ~Repeated(r, a.msg.index) /\ ~OutOfOrder(r, a.msg.index)
              /\ Accept(r, a.msg)
  BY DEF PollMessage
<1>3. /\ a.msg \in Sent /\ a.msg.index = a.at - 1 /\ a.msg.index \in Nat
      /\ a.msg.index < next_index /\ a.msg = Original(r, a.msg.index)
  BY HonestMessage
<1>4. Kept(r)' # Kept(r)
  BY DEF Accepted
<1>5. Accepted(r, a.msg)
  <2>1. ~UNCHANGED msg_tail
    BY <1>4 DEF Kept
  <2>2. UNCHANGED latest_polled
    BY DEF PollMessage
  <2> QED BY <1>1, <1>2, <1>3, <2>1, <2>2, AcceptFacts
<1>6. m.index = a.msg.index /\ m.value = a.msg.value
  BY <1>5 DEF Accepted
<1>7. messages'[r].seen = a.at
  BY <1>1, <1>2 DEF Link
<1>8. a.at \in Nat
  BY PolledType, <1>1
<1> QED BY <1>3, <1>6, <1>7, <1>8

LEMMA NextAcceptedSent ==
  ASSUME Assumption, TypeOK, TypeOK', SenderInv, AcceptedSent, faulty # Broadcaster,
         [Next]_vars
  PROVE  AcceptedSent'
<1>0. Correct' = Correct /\ SentStays
  BY StepKept, StepSent DEF Correct
<1>1. SUFFICES ASSUME NEW r \in Correct
               PROVE  /\ latest_polled'[r] <= messages'[r].seen
                      /\ \A i \in Kept(r)' :
                           /\ i < messages'[r].seen
                           /\ msg_tail'[r][i].value = messages'[r].sent[i + 1].value
                      /\ \A o \in Others(r) : \A p \in 1..Len(echoes'[o][r].sent) :
                           /\ echoes'[o][r].sent[p].index < next_index'
                           /\ \E e \in Sent :
                                /\ e = echoes'[o][r].sent[p]
                                /\ e.value = messages'[r].sent[e.index + 1].value
  <2>1. \A q \in Correct :
          /\ latest_polled'[q] <= messages'[q].seen
          /\ \A i \in Kept(q)' :
               /\ i < messages'[q].seen
               /\ msg_tail'[q][i].value = messages'[q].sent[i + 1].value
    BY <1>1
  <2>2. ASSUME NEW q \in Correct, NEW o \in Others(q),
               NEW p \in 1..Len(echoes'[o][q].sent)
        PROVE  /\ echoes'[o][q].sent[p].index < next_index'
               /\ echoes'[o][q].sent[p].value
                    = messages'[q].sent[echoes'[o][q].sent[p].index + 1].value
    <3>1. PICK e \in Sent : /\ e = echoes'[o][q].sent[p]
                            /\ e.value = messages'[q].sent[e.index + 1].value
      BY <1>1
    <3>2. echoes'[o][q].sent[p].index < next_index'
      BY <1>1
    <3> QED BY <3>1, <3>2
  <2> QED BY <1>0, <2>1, <2>2 DEF AcceptedSent, Original
<1>2. /\ r \in Receiver /\ next_index \in Nat /\ next_index' \in Nat
      /\ next_index' >= next_index
      /\ messages[r].seen \in Nat /\ messages[r].seen <= next_index
      /\ messages'[r].seen >= messages[r].seen
      /\ \A i \in Nat : i < next_index => messages'[r].sent[i + 1] = messages[r].sent[i + 1]
      /\ latest_polled[r] \in Nat /\ \A i \in Kept(r) : i \in Nat
  BY <1>0, SentValues, EchoFacts DEF SentStays, Original, Correct, TypeOK
<1>3. /\ latest_polled[r] <= messages[r].seen
      /\ \A i \in Kept(r) : /\ i < messages[r].seen
                            /\ msg_tail[r][i].value = messages[r].sent[i + 1].value
      /\ \A o \in Others(r) : \A p \in 1..Len(echoes[o][r].sent) :
           /\ echoes[o][r].sent[p].index < next_index
           /\ echoes[o][r].sent[p].value
                = messages[r].sent[echoes[o][r].sent[p].index + 1].value
  BY DEF AcceptedSent, Original
<1>4. messages'[r].seen \in Nat
  BY <1>2 DEF TypeOK, Link
<1>5. latest_polled'[r] <= messages'[r].seen
  <2>1. CASE latest_polled'[r] = latest_polled[r]
    BY <1>2, <1>3, <1>4, <2>1
  <2>2. ASSUME NEW i \in Index, Polled(r, i) PROVE latest_polled'[r] <= messages'[r].seen
    <3>1. latest_polled'[r] = i + 1 /\ i \in Kept(r)
      BY <2>2 DEF Polled
    <3> QED BY <1>2, <1>3, <1>4, <3>1
  <2> QED BY <2>1, <2>2, StepLatest
<1> DEFINE Sound(i) == /\ i < messages'[r].seen
                       /\ msg_tail'[r][i].value = messages'[r].sent[i + 1].value
<1>6. ASSUME NEW i \in Kept(r), i \in Kept(r)', msg_tail'[r][i].value = msg_tail[r][i].value
      PROVE  Sound(i)
  <2>1. i < messages[r].seen /\ msg_tail[r][i].value = messages[r].sent[i + 1].value
    BY <1>3
  <2>2. i < messages'[r].seen /\ i < next_index /\ i \in Nat
    BY <1>2, <1>4, <2>1
  <2> QED BY <1>2, <1>6, <2>1, <2>2
<1>7. ASSUME NEW m \in Sent, PollMessage(r), Accepted(r, m)
      PROVE  /\ m.index < next_index /\ Sound(m.index)
             /\ m.value = messages'[r].sent[m.index + 1].value
  <2>1. /\ m.index < next_index /\ m.index < messages'[r].seen
        /\ m.value = messages[r].sent[m.index + 1].value
    BY <1>7, HonestAccepted DEF Original
  <2>2. m.index \in Nat /\ msg_tail'[r][m.index].value = m.value
    BY <1>7, EchoFacts DEF Accepted
  <2> QED BY <1>2, <2>1, <2>2
<1> HIDE DEF Sound
<1>8. ASSUME NEW i \in Kept(r)' PROVE Sound(i)
  <2>1. CASE Same
    BY <1>2, <1>6, <2>1 DEF Same, SameKept
  <2>2. ASSUME NEW z \in Correct, NEW m \in Sent, PollMessage(z), Accepted(z, m)
        PROVE  Sound(i)
    <3>1. CASE z = r
      <4>1. i = m.index \/ (i \in Kept(r) /\ msg_tail'[r][i] = msg_tail[r][i])
        BY <2>2, <3>1 DEF Accepted
      <4> QED BY <1>6, <1>7, <2>2, <3>1, <4>1
    <3>2. CASE z # r
      <4>1. msg_tail'[r] = msg_tail[r]
        BY <1>2, <2>2, <3>2 DEF Accepted, Others
      <4> QED BY <1>6, <4>1 DEF Kept
    <3> QED BY <3>1, <3>2
  <2>3. ASSUME NEW z \in Correct, Poll(z) PROVE Sound(i)
    <3>1. PICK k \in Index : Polled(z, k)
      BY <2>3, PollFacts DEF Correct
    <3>2. CASE z = r
      BY <1>6, <3>1, <3>2 DEF Polled
    <3>3. CASE z # r
      <4>1. msg_tail'[r] = msg_tail[r]
        BY <1>2, <2>3, <3>3 DEF Poll
      <4> QED BY <1>6, <4>1 DEF Kept
    <3> QED BY <3>2, <3>3
  <2> QED BY <2>1, <2>2, <2>3, StepKept
<1>9. ASSUME NEW o \in Others(r), NEW p \in 1..Len(echoes'[o][r].sent)
      PROVE  /\ echoes'[o][r].sent[p].index < next_index'
             /\ \E e \in Sent : /\ e = echoes'[o][r].sent[p]
                              /\ e.value = messages'[r].sent[e.index + 1].value
  <2>1. /\ o \in Receiver /\ r \in Others(o) /\ echoes[o][r] \in Link
        /\ Len(echoes[o][r].sent) \in Nat
        /\ \A k \in 1..Len(echoes[o][r].sent) : echoes[o][r].sent[k] \in Sent
    BY <1>2, EchoLink
  <2>2. ASSUME p \in 1..Len(echoes[o][r].sent),
               echoes'[o][r].sent[p] = echoes[o][r].sent[p]
        PROVE  /\ echoes'[o][r].sent[p].index < next_index'
               /\ \E e \in Sent : /\ e = echoes'[o][r].sent[p]
                                /\ e.value = messages'[r].sent[e.index + 1].value
    <3>1. PICK e \in Sent : e = echoes[o][r].sent[p]
      BY <2>1, <2>2
    <3>2. /\ e.index < next_index /\ e.index \in Nat
          /\ e.value = messages[r].sent[e.index + 1].value
      BY <1>3, <2>2, <3>1, EchoFacts
    <3>3. e.index < next_index' /\ e.value = messages'[r].sent[e.index + 1].value
      BY <1>2, <3>2
    <3> QED BY <2>2, <3>1, <3>3
  <2>3. CASE echoes'[o][r].sent = echoes[o][r].sent
    BY <2>2, <2>3
  <2>4. ASSUME NEW m \in Sent, PollMessage(r), Accepted(r, m)
        PROVE  /\ echoes'[o][r].sent[p].index < next_index'
               /\ \E e \in Sent : /\ e = echoes'[o][r].sent[p]
                                /\ e.value = messages'[r].sent[e.index + 1].value
    <3>1. echoes'[o][r] = SendOn(echoes[o][r], m)
      BY <2>4 DEF Accepted
    <3>2. /\ Len(echoes'[o][r].sent) = Len(echoes[o][r].sent) + 1
          /\ \A k \in 1..Len(echoes[o][r].sent) :
               echoes'[o][r].sent[k] = echoes[o][r].sent[k]
          /\ echoes'[o][r].sent[Len(echoes[o][r].sent) + 1] = m
      <4>1. /\ Len(SendOn(echoes[o][r], m).sent) = Len(echoes[o][r].sent) + 1
            /\ \A k \in 1..Len(echoes[o][r].sent) :
                 SendOn(echoes[o][r], m).sent[k] = echoes[o][r].sent[k]
            /\ SendOn(echoes[o][r], m).sent[Len(echoes[o][r].sent) + 1] = m
        BY <2>1, SendFacts
      <4> QED BY <3>1, <4>1
    <3>3. p \in 1..Len(echoes[o][r].sent) \/ p = Len(echoes[o][r].sent) + 1
      BY <2>1, <3>2
    <3>4. CASE p = Len(echoes[o][r].sent) + 1
      <4>1. m.index < next_index' /\ m.value = messages'[r].sent[m.index + 1].value
        <5>1. m.index \in Nat
          BY EchoFacts
        <5> QED BY <1>2, <1>7, <2>4, <5>1
      <4> QED BY <3>2, <3>4, <4>1
    <3> QED BY <2>2, <3>2, <3>3, <3>4
  <2> QED BY <1>2, <2>1, <2>3, <2>4, StepEchoes
<1> QED BY <1>5, <1>8, <1>9 DEF Sound

(* The links of signatures: what a step sends or reads.                     *)
LEMMA StepSignatures ==
  ASSUME Assumption, TypeOK, SenderInv, faulty # Broadcaster, [Next]_vars,
         NEW r \in Receiver
  PROVE  /\ to_sign' \subseteq to_sign \cup {next_index}
         /\ \/ /\ signatures'[r].sent = signatures[r].sent
               /\ signatures'[r].seen = signatures[r].seen
            \/ /\ signatures'[r].sent = signatures[r].sent
               /\ signatures'[r].seen > signatures[r].seen
               /\ signatures'[r].seen \in Nat
               /\ signatures'[r].seen <= Len(signatures[r].sent)
            \/ \E i \in Index :
                 /\ i \in to_sign /\ to_sign' = to_sign \ {i}
                 /\ \E m \in Sent :
                      /\ signatures'[r] = SendOn(signatures[r], m)
                      /\ m.index = i /\ m.value = Original(r, i).value
<1> DEFINE Kind ==
      \/ /\ signatures'[r].sent = signatures[r].sent
         /\ signatures'[r].seen = signatures[r].seen
      \/ /\ signatures'[r].sent = signatures[r].sent
         /\ signatures'[r].seen > signatures[r].seen
         /\ signatures'[r].seen \in Nat
         /\ signatures'[r].seen <= Len(signatures[r].sent)
      \/ \E i \in Index :
           /\ i \in to_sign /\ to_sign' = to_sign \ {i}
           /\ \E m \in Sent :
                /\ signatures'[r] = SendOn(signatures[r], m)
                /\ m.index = i /\ m.value = Original(r, i).value
<1>0. signatures \in [Receiver -> Link]
  BY DEF TypeOK
<1>1. CASE Broadcast
  BY <1>1 DEF Broadcast
<1>2. ASSUME NEW i \in Index, Sign(i) PROVE to_sign' \subseteq to_sign /\ Kind
  <2>1. i \in to_sign /\ to_sign' = to_sign \ {i}
    BY <1>2 DEF Sign
  <2>2. CASE signatures' = signatures
    BY <2>1, <2>2
  <2>3. CASE signatures' = [z \in Receiver |->
              SendOn(signatures[z], SignatureMessage(i, SentValue(i)))]
    <3> DEFINE m == SignatureMessage(i, SentValue(i))
    <3>1. PICK z \in Receiver : SentValue(i) = messages[z].sent[i + 1].value
      BY DEF SentValue
    <3>2. i \in Nat /\ i < next_index
      BY <2>1, EchoFacts DEF SenderInv
    <3>3. SentValue(i) = Original(r, i).value
      BY <3>1, <3>2, SentValues DEF Original
    <3>4. Original(r, i) \in Sent
      <4>1. messages[r] \in Link /\ Len(messages[r].sent) = next_index /\ next_index \in Nat
        BY SentValues DEF TypeOK
      <4>2. i + 1 \in 1..Len(messages[r].sent)
        BY <3>2, <4>1
      <4>3. messages[r].sent \in Seq(Sent)
        BY <4>1 DEF Link
      <4> QED BY <4>2, <4>3, ElementOfSeq DEF Original
    <3>5. m \in Sent /\ m.index = i /\ m.value = Original(r, i).value
      BY <3>3, <3>4 DEF SignatureMessage, Sent
    <3>6. signatures'[r] = SendOn(signatures[r], m)
      BY <2>3
    <3> HIDE DEF m
    <3> QED BY <2>1, <3>5, <3>6
  <2> QED BY <1>2, <2>2, <2>3 DEF Sign
<1>3. ASSUME NEW z \in Receiver, PollSignature(z) PROVE to_sign' = to_sign /\ Kind
  <2>1. to_sign' = to_sign
    BY <1>3 DEF PollSignature
  <2>2. PICK a \in Arriving(signatures[z], Broadcaster, Payload \cup {Garbage},
                       MaxSignatures) :
          signatures' = [signatures EXCEPT ![z].seen = a.at]
    BY <1>3 DEF PollSignature
  <2>3. /\ a.at \in Nat /\ a.at > signatures[z].seen
        /\ a.at <= Len(signatures[z].sent)
    BY PolledType
  <2>4. CASE z = r
    BY <1>0, <2>1, <2>2, <2>3, <2>4 DEF Link
  <2>5. CASE z # r
    BY <1>0, <2>1, <2>2, <2>5
  <2> QED BY <2>4, <2>5
<1>4. ASSUME NEW z \in Receiver,
             \/ PollMessage(z) \/ PollVerification(z) \/ Poll(z)
             \/ \E q \in Others(z) : PollEcho(z, q)
             \/ \E s \in RegisterIndex : PollWrite(z, s)
             \/ \E i \in Index : PollReads(z, i)
      PROVE  UNCHANGED <<to_sign, signatures>>
  BY <1>4 DEF PollMessage, PollVerification, Poll, PollEcho, PollWrite, PollReads,
              links
<1>5. UNCHANGED vars => UNCHANGED <<to_sign, signatures>>
  BY DEF vars, links
<1>6. UNCHANGED <<to_sign, signatures>> => to_sign' = to_sign /\ Kind
  OBVIOUS
<1>7. Broadcast => to_sign' \subseteq to_sign \cup {next_index} /\ Kind
  BY DEF Broadcast
<1> HIDE DEF Kind
<1>8. to_sign' \subseteq to_sign \cup {next_index} /\ Kind
  BY <1>2, <1>3, <1>4, <1>5, <1>6, <1>7 DEF Next
<1> QED BY <1>8 DEF Kind

LEMMA NextSignaturesSent ==
  ASSUME Assumption, TypeOK, TypeOK', SenderInv, SignaturesSent, faulty # Broadcaster,
         [Next]_vars
  PROVE  SignaturesSent'
<1>1. SUFFICES ASSUME NEW r \in Receiver
               PROVE  LET sent == signatures'[r].sent
                      IN  /\ signatures'[r].seen <= Len(sent)
                          /\ \A k \in 1..Len(sent) :
                               /\ sent[k].index < next_index'
                               /\ sent[k].index \notin to_sign'
                               /\ \E e \in Sent :
                                    /\ e = sent[k]
                                    /\ e.value = messages'[r].sent[e.index + 1].value
                          /\ \A a \in 1..Len(sent), b \in 1..Len(sent) :
                               sent[a].index = sent[b].index => a = b
  BY DEF SignaturesSent, Original
<1> DEFINE old == signatures[r].sent
           new == signatures'[r].sent
<1>2. /\ signatures[r] \in Link /\ Len(old) \in Nat /\ signatures[r].seen \in Nat
      /\ old \in Seq(Sent) /\ next_index \in Nat
      /\ next_index' \in Nat /\ next_index' >= next_index
      /\ \A i \in Nat : i < next_index => messages'[r].sent[i + 1] = messages[r].sent[i + 1]
  <2>1. signatures[r] \in Link
    BY DEF TypeOK
  <2>2. Len(old) \in Nat /\ signatures[r].seen \in Nat /\ old \in Seq(Sent)
    BY <2>1 DEF Link
  <2>3. next_index \in Nat
    BY SentValues
  <2> QED BY <2>1, <2>2, <2>3, StepSent DEF SentStays, Original
<1>3. /\ signatures[r].seen <= Len(old)
      /\ \A k \in 1..Len(old) :
           /\ old[k].index < next_index /\ old[k].index \notin to_sign
           /\ old[k].value = messages[r].sent[old[k].index + 1].value
      /\ \A a \in 1..Len(old), b \in 1..Len(old) : old[a].index = old[b].index => a = b
  BY DEF SignaturesSent, Original
<1>4. \A k \in 1..Len(old) : old[k] \in Sent
  BY <1>2, ElementOfSeq
<1>5. to_sign' \subseteq to_sign \cup {next_index}
  BY StepSignatures
<1> DEFINE Sound(e) == /\ e.index < next_index' /\ e.index \notin to_sign' /\ e \in Sent
                       /\ e.value = messages'[r].sent[e.index + 1].value
<1>6. ASSUME NEW k \in 1..Len(old) PROVE Sound(old[k])
  <2>1. old[k] \in Sent /\ old[k].index \in Nat /\ old[k].index < next_index
    BY <1>3, <1>4, EchoFacts
  <2>2. old[k].index \notin to_sign'
    BY <1>2, <1>3, <1>5, <2>1
  <2>3. old[k].index < next_index'
    BY <1>2, <2>1
  <2> QED BY <1>2, <1>3, <2>1, <2>2, <2>3
<1>7. CASE new = old /\ signatures'[r].seen <= Len(old)
  <2> HIDE DEF Sound
  <2>1. \A k \in 1..Len(new) : Sound(new[k])
    BY <1>6, <1>7
  <2> QED BY <1>3, <1>7, <2>1 DEF Sound
<1>8. ASSUME NEW i \in Index, i \in to_sign, to_sign' = to_sign \ {i}, NEW m \in Sent,
             signatures'[r] = SendOn(signatures[r], m), m.index = i,
             m.value = Original(r, i).value
      PROVE  /\ signatures'[r].seen <= Len(new)
             /\ \A k \in 1..Len(new) : Sound(new[k])
             /\ \A a \in 1..Len(new), b \in 1..Len(new) :
                  new[a].index = new[b].index => a = b
  <2>1. /\ SendOn(signatures[r], m).seen = signatures[r].seen
        /\ Len(SendOn(signatures[r], m).sent) = Len(old) + 1
        /\ \A p \in 1..Len(old) : SendOn(signatures[r], m).sent[p] = old[p]
        /\ SendOn(signatures[r], m).sent[Len(old) + 1] = m
    BY <1>2, SendFacts
  <2>2. /\ signatures'[r].seen = signatures[r].seen /\ Len(new) = Len(old) + 1
        /\ \A p \in 1..Len(old) : new[p] = old[p]
        /\ new[Len(old) + 1] = m
    BY <1>8, <2>1
  <2>3. Sound(m)
    <3>1. i \in Nat /\ i < next_index
      BY <1>8, EchoFacts DEF SenderInv
    <3>2. m.index < next_index'
      BY <1>2, <1>8, <3>1
    <3> QED BY <1>2, <1>8, <3>1, <3>2 DEF Original
  <2>4. \A k \in 1..Len(old) : new[k].index # m.index
    BY <1>3, <1>8, <2>2
  <2> HIDE DEF Sound, old, new
  <2>5. Len(old) \in Nat /\ signatures[r].seen \in Nat /\ signatures[r].seen <= Len(old)
    BY <1>2, <1>3 DEF old
  <2>6. \A k \in 1..Len(new) : k \in 1..Len(old) \/ k = Len(old) + 1
    BY <2>2, <2>5
  <2>7. \A k \in 1..Len(new) : Sound(new[k])
    BY <1>6, <2>2, <2>3, <2>6
  <2>8. \A a \in 1..Len(old), b \in 1..Len(old) : new[a].index = new[b].index => a = b
    BY <1>3, <2>2 DEF old
  <2>9. \A a \in 1..Len(new), b \in 1..Len(new) : new[a].index = new[b].index => a = b
    BY <2>2, <2>4, <2>6, <2>8
  <2> QED BY <2>2, <2>5, <2>7, <2>9
<1>9. CASE \E i \in Index :
             /\ i \in to_sign /\ to_sign' = to_sign \ {i}
             /\ \E m \in Sent :
                  /\ signatures'[r] = SendOn(signatures[r], m)
                  /\ m.index = i /\ m.value = Original(r, i).value
  <2>1. /\ signatures'[r].seen <= Len(new)
        /\ \A k \in 1..Len(new) : Sound(new[k])
        /\ \A a \in 1..Len(new), b \in 1..Len(new) :
             new[a].index = new[b].index => a = b
    BY <1>8, <1>9
  <2> QED BY <2>1
<1>10. \/ new = old /\ signatures'[r].seen <= Len(old)
       \/ \E i \in Index :
            /\ i \in to_sign /\ to_sign' = to_sign \ {i}
            /\ \E m \in Sent :
                 /\ signatures'[r] = SendOn(signatures[r], m)
                 /\ m.index = i /\ m.value = Original(r, i).value
  BY <1>3, StepSignatures
<1> QED BY <1>7, <1>9, <1>10

(* The signature of a message changes only when the receiver polls one.     *)
LEMMA StepSigned ==
  ASSUME Assumption, TypeOK, [Next]_vars, NEW r \in Correct, NEW i \in Kept(r)'
  PROVE  \/ msg_tail'[r][i].signature = None
         \/ /\ i \in Kept(r) /\ msg_tail'[r][i].signature = msg_tail[r][i].signature
            /\ msg_tail'[r][i].value = msg_tail[r][i].value
         \/ PollSignature(r)
<1> DEFINE Stays == /\ i \in Kept(r)
                    /\ msg_tail'[r][i].signature = msg_tail[r][i].signature
                    /\ msg_tail'[r][i].value = msg_tail[r][i].value
           Goal == \/ msg_tail'[r][i].signature = None \/ Stays \/ PollSignature(r)
<1>0. r \in Receiver /\ msg_tail[r] = msg_tail[r] /\ DOMAIN msg_tail = Receiver
  BY DEF Correct, TypeOK
<1>1. ASSUME msg_tail'[r] = msg_tail[r] PROVE Stays
  BY <1>1 DEF Kept
<1>2. ASSUME SameKept(r), SameSignatures(r) PROVE Stays
  BY <1>2 DEF SameKept, SameSignatures
<1>3. ASSUME NEW m \in Sent, NEW z \in Correct, Accepted(z, m) PROVE Goal
  <2>1. CASE z = r
    <3>1. CASE i = m.index
      BY <1>3, <2>1, <3>1 DEF Accepted
    <3>2. CASE i # m.index
      BY <1>3, <2>1, <3>2 DEF Accepted
    <3> QED BY <3>1, <3>2
  <2>2. CASE z # r
    <3>1. msg_tail'[r] = msg_tail[r]
      BY <1>0, <1>3, <2>2 DEF Accepted, Others
    <3> HIDE DEF Stays
    <3> QED BY <1>1, <3>1
  <2> QED BY <2>1, <2>2
<1>4. ASSUME NEW z \in Receiver, Poll(z) PROVE Goal
  <2>1. PICK k \in Index : Polled(z, k)
    BY <1>4, PollFacts
  <2>2. CASE z = r
    BY <2>1, <2>2 DEF Polled
  <2>3. CASE z # r
    <3>1. msg_tail'[r] = msg_tail[r]
      BY <1>0, <1>4, <2>3 DEF Poll
    <3> HIDE DEF Stays
    <3> QED BY <1>1, <3>1
  <2> QED BY <2>2, <2>3
<1>5. ASSUME NEW z \in Receiver, PollSignature(z), z # r PROVE msg_tail'[r] = msg_tail[r]
  BY <1>0, <1>5 DEF PollSignature, handleSignature
<1>6. /\ Broadcast \/ (\E j \in Index : Sign(j)) \/ UNCHANGED vars
           => msg_tail'[r] = msg_tail[r]
      /\ \A z \in Receiver : \A s \in RegisterIndex :
           PollWrite(z, s) => msg_tail'[r] = msg_tail[r]
  BY DEF Broadcast, Sign, vars, PollWrite
<1>7. ASSUME NEW z \in Receiver,
             \/ PollVerification(z) \/ \E q \in Others(z) : PollEcho(z, q)
             \/ \E j \in Index : PollReads(z, j)
      PROVE  SameKept(r) /\ SameSignatures(r)
  BY <1>0, <1>7, KeptPollEcho, KeptPollVerification, KeptPollReads
<1>8. ASSUME NEW z \in Receiver, PollMessage(z) PROVE Goal
  <2>1. z \in Correct
    BY <1>8 DEF PollMessage, Running
  <2>2. \/ UNCHANGED msg_tail
        \/ \E m \in Sent : Accepted(z, m)
    <3>1. PICK a \in Arriving(messages[z], Broadcaster, Payload, MaxMessages) :
            \/ UNCHANGED msg_tail
            \/ /\ ~Repeated(z, a.msg.index) /\ ~OutOfOrder(z, a.msg.index)
               /\ Accept(z, a.msg)
      BY <1>8 DEF PollMessage
    <3>2. a.msg \in Sent
      BY PolledType
    <3>3. UNCHANGED latest_polled
      BY <1>8 DEF PollMessage
    <3> QED BY <3>1, <3>2, <3>3, AcceptFacts
  <2>3. UNCHANGED msg_tail => msg_tail'[r] = msg_tail[r]
    OBVIOUS
  <2> HIDE DEF Stays
  <2> QED BY <1>1, <1>3, <2>1, <2>2, <2>3
<1> HIDE DEF Stays
<1>9. Stays => Goal
  OBVIOUS
<1>10. ASSUME NEW z \in Receiver, PollSignature(z) PROVE Goal
  BY <1>1, <1>5, <1>10
<1> HIDE DEF Goal
<1>11. ASSUME NEW z \in Receiver,
              \/ PollMessage(z) \/ PollSignature(z) \/ PollVerification(z) \/ Poll(z)
              \/ \E p \in Others(z) : PollEcho(z, p)
              \/ \E y \in RegisterIndex : PollWrite(z, y)
              \/ \E j \in Index : PollReads(z, j)
       PROVE  Goal
  BY <1>1, <1>2, <1>4, <1>6, <1>7, <1>8, <1>9, <1>10, <1>11
<1>12. ASSUME Broadcast \/ (\E j \in Index : Sign(j)) \/ UNCHANGED vars PROVE Goal
  <2>1. msg_tail'[r] = msg_tail[r]
    BY <1>6, <1>12
  <2> QED BY <1>1, <1>9, <2>1
<1>13. Goal
  BY <1>11, <1>12 DEF Next
<1> QED BY <1>13 DEF Goal, Stays

(* A signature that was seen on a link stays there.                         *)
LEMMA SignatureStaysSeen ==
  ASSUME Assumption, TypeOK, SenderInv, SignaturesSent, faulty # Broadcaster,
         [Next]_vars, NEW r \in Receiver, NEW p \in 1..signatures[r].seen
  PROVE  /\ p \in 1..signatures'[r].seen
         /\ signatures'[r].sent[p] = signatures[r].sent[p]
<1>1. /\ signatures[r] \in Link /\ signatures[r].seen \in Nat
      /\ Len(signatures[r].sent) \in Nat
  BY DEF TypeOK, Link
<1>2. signatures[r].seen <= Len(signatures[r].sent)
  BY DEF SignaturesSent
<1>3. ASSUME NEW m \in Sent, signatures'[r] = SendOn(signatures[r], m)
      PROVE  /\ p \in 1..signatures'[r].seen
             /\ signatures'[r].sent[p] = signatures[r].sent[p]
  <2>1. /\ SendOn(signatures[r], m).seen = signatures[r].seen
        /\ \A k \in 1..Len(signatures[r].sent) :
             SendOn(signatures[r], m).sent[k] = signatures[r].sent[k]
    BY <1>1, SendFacts
  <2>2. p \in 1..Len(signatures[r].sent)
    BY <1>1, <1>2
  <2> QED BY <1>3, <2>1, <2>2
<1>4. ASSUME signatures'[r].sent = signatures[r].sent,
             \/ signatures'[r].seen = signatures[r].seen
             \/ signatures'[r].seen > signatures[r].seen /\ signatures'[r].seen \in Nat
      PROVE  /\ p \in 1..signatures'[r].seen
             /\ signatures'[r].sent[p] = signatures[r].sent[p]
  BY <1>1, <1>4
<1> QED BY <1>3, <1>4, StepSignatures

(* What a receiver polls on the link of signatures.                         *)
LEMMA HonestSignature ==
  ASSUME Assumption, TypeOK, SenderInv, AcceptedSent, SignaturesSent, SignaturesSeen,
         faulty # Broadcaster, NEW r \in Correct,
         NEW a \in Arriving(signatures[r], Broadcaster, Payload \cup {Garbage},
                            MaxSignatures)
  PROVE  a.msg.index \in Kept(r) =>
           /\ a.msg.value = msg_tail[r][a.msg.index].value
           /\ msg_tail[r][a.msg.index].signature = None
<1>1. r \in Receiver
  BY DEF Correct
<1>2. /\ a.at \in Nat /\ a.at > signatures[r].seen
      /\ a.at <= Len(signatures[r].sent) /\ a.msg = signatures[r].sent[a.at]
  BY <1>1, PolledType
<1>3. /\ signatures[r].seen \in Nat /\ Len(signatures[r].sent) \in Nat
  BY <1>1 DEF TypeOK, Link
<1>4. a.at \in 1..Len(signatures[r].sent)
  BY <1>2, <1>3
<1>5. SUFFICES ASSUME a.msg.index \in Kept(r)
               PROVE  /\ a.msg.value = msg_tail[r][a.msg.index].value
                      /\ msg_tail[r][a.msg.index].signature = None
  OBVIOUS
<1>6. a.msg.value = Original(r, a.msg.index).value
  BY <1>1, <1>2, <1>4 DEF SignaturesSent
<1>7. msg_tail[r][a.msg.index].value = Original(r, a.msg.index).value
  BY <1>5 DEF AcceptedSent
<1>8. msg_tail[r][a.msg.index].signature = None
  <2>1. SUFFICES ASSUME msg_tail[r][a.msg.index].signature # None PROVE FALSE
    OBVIOUS
  <2>2. PICK p \in 1..signatures[r].seen : signatures[r].sent[p].index = a.msg.index
    BY <1>5, <2>1 DEF SignaturesSeen
  <2>3. signatures[r].seen <= Len(signatures[r].sent)
    BY <1>1 DEF SignaturesSent
  <2>4. p \in 1..Len(signatures[r].sent) /\ p # a.at
    BY <1>2, <1>3, <2>3
  <2>5. p = a.at
    BY <1>1, <1>2, <1>4, <2>2, <2>4 DEF SignaturesSent
  <2> QED BY <2>4, <2>5
<1> QED BY <1>6, <1>7, <1>8

LEMMA NextSignaturesSeen ==
  ASSUME Assumption, TypeOK, SenderInv, AcceptedSent, SignaturesSent, SignaturesSeen,
         faulty # Broadcaster, [Next]_vars
  PROVE  SignaturesSeen'
<1>0. Correct' = Correct
  BY StepKept DEF Correct
<1>1. SUFFICES ASSUME NEW r \in Correct, NEW i \in Kept(r)',
                      msg_tail'[r][i].signature # None
               PROVE  /\ msg_tail'[r][i].signature = msg_tail'[r][i].value
                      /\ \E p \in 1..signatures'[r].seen :
                           signatures'[r].sent[p].index = i
  BY <1>0 DEF SignaturesSeen
<1> DEFINE Goal == /\ msg_tail'[r][i].signature = msg_tail'[r][i].value
                   /\ \E p \in 1..signatures'[r].seen :
                        signatures'[r].sent[p].index = i
<1>2. r \in Receiver
  BY DEF Correct
<1>3. ASSUME i \in Kept(r), msg_tail'[r][i].signature = msg_tail[r][i].signature,
             msg_tail'[r][i].value = msg_tail[r][i].value
      PROVE  Goal
  <2>1. /\ msg_tail[r][i].signature = msg_tail[r][i].value
        /\ \E p \in 1..signatures[r].seen : signatures[r].sent[p].index = i
    BY <1>1, <1>3 DEF SignaturesSeen
  <2>2. PICK p \in 1..signatures[r].seen : signatures[r].sent[p].index = i
    BY <2>1
  <2>3. p \in 1..signatures'[r].seen /\ signatures'[r].sent[p] = signatures[r].sent[p]
    BY <1>2, SignatureStaysSeen
  <2> QED BY <1>3, <2>1, <2>2, <2>3
<1>4. ASSUME PollSignature(r) PROVE Goal
  <2>1. PICK a \in Arriving(signatures[r], Broadcaster, Payload \cup {Garbage},
                       MaxSignatures) :
          /\ signatures' = [signatures EXCEPT ![r].seen = a.at]
          /\ handleSignature(r, a.msg)
    BY <1>4 DEF PollSignature
  <2>2. /\ a.at \in Nat /\ a.at > signatures[r].seen /\ signatures[r].seen \in Nat
        /\ a.msg = signatures[r].sent[a.at] /\ a.msg \in Echo
    BY <1>2, PolledType DEF TypeOK, Link
  <2>3. CASE msg_tail' = msg_tail
    BY <1>3, <2>3 DEF Kept
  <2>4. CASE /\ a.msg.index \in Kept(r) /\ msg_tail[r][a.msg.index].signature = None
             /\ msg_tail' = [msg_tail EXCEPT ![r][a.msg.index].signature = a.msg.value]
    <3>1. PICK j \in Kept(r) : j = a.msg.index
      BY <2>4
    <3>2. msg_tail[r][j] \in MessageData /\ a.msg.value \in Value
      BY <1>2, <2>2 DEF TypeOK, Echo, Value
    <3>3. PICK d \in MessageData : d = [msg_tail[r][j] EXCEPT !.signature = a.msg.value]
      BY <3>2 DEF MessageData
    <3>4. msg_tail' = [msg_tail EXCEPT ![r][j] = d] /\ d.signature = a.msg.value
      BY <2>4, <3>1, <3>2, <3>3 DEF MessageData
    <3>5. /\ Kept(r)' = Kept(r) /\ msg_tail'[r][j] = d
          /\ \A k \in Kept(r) : k # j => msg_tail'[r][k] = msg_tail[r][k]
      <4>1. msg_tail'[r] = [msg_tail[r] EXCEPT ![j] = d]
        BY <1>2, <3>4 DEF TypeOK
      <4> QED BY <4>1 DEF Kept
    <3>6. CASE i # j
      BY <1>3, <3>5, <3>6
    <3>7. CASE i = j
      <4>1. a.msg.value = msg_tail[r][j].value
        BY <3>1, HonestSignature
      <4>2. signatures'[r].seen = a.at /\ signatures'[r].sent = signatures[r].sent
        BY <1>2, <2>1 DEF TypeOK, Link
      <4>3. a.at \in 1..signatures'[r].seen /\ signatures'[r].sent[a.at].index = i
        BY <2>2, <3>1, <3>7, <4>2
      <4>4. msg_tail'[r][j].value = msg_tail[r][j].value
        BY <3>2, <3>3, <3>5 DEF MessageData
      <4> QED BY <3>4, <3>5, <3>7, <4>1, <4>3, <4>4
    <3> QED BY <3>6, <3>7
  <2> QED BY <2>1, <2>3, <2>4 DEF handleSignature
<1> QED BY <1>1, <1>3, <1>4, StepSigned

(* The registers of correct receivers hold the value that was sent.         *)
LEMMA HonestRegister ==
  ASSUME Assumption, TypeOK, SenderInv, AcceptedSent, WrittenEchoed, faulty # Broadcaster,
         NEW q \in Correct, NEW p \in Correct \cap Others(q), NEW i \in Index,
         NEW u \in Value, Wrote(p, i, u), i \in Kept(q)
  PROVE  u = msg_tail[q][i].value
<1>1. p \in Receiver /\ q \in Receiver /\ q \in Others(p) /\ i \in Nat
  BY EchoFacts DEF Correct, Others
<1>2. EchoedTo(p, q, i, u)
  BY <1>1 DEF WrittenEchoed, Echoed
<1>3. PICK k \in 1..Len(echoes[q][p].sent) : echoes[q][p].sent[k] = Message(i, u)
  BY <1>2 DEF EchoedTo
<1>4. i < next_index /\ u = Original(p, i).value
  BY <1>1, <1>3 DEF AcceptedSent, Message
<1>5. msg_tail[q][i].value = Original(q, i).value
  BY DEF AcceptedSent
<1> QED BY <1>1, <1>4, <1>5, SentValues

LEMMA NextNoEquivocation ==
  ASSUME Assumption, Inv, AcceptedSent, NoEquivocation, faulty # Broadcaster,
         faulty \notin Receiver, [Next]_vars
  PROVE  NoEquivocation'
<1>0. TypeOK /\ SenderInv /\ RegistersSound /\ WrittenEchoed /\ ReadsDone
  BY DEF Inv
<1>1. Correct' = Correct
  BY <1>0, StepKept DEF Correct
<1>2. SUFFICES ASSUME NEW q \in Correct, NEW t \in verifying'[q], t.origin = "register",
                      t.ok, dead'[q] = None
               PROVE  FALSE
  BY <1>1 DEF NoEquivocation
<1>3. q \in Receiver /\ verifying[q] \subseteq Task /\ Kept(q) \subseteq Index
  BY <1>0 DEF Correct, TypeOK
<1>4. CASE t \in verifying[q]
  BY <1>0, <1>2, <1>3, <1>4, StepDead DEF NoEquivocation
<1>5. ASSUME t \notin verifying[q], t.index \in Kept(q), PollReads(q, t.index)
      PROVE  FALSE
  <2>1. PICK i \in Kept(q) : i = t.index
    BY <1>5
  <2>2. i \in Index /\ Incarnation(i) \in Nat /\ i % TailSize \in RegisterIndex
    BY <1>3, <2>1, SlotFacts
  <2>3. PICK D, x : Reads(q, i, D, x)
    BY <1>0, <1>5, <2>1, <2>2, ReadsFacts
  <2>4. t \in Suspects(q, i, D, x)
    <3>1. verifying' = [verifying EXCEPT ![q] = @ \cup Suspects(q, i, D, x)]
      BY <2>3 DEF Reads, Pass
    <3>2. verifying'[q] = verifying[q] \cup Suspects(q, i, D, x)
      BY <1>0, <1>3, <3>1 DEF TypeOK
    <3> QED BY <1>2, <1>5, <3>2
  <2>5. PICK p \in D : /\ ~Safe(q, i, x[p]) /\ x[p].value # Garbage
    <3>1. PICK p \in UnsafeOnes(q, i, D, x) :
            t = [index |-> i, origin |-> "register", ok |-> x[p].value # Garbage]
      BY <2>4 DEF Suspects
    <3>2. t.ok <=> x[p].value # Garbage
      BY <3>1
    <3>3. p \in D /\ ~Safe(q, i, x[p])
      BY DEF UnsafeOnes, SafeOnes
    <3> QED BY <1>2, <3>2, <3>3
  <2> DEFINE log == Slot(p, i).log
             floor == outstanding_reads[q][i][p]
  <2>6. /\ p \in Others(q) /\ floor # 0 /\ x[p] \in Results(p, i, floor)
        /\ i \in DOMAIN outstanding_reads[q]
    BY <2>3 DEF Reads, Pass
  <2>7. p \in Correct /\ p \in Receiver
    BY <2>6 DEF Correct, Others
  <2>8. PICK k \in floor..Len(log) : x[p] = log[k]
    BY <2>6, <2>7 DEF Results, Slot, Correct
  <2>9. k \in 1..Len(log)
    <3>1. outstanding_reads[q][i] \in [Others(q) -> Nat]
      BY <1>0, <1>3, <2>6 DEF TypeOK
    <3>2. floor \in Nat /\ Len(log) \in Nat
      BY <1>0, <2>2, <2>6, <2>7, <3>1, RegisterType DEF Slot
    <3> QED BY <2>6, <3>2
  <2>10. log[k].inc \in Nat /\ log[k].value \in Value
    BY <1>0, <2>2, <2>7, <2>9, RegisterType DEF Slot
  <2>11. ~(x[p].inc > Incarnation(i))
    <3>1. SUFFICES ASSUME x[p].inc > Incarnation(i) PROVE FALSE
      OBVIOUS
    <3>2. dead' = [dead EXCEPT ![q] = "recycled"]
      BY <2>3, <3>1 DEF Reads, Pass
    <3> QED BY <1>0, <1>2, <1>3, <3>2 DEF TypeOK, None
  <2>12. log[k].inc = Incarnation(i) /\ log[k].value # msg_tail[q][i].signature
    BY <2>2, <2>5, <2>8, <2>10, <2>11 DEF Safe
  <2>13. log[k].value = msg_tail[q][i].value
    <3>1. Wrote(p, i, log[k].value)
      BY <2>9, <2>12 DEF Wrote, Holds
    <3> HIDE DEF log
    <3> QED BY <1>0, <2>2, <2>6, <2>7, <2>10, <3>1, HonestRegister
  <2>14. msg_tail[q][i].signature = msg_tail[q][i].value
    <3>1. Done(q, i)
      BY <1>0, <2>6 DEF ReadsDone
    <3>2. PICK j \in 1..Len(Slot(q, i).log) : Slot(q, i).log[j].inc = Incarnation(i)
      BY <3>1 DEF Done
    <3>3. Slot(q, i).log[j].value \in Value
      BY <1>0, <1>3, <2>2, <3>2, RegisterType DEF Slot
    <3>4. Wrote(q, i, Slot(q, i).log[j].value)
      BY <3>2 DEF Wrote, Holds
    <3> QED BY <1>0, <2>2, <3>3, <3>4 DEF WrittenEchoed
  <2> QED BY <2>12, <2>13, <2>14
<1> QED BY <1>0, <1>2, <1>4, <1>5, StepTasks

(* A receiver accuses another only of an echo out of order or repeated.     *)
LEMMA HonestEcho ==
  ASSUME Assumption, Inv, faulty \notin Receiver, NEW r \in Correct, NEW q \in Others(r),
         PollEcho(r, q)
  PROVE  UNCHANGED dead
<1>1. TypeOK /\ EchoesOrdered /\ EchoesSeen
  BY DEF Inv
<1>2. /\ r \in Receiver /\ q \in Correct \cap Others(r) /\ q # faulty /\ r \in Others(q)
  BY DEF Correct, Others
<1>3. PICK a \in Arriving(echoes[r][q], q, Payload \cup {Garbage}, MaxEchoes) :
        handleEcho(r, q, a.msg)
  BY DEF PollEcho
<1> DEFINE sent == echoes[r][q].sent
           seen == echoes[r][q].seen
           buffer == buffered_echoes[r][q]
<1>4. /\ a.at \in Nat /\ a.at > seen /\ a.at <= Len(sent) /\ a.msg = sent[a.at]
  BY <1>1, <1>2, PolledType
<1>5. /\ Len(sent) \in Nat /\ seen \in Nat
      /\ \A p \in 1..Len(sent) : sent[p] \in Sent
  BY <1>1, <1>2, EchoLink
<1>6. Increasing(sent) /\ BufferSeen(r, q) /\ CountedSeen(r, q)
  BY <1>1, <1>2 DEF EchoesOrdered, EchoesSeen
<1>7. ASSUME NEW p \in 1..seen PROVE sent[p].index < a.msg.index
  <2>1. p \in 1..Len(sent) /\ a.at \in 1..Len(sent) /\ p < a.at
    BY <1>4, <1>5
  <2> QED BY <1>4, <1>6, <2>1 DEF Increasing
<1>8. \A p \in 1..seen : sent[p].index \in Nat
  <2>1. \A p \in 1..seen : p \in 1..Len(sent)
    BY <1>4, <1>5
  <2> QED BY <1>5, <2>1, EchoFacts
<1>9. a.msg.index \in Nat
  BY <1>4, <1>5, EchoFacts
<1>10. a.msg.index \in Kept(r) => q \notin msg_tail[r][a.msg.index].echoes
  <2>1. SUFFICES ASSUME a.msg.index \in Kept(r), q \in msg_tail[r][a.msg.index].echoes
                 PROVE  FALSE
    OBVIOUS
  <2>2. PICK p \in 1..seen : sent[p].index = a.msg.index
    BY <1>6, <2>1 DEF CountedSeen
  <2> QED BY <1>7, <1>9, <2>2
<1>11. buffer # << >> => ~(Last(buffer).index > a.msg.index)
  <2>1. SUFFICES ASSUME buffer # << >> PROVE ~(Last(buffer).index > a.msg.index)
    OBVIOUS
  <2>2. buffer \in Seq(Echo)
    BY <1>1, <1>2 DEF TypeOK
  <2>3. Len(buffer) \in 1..Len(buffer) /\ Last(buffer) = buffer[Len(buffer)]
    BY <2>1, <2>2 DEF Last
  <2>4. PICK p \in 1..seen : sent[p] = Last(buffer)
    BY <1>6, <2>3 DEF BufferSeen
  <2> QED BY <1>7, <1>8, <1>9, <2>4
<1> HIDE DEF buffer
<1> QED BY <1>3, <1>10, <1>11 DEF handleEcho, buffer

LEMMA NextAlarms ==
  ASSUME Assumption, Inv, HonestInv, AlarmsAreReal, [Next]_vars PROVE AlarmsAreReal'
<1>0. /\ TypeOK /\ SenderInv /\ TasksSound /\ faulty' = faulty
      /\ faulty # Broadcaster => /\ AcceptedSent /\ SignaturesSent /\ SignaturesSeen
      /\ faulty = None => NoEquivocation
  BY StepKept DEF Inv, HonestInv
<1>1. dead \in [Receiver -> Cause] /\ Correct' = Correct
  BY <1>0 DEF TypeOK, Correct
<1>2. SUFFICES ASSUME NEW r \in Correct
               PROVE  /\ dead'[r] = "broadcaster" => faulty = Broadcaster
                      /\ dead'[r] = "receiver" => faulty \in Receiver
                      /\ dead'[r] = "equivocation" => faulty # None
  BY <1>0, <1>1 DEF AlarmsAreReal
<1> DEFINE Goal == /\ dead'[r] = "broadcaster" => faulty = Broadcaster
                   /\ dead'[r] = "receiver" => faulty \in Receiver
                   /\ dead'[r] = "equivocation" => faulty # None
<1>3. r \in Receiver
  BY DEF Correct
<1>4. dead' = dead => Goal
  BY DEF AlarmsAreReal
<1>5. ASSUME NEW z \in Receiver, NEW c, dead' = [dead EXCEPT ![z] = c],
             c = "broadcaster" => faulty = Broadcaster,
             c = "receiver" => faulty \in Receiver,
             c = "equivocation" => faulty # None
      PROVE  Goal
  <2>1. CASE z = r
    BY <1>1, <1>3, <1>5, <2>1
  <2>2. CASE z # r
    <3>1. dead'[r] = dead[r]
      BY <1>1, <1>3, <1>5, <2>2
    <3> QED BY <3>1 DEF AlarmsAreReal
  <2> QED BY <2>1, <2>2
<1> HIDE DEF Goal
<1>6. ASSUME NEW z \in Receiver, PollMessage(z) PROVE Goal
  <2>1. z \in Correct
    BY <1>6 DEF PollMessage, Running
  <2>2. PICK a \in Arriving(messages[z], Broadcaster, Payload, MaxMessages) :
          \/ Repeated(z, a.msg.index) /\ dead' = [dead EXCEPT ![z] = "broadcaster"]
          \/ UNCHANGED dead
    BY <1>6 DEF PollMessage, Throw
  <2>3. faulty # Broadcaster => UNCHANGED dead
    BY <1>0, <2>1, <2>2, HonestMessage
  <2> QED BY <1>4, <1>5, <2>2, <2>3
<1>7. ASSUME NEW z \in Receiver, PollSignature(z) PROVE Goal
  <2>1. z \in Correct
    BY <1>7 DEF PollSignature, Running
  <2>2. PICK a \in Arriving(signatures[z], Broadcaster, Payload \cup {Garbage},
                       MaxSignatures) :
          \/ /\ a.msg.index \in Kept(z) /\ msg_tail[z][a.msg.index].signature # None
             /\ dead' = [dead EXCEPT ![z] = "broadcaster"]
          \/ UNCHANGED dead
    BY <1>7 DEF PollSignature, handleSignature, Throw
  <2>3. faulty # Broadcaster => UNCHANGED dead
    BY <1>0, <2>1, <2>2, HonestSignature
  <2> QED BY <1>4, <1>5, <2>2, <2>3
<1>8. ASSUME NEW z \in Receiver, PollVerification(z) PROVE Goal
  <2>1. z \in Correct /\ dead[z] = None
    BY <1>8 DEF PollVerification, Running
  <2>2. PICK t \in verifying[z] :
          \/ UNCHANGED dead
          \/ dead' = [dead EXCEPT ![z] = "recycled"]
          \/ /\ t.index \in Kept(z) /\ t.ok = (t.origin = "register")
             /\ dead' = [dead EXCEPT ![z] = IF t.ok THEN "equivocation"
                                            ELSE "broadcaster"]
    BY <1>8 DEF PollVerification, WriteRegister, Throw
  <2>3. t \in Task /\ t.ok \in BOOLEAN
    BY <1>0, <1>8 DEF TypeOK, Task
  <2>4. ASSUME t.ok, t.index \in Kept(z), t.ok = (t.origin = "register")
        PROVE  faulty # None
    BY <1>0, <2>1, <2>4 DEF NoEquivocation
  <2>5. ASSUME faulty # Broadcaster, ~t.ok, t.index \in Kept(z),
               t.ok = (t.origin = "register")
        PROVE  FALSE
    <3>1. t.origin = "broadcaster"
      BY <2>3, <2>5 DEF Task, Origin
    <3>2. /\ msg_tail[z][t.index].signature # None
          /\ msg_tail[z][t.index].signature # msg_tail[z][t.index].value
      BY <1>0, <2>1, <2>5, <3>1 DEF TasksSound
    <3> QED BY <1>0, <2>1, <2>5, <3>2 DEF SignaturesSeen
  <2>6. CASE /\ t.index \in Kept(z) /\ t.ok = (t.origin = "register") /\ t.ok
             /\ dead' = [dead EXCEPT ![z] = "equivocation"]
    BY <1>5, <2>4, <2>6
  <2>7. CASE /\ t.index \in Kept(z) /\ t.ok = (t.origin = "register") /\ ~t.ok
             /\ dead' = [dead EXCEPT ![z] = "broadcaster"]
    BY <1>5, <2>5, <2>7
  <2>8. CASE UNCHANGED dead \/ dead' = [dead EXCEPT ![z] = "recycled"]
    BY <1>4, <1>5, <2>8
  <2> QED BY <2>2, <2>6, <2>7, <2>8
<1>9. ASSUME NEW z \in Receiver, NEW q \in Others(z), PollEcho(z, q) PROVE Goal
  <2>1. z \in Correct
    BY <1>9 DEF PollEcho, Running
  <2>2. UNCHANGED dead \/ dead' = [dead EXCEPT ![z] = "receiver"]
    BY <1>9 DEF PollEcho, handleEcho, Throw
  <2>3. faulty \notin Receiver => UNCHANGED dead
    BY <1>9, <2>1, HonestEcho
  <2> QED BY <1>4, <1>5, <2>2, <2>3
<1>10. ASSUME NEW z \in Receiver, NEW i \in Index, PollReads(z, i) PROVE Goal
  <2>1. UNCHANGED dead \/ dead' = [dead EXCEPT ![z] = "recycled"]
    BY <1>10, PassFacts DEF Pass
  <2> QED BY <1>4, <1>5, <2>1
<1>11. /\ Broadcast \/ (\E i \in Index : Sign(i)) \/ UNCHANGED vars => dead' = dead
       /\ \A z \in Receiver : Poll(z) => dead' = dead
       /\ \A z \in Receiver : \A s \in RegisterIndex : PollWrite(z, s) => dead' = dead
  BY DEF Broadcast, Sign, vars, Poll, PollWrite
<1>12. ASSUME NEW z \in Receiver,
              \/ PollMessage(z) \/ PollSignature(z) \/ PollVerification(z) \/ Poll(z)
              \/ \E p \in Others(z) : PollEcho(z, p)
              \/ \E y \in RegisterIndex : PollWrite(z, y)
              \/ \E j \in Index : PollReads(z, j)
       PROVE  Goal
  BY <1>4, <1>6, <1>7, <1>8, <1>9, <1>10, <1>11, <1>12
<1>13. Goal
  BY <1>4, <1>11, <1>12 DEF Next
<1> QED BY <1>13 DEF Goal

LEMMA AlarmInit == ASSUME Assumption, Init PROVE AlarmInv
<1>1. AlarmsAreReal
  <2>1. \A r \in Receiver : dead[r] = None
    BY DEF Init
  <2>2. None # "broadcaster" /\ None # "receiver" /\ None # "equivocation"
    BY DEF None
  <2> QED BY <2>1, <2>2 DEF AlarmsAreReal, Correct
<1>2. \A r \in Receiver :
        /\ Kept(r) = {} /\ verifying[r] = {} /\ latest_polled[r] = 0
        /\ messages[r] = EmptyLink /\ signatures[r] = EmptyLink
        /\ \A o \in Others(r) : o \in Receiver /\ echoes[o][r] = EmptyLink
  BY DEF Init, Kept, Empty, Others
<1>3. EmptyLink.sent = << >> /\ EmptyLink.seen = 0 /\ Len(<< >>) = 0
  BY DEF EmptyLink
<1>4. AcceptedSent
  BY <1>2, <1>3 DEF AcceptedSent, Correct
<1>5. SignaturesSent
  BY <1>2, <1>3 DEF SignaturesSent
<1>6. SignaturesSeen /\ NoEquivocation
  BY <1>2 DEF SignaturesSeen, NoEquivocation, Correct
<1> QED BY <1>1, <1>4, <1>5, <1>6 DEF AlarmInv, HonestInv

LEMMA AlarmNext == ASSUME Assumption, Inv, AlarmInv, [Next]_vars PROVE AlarmInv'
<1>1. /\ TypeOK /\ SenderInv /\ faulty' = faulty
      /\ HonestInv /\ AlarmsAreReal
  BY StepKept DEF Inv, AlarmInv
<1>2. TypeOK'
  BY <1>1, TypeNext
<1>3. AlarmsAreReal'
  BY <1>1, NextAlarms
<1>4. ASSUME faulty # Broadcaster
      PROVE  AcceptedSent' /\ SignaturesSent' /\ SignaturesSeen'
  <2>1. AcceptedSent /\ SignaturesSent /\ SignaturesSeen
    BY <1>1, <1>4 DEF HonestInv
  <2> QED BY <1>1, <1>2, <1>4, <2>1, NextAcceptedSent, NextSignaturesSent,
             NextSignaturesSeen
<1>5. ASSUME faulty = None PROVE NoEquivocation'
  <2>1. faulty # Broadcaster /\ faulty \notin Receiver
    BY <1>5 DEF Assumption
  <2>2. AcceptedSent /\ NoEquivocation
    BY <1>1, <1>5, <2>1 DEF HonestInv
  <2> QED BY <2>1, <2>2, NextNoEquivocation
<1> QED BY <1>1, <1>3, <1>4, <1>5 DEF AlarmInv, HonestInv

(* A receiver that throws because of the broadcaster or of another receiver *)
(* is right: that process is faulty; it finds an equivocation only if some  *)
(* process is faulty, though a replayed signature may make it blame the     *)
(* wrong one (the throws of tail-cb/receiver.hpp).                          *)
THEOREM AccusationsAreReal == Assumption => (Spec => []AlarmsAreReal)
<1> SUFFICES ASSUME Assumption PROVE Spec => []AlarmsAreReal
  OBVIOUS
<1>1. Init => Inv /\ AlarmInv
  BY InvInit, AlarmInit
<1>2. Inv /\ AlarmInv /\ [Next]_vars => Inv' /\ AlarmInv'
  BY InvNext, AlarmNext
<1>3. AlarmInv => AlarmsAreReal
  BY DEF AlarmInv
<1> QED BY <1>1, <1>2, <1>3, PTL DEF Spec
=============================================================================
