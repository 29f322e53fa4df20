------------------------------ MODULE RpcProofs ------------------------------
(***************************************************************************)
(* The RPC layer, for any number of servers and clients, any windows and   *)
(* any number of requests:                                                 *)
(*   CreditsAreExact: what a server counts as outstanding towards another  *)
(*     is exactly what is on its way, so no link overwrites;               *)
(*   RequestsAreOrdered: a client's requests are accepted and proposed in  *)
(*     increasing order, none twice;                                       *)
(*   FastProposalsAreAccepted: on the fast path the leader proposes only   *)
(*     what every server accepted;                                         *)
(*   ResultsAreAnswered: a client gets, in order, results that a majority  *)
(*     computed.                                                           *)
(* An echo was accepted by its sender wherever it is, on the link,         *)
(* buffered or counted (IngressOK).  A server answers a request once, in   *)
(* the order of the log, so the responses gathered for a request are no    *)
(* more than the servers that executed it and answered it (WaitingOK).     *)
(***************************************************************************)
EXTENDS Rpc, FiniteSetTheorems, SequenceTheorems, WellFoundedInduction, TLAPS

Assumption ==
  /\ Server \subseteq Nat /\ Server # {} /\ IsFiniteSet(Server)
  /\ Window \in Nat \ {0} /\ ServerWindow \in Nat \ {0}

Values == UNION {Value[p] : p \in Paths}
Request == [client : Client, id : Nat, value : Values]
Result == [id : Nat, result : Nat]
EntryRecord == [value : Values, echoes : SUBSET Server, signed : BOOLEAN]
Entries == UNION {[D -> EntryRecord] : D \in SUBSET Nat}
Ingress == [requests : Entries, min : Nat, buffered : [Server -> Seq(Request)],
            below : Nat, received : Nat, proposable : Nat, relay : [Server -> Nat]]
Waiting == UNION {[D -> Seq(Nat)] : D \in SUBSET Nat}

ClientTypes ==
  /\ next_request \in [Client -> Nat]
  /\ waiting \in [Client -> Waiting]
  /\ next_response \in [Client -> [Server -> Nat]]
  /\ answers \in [Client -> Seq(Result)]
  /\ signing \in [Client -> Seq([Server -> Request])]
LinkTypes ==
  /\ to_server \in [Client -> [Server -> Seq(Request)]]
  /\ to_client \in [Server -> [Client -> Seq(Result)]]
  /\ echo_link \in [Server -> [Server -> Seq(Request)]]
  /\ ack_link \in [Server -> [Server -> Seq(Nat)]]
  /\ outstanding \in [Server -> [Server -> Nat]]
ServerTypes ==
  /\ ingress \in [Server -> [Client -> Ingress]]
  /\ verifying \in [Server -> [Client -> [Source -> Seq(Request)]]]
  /\ verified \in [Server -> [Client -> Seq(Request)]]
  /\ connected \in [Server -> SUBSET Client]
  /\ accepted \in [Server -> Seq(Request)]
  /\ log \in Seq(Request)
  /\ executed \in [Server -> Nat]
TypeOK == path \in Paths /\ ClientTypes /\ LinkTypes /\ ServerTypes

(* Requests of client c are in increasing order, all below n. *)
InOrder(q, c, n) ==
  /\ \A i \in 1..Len(q) : q[i].client = c => q[i].id < n
  /\ \A i, j \in 1..Len(q) :
       i < j /\ q[i].client = c /\ q[j].client = c => q[i].id < q[j].id

Among(q, r) == \E i \in 1..Len(q) : q[i] = r

(* What s keeps of c: what it received it accepted, and what it counts or   *)
(* buffers as an echo of f was accepted by f.                               *)
IngressOK(s, c, in, acc) ==
  /\ DOMAIN in.requests = {} => in.received = 0
  /\ DOMAIN in.requests # {} =>
       /\ in.min \in DOMAIN in.requests /\ in.received <= in.min + 1
       /\ \A id \in DOMAIN in.requests : id <= in.min
  /\ \A id \in DOMAIN in.requests :
       /\ id < in.received => Among(acc[s], Req(c, id, in.requests[id].value))
       /\ \A f \in in.requests[id].echoes :
            Among(acc[f], Req(c, id, in.requests[id].value))
  /\ \A f \in Server : \A i \in 1..Len(in.buffered[f]) :
       /\ in.buffered[f][i].client = c
       /\ Among(acc[f], in.buffered[f][i])
IngressKept ==
  \A s \in Server, c \in Client : IngressOK(s, c, ingress[s][c], accepted)
EchoesAccepted ==
  \A s \in Server : \A i \in 1..Len(echo_link[s][Leader]) :
    Among(accepted[s], echo_link[s][Leader][i])
Ordered ==
  \A c \in Client :
    /\ \A s \in Server : InOrder(accepted[s], c, ingress[s][c].received)
    /\ InOrder(log, c, ingress[Leader][c].proposable)

(* The place of a request in the log. *)
Place(c, id, p) == p \in 1..Len(log) /\ log[p].client = c /\ log[p].id = id

ExecutedInLog == \A s \in Server : executed[s] <= Len(log)
(* The responses on the link from s to c, and the last that c polled. *)
ResponsesOK(s, c) ==
  /\ \A i \in 1..Len(to_client[s][c]) :
       /\ Place(c, to_client[s][c][i].id, to_client[s][c][i].result)
       /\ to_client[s][c][i].result <= executed[s]
       /\ next_response[c][s] <= to_client[s][c][i].id
  /\ \A i, j \in 1..Len(to_client[s][c]) :
       i < j => to_client[s][c][i].id < to_client[s][c][j].id
  /\ next_response[c][s] = 0 \/
       \E p \in 1..executed[s] : Place(c, next_response[c][s] - 1, p)

(* The servers whose response to request id of c was polled or lost. *)
Answerers(c, id) ==
  {s \in Server : /\ next_response[c][s] > id
                  /\ \E p \in 1..executed[s] : Place(c, id, p)}
WaitingOK(c) ==
  \A id \in DOMAIN waiting[c] :
    /\ id < next_request[c]
    /\ \A i \in 1..Len(waiting[c][id]) : Place(c, id, waiting[c][id][i])
    /\ Len(waiting[c][id]) <= Cardinality(Answerers(c, id))
AnswersOK(c) ==
  \A i \in 1..Len(answers[c]) :
    /\ Place(c, answers[c][i].id, answers[c][i].result)
    /\ Cardinality({s \in Server : executed[s] >= answers[c][i].result}) >= Quorum
    /\ answers[c][i].id < next_request[c]
    /\ \A id \in DOMAIN waiting[c] : answers[c][i].id < id
    /\ \A j \in 1..Len(answers[c]) : i < j => answers[c][i].id < answers[c][j].id

FastAccepted ==
  path = "fast" =>
    \A i \in 1..Len(log), s \in Server : Among(accepted[s], log[i])

(* What a server counts as outstanding is on one of the two links.          *)
CreditsOK ==
  /\ CreditsBalance
  /\ \A s, t \in Server : \A i \in 1..Len(ack_link[t][s]) : ack_link[t][s][i] >= 1

ServerInv == IngressKept /\ EchoesAccepted /\ Ordered /\ FastAccepted
ClientInv ==
  /\ ExecutedInLog
  /\ \A s \in Server, c \in Client : ResponsesOK(s, c)
  /\ \A c \in Client : WaitingOK(c) /\ AnswersOK(c)
Inv == TypeOK /\ ServerInv /\ ClientInv /\ CreditsOK

-----------------------------------------------------------------------------
(* Numbers and sequences *)

LEMMA LeastNat ==
  ASSUME NEW S \in SUBSET Nat, S # {}
  PROVE  \E n \in S : \A m \in S : n <= m
<1> DEFINE R == {x \in Nat \X Nat : x[1] < x[2]}
<1>1. IsWellFoundedOn(R, Nat)
  BY NatLessThanWellFounded DEF OpToRel
<1>2. PICK n \in S : \A m \in S : <<m, n>> \notin R
  <2> HIDE DEF R
  <2> QED BY <1>1, WFMin
<1>3. \A m \in S : ~(m < n)
  BY <1>2
<1> QED BY <1>3

(* What holds of 0 and of the successor of every number it holds of. *)
LEMMA UpTo ==
  ASSUME NEW n \in Nat, NEW T, 0 \in T, \A i \in 0..n : i < n /\ i \in T => i + 1 \in T
  PROVE  \A i \in 0..n : i \in T
<1> DEFINE Bad == {i \in 0..n : i \notin T}
<1>1. SUFFICES ASSUME Bad # {} PROVE FALSE
  OBVIOUS
<1>2. PICK i \in Bad : \A j \in Bad : i <= j
  <2>1. Bad \in SUBSET Nat
    OBVIOUS
  <2> HIDE DEF Bad
  <2> QED BY <1>1, <2>1, LeastNat
<1>3. i \in 1..n /\ i - 1 \in 0..n /\ i - 1 < n
  OBVIOUS
<1>4. i - 1 \notin Bad
  <2> HIDE DEF Bad
  <2> QED BY <1>2, <1>3
<1> QED BY <1>3, <1>4

LEMMA LeaderServes == Assumption => Leader \in Server
<1> SUFFICES ASSUME Assumption PROVE Leader \in Server
  OBVIOUS
<1>1. \E s \in Server : \A t \in Server : s <= t
  BY LeastNat DEF Assumption
<1> QED BY <1>1 DEF Leader

(* A link gains the message, and may lose its oldest one. *)
LEMMA SendProperties ==
  ASSUME NEW S, NEW q \in Seq(S), NEW m \in S, NEW n \in Nat \ {0}
  PROVE  /\ Send(q, m, n) \in Seq(S)
         /\ \E d \in {0, 1} :
              /\ d <= Len(q) /\ Len(Send(q, m, n)) = Len(q) + 1 - d
              /\ d = 0 <=> Len(q) < n
              /\ \A i \in 1..(Len(q) - d) : Send(q, m, n)[i] = q[i + d]
              /\ Send(q, m, n)[Len(q) + 1 - d] = m
<1>1. CASE Len(q) < n
  <2>1. Send(q, m, n) = Append(q, m)
    BY <1>1 DEF Send
  <2>2. \A i \in 1..(Len(q) - 0) : Append(q, m)[i] = q[i + 0]
    OBVIOUS
  <2> QED BY <1>1, <2>1, <2>2, AppendProperties
<1>2. CASE ~(Len(q) < n)
  <2>1. Send(q, m, n) = Append(Tail(q), m)
    BY <1>2 DEF Send
  <2>2. q # << >> /\ Len(q) \in Nat /\ Len(q) >= 1
    BY <1>2
  <2>3. Tail(q) \in Seq(S) /\ Len(Tail(q)) = Len(q) - 1
        /\ \A i \in 1..(Len(q) - 1) : Tail(q)[i] = q[i + 1]
    BY <2>2
  <2> DEFINE t == Tail(q)
  <2>4. /\ Append(t, m) \in Seq(S) /\ Len(Append(t, m)) = Len(t) + 1
        /\ \A i \in 1..Len(t) : Append(t, m)[i] = t[i]
        /\ Append(t, m)[Len(t) + 1] = m
    <3> HIDE DEF t
    <3> QED BY <2>3, AppendProperties DEF t
  <2>5. t \in Seq(S) /\ Len(t) = Len(q) - 1 /\ \A i \in 1..(Len(q) - 1) : t[i] = q[i + 1]
    BY <2>3
  <2> DEFINE u == Send(q, m, n)
  <2>6. u = Append(t, m)
    BY <2>1
  <2> HIDE DEF t, u
  <2>7. /\ u \in Seq(S) /\ Len(u) = Len(q) + 1 - 1
        /\ \A i \in 1..(Len(q) - 1) : u[i] = q[i + 1]
        /\ u[Len(q) + 1 - 1] = m
    BY <2>2, <2>4, <2>5, <2>6
  <2> QED BY <1>2, <2>2, <2>7 DEF u
<1> QED BY <1>1, <1>2

LEMMA WithoutProperties ==
  ASSUME NEW S, NEW q \in Seq(S), NEW i \in DOMAIN q
  PROVE  Without(q, i) \in Seq(S)
<1>1. SubSeq(q, 1, i - 1) \in Seq(S) /\ SubSeq(q, i + 1, Len(q)) \in Seq(S)
  <2>1. \A j \in 1..(i - 1) : q[j] \in S
    BY ElementOfSeq
  <2>2. \A j \in (i + 1)..Len(q) : q[j] \in S
    BY ElementOfSeq
  <2> QED BY <2>1, <2>2, SubSeqProperties
<1> QED BY <1>1, ConcatProperties DEF Without

LEMMA DropProperties ==
  ASSUME NEW S, NEW q \in Seq(S), NEW n \in 0..Len(q)
  PROVE  /\ SubSeq(q, n + 1, Len(q)) \in Seq(S)
         /\ Len(SubSeq(q, n + 1, Len(q))) = Len(q) - n
         /\ \A i \in 1..(Len(q) - n) : SubSeq(q, n + 1, Len(q))[i] = q[n + i]
<1>1. \A j \in (n + 1)..Len(q) : q[j] \in S
  BY ElementOfSeq
<1>2. n + 1 \in Int /\ Len(q) \in Int
  OBVIOUS
<1> DEFINE u == SubSeq(q, n + 1, Len(q))
<1>3. /\ u \in Seq(S) /\ Len(u) = IF n + 1 <= Len(q) THEN Len(q) - (n + 1) + 1 ELSE 0
      /\ \A i \in 1..(Len(q) - (n + 1) + 1) : u[i] = q[n + 1 + i - 1]
  BY <1>1, <1>2, SubSeqProperties
<1>4. /\ Len(q) - (n + 1) + 1 = Len(q) - n
      /\ \A i \in 1..(Len(q) - n) : n + 1 + i - 1 = n + i
  OBVIOUS
<1> HIDE DEF u
<1>5. Len(u) = Len(q) - n
  <2>1. CASE n + 1 <= Len(q)
    BY <1>3, <1>4, <2>1
  <2>2. CASE ~(n + 1 <= Len(q))
    <3>1. Len(q) - n = 0
      BY <2>2
    <3> QED BY <1>3, <2>2, <3>1
  <2> QED BY <2>1, <2>2
<1>6. ASSUME NEW i \in 1..(Len(q) - n) PROVE u[i] = q[n + i]
  <2>1. i \in 1..(Len(q) - (n + 1) + 1) /\ n + 1 + i - 1 = n + i
    BY <1>2
  <2>2. u[i] = q[n + 1 + i - 1]
    BY <1>3, <2>1
  <2> QED BY <2>1, <2>2
<1> QED BY <1>3, <1>5, <1>6 DEF u

LEMMA TailProperties ==
  ASSUME NEW S, NEW q \in Seq(S), q # << >>
  PROVE  /\ Head(q) \in S /\ Head(q) = q[1] /\ Len(q) \in Nat \ {0}
         /\ Tail(q) \in Seq(S) /\ Len(Tail(q)) = Len(q) - 1
         /\ \A i \in 1..(Len(q) - 1) : Tail(q)[i] = q[i + 1]
OBVIOUS
-----------------------------------------------------------------------------
(* What a server keeps of a client *)

LEMMA EntriesAre ==
  \A m : m \in Entries <=>
           DOMAIN m \in SUBSET Nat /\ m \in [DOMAIN m -> EntryRecord]
BY DEF Entries, EntryRecord

LEMMA WithKeyProperties ==
  ASSUME NEW m, NEW id, NEW e, NEW w, w = WithKey(m, id, e)
  PROVE  /\ w = [i \in DOMAIN w |-> w[i]]
         /\ id \in DOMAIN w /\ w[id] = e
         /\ \A i \in DOMAIN w : i # id => i \in DOMAIN m /\ w[i] = m[i]
BY DEF WithKey, Near

LEMMA EntryAdded ==
  ASSUME NEW m \in Entries, NEW id \in Nat, NEW e \in EntryRecord,
         NEW w, w = WithKey(m, id, e)
  PROVE  w \in Entries
<1>1. DOMAIN m \in SUBSET Nat /\ m \in [DOMAIN m -> EntryRecord]
  BY EntriesAre
<1>2. /\ w = [i \in DOMAIN w |-> w[i]]
      /\ id \in DOMAIN w /\ w[id] = e
      /\ \A i \in DOMAIN w : i # id => i \in DOMAIN m /\ w[i] = m[i]
  BY WithKeyProperties
<1>3. DOMAIN w \in SUBSET Nat
  BY <1>1, <1>2
<1>4. \A i \in DOMAIN w : w[i] \in EntryRecord
  BY <1>1, <1>2
<1>5. w \in [DOMAIN w -> EntryRecord]
  BY <1>2, <1>4
<1> QED BY <1>3, <1>5, EntriesAre

(* What is kept is true of more accepted requests as well. *)
LEMMA IngressGrows ==
  ASSUME NEW s \in Server, NEW c, NEW in \in Ingress, NEW acc, NEW more,
         IngressOK(s, c, in, acc),
         \A f \in Server : \A r : Among(acc[f], r) => Among(more[f], r)
  PROVE  IngressOK(s, c, in, more)
<1>1. \A id \in DOMAIN in.requests : in.requests[id].echoes \subseteq Server
  BY EntriesAre DEF Ingress, EntryRecord
<1> QED BY <1>1 DEF IngressOK

(* A new entry comes after all those of before, and was not received yet. *)
LEMMA NewEntryKept ==
  ASSUME NEW s \in Server, NEW c \in Client, NEW in \in Ingress, NEW acc,
         IngressOK(s, c, in, acc),
         NEW id \in Nat, id \notin DOMAIN in.requests, id >= in.min,
         NEW e \in EntryRecord, \A f \in e.echoes : Among(acc[f], Req(c, id, e.value)),
         NEW new \in Ingress, new.requests = WithKey(in.requests, id, e),
         new.min = id, new.received = in.received,
         \A f \in Server : \A i \in 1..Len(new.buffered[f]) :
           /\ new.buffered[f][i].client = c
           /\ Among(acc[f], new.buffered[f][i])
  PROVE  IngressOK(s, c, new, acc)
<1> DEFINE m == in.requests
           w == new.requests
<1>1. /\ DOMAIN m \in SUBSET Nat /\ in.min \in Nat /\ in.received \in Nat
      /\ m \in [DOMAIN m -> EntryRecord]
  BY EntriesAre DEF Ingress
<1>2. /\ id \in DOMAIN w /\ w[id] = e
      /\ \A i \in DOMAIN w : i # id => i \in DOMAIN m /\ w[i] = m[i]
  <2> HIDE DEF m
  <2>1. w = WithKey(m, id, e)
    BY DEF m
  <2> HIDE DEF w
  <2> QED BY <1>1, <2>1, WithKeyProperties
<1>3. in.received <= id /\ \A i \in DOMAIN m : i < id
  <2>1. CASE DOMAIN m = {}
    BY <1>1, <2>1 DEF IngressOK
  <2>2. CASE DOMAIN m # {}
    <3>1. in.min \in DOMAIN m /\ in.received <= in.min + 1
          /\ \A i \in DOMAIN m : i <= in.min
      BY <2>2 DEF IngressOK
    <3>2. id # in.min /\ id >= in.min
      BY <3>1
    <3> QED BY <1>1, <3>1, <3>2
  <2> QED BY <2>1, <2>2
<1>4. \A i \in DOMAIN m :
        /\ i < in.received => Among(acc[s], Req(c, i, m[i].value))
        /\ \A f \in m[i].echoes : Among(acc[f], Req(c, i, m[i].value))
  BY DEF IngressOK
<1> HIDE DEF m, w
<1>5. \A i \in DOMAIN w :
        /\ i <= id
        /\ i < in.received => Among(acc[s], Req(c, i, w[i].value))
        /\ \A f \in w[i].echoes : Among(acc[f], Req(c, i, w[i].value))
  <2> TAKE i \in DOMAIN w
  <2>1. CASE i = id
    BY <1>1, <1>2, <1>3, <2>1
  <2>2. CASE i # id
    <3>1. i \in DOMAIN m /\ w[i] = m[i] /\ i < id /\ i \in Nat
      BY <1>1, <1>2, <1>3, <2>2
    <3> QED BY <1>4, <3>1
  <2> QED BY <2>1, <2>2
<1>6. in.received <= id + 1
  BY <1>1, <1>3
<1> QED BY <1>2, <1>5, <1>6 DEF IngressOK, w

(* Every element of what is left of a buffer was in it. *)
LEMMA FirstRecentKept ==
  ASSUME NEW q \in Seq(Request), NEW id \in Nat
  PROVE  /\ FirstRecent(q, id) \in Seq(Request)
         /\ \A i \in 1..Len(FirstRecent(q, id)) :
              \E j \in 1..Len(q) : FirstRecent(q, id)[i] = q[j]
<1> DEFINE Older(n) == /\ \A i \in 1..n : q[i].id < id
                       /\ n = Len(q) \/ q[n + 1].id >= id
           n == CHOOSE n \in 0..Len(q) : Older(n)
           Recent == {k \in 1..Len(q) : q[k].id >= id}
<1>1. \A i \in 1..Len(q) : q[i].id \in Nat
  <2>1. \A i \in 1..Len(q) : q[i] \in Request
    BY ElementOfSeq
  <2> QED BY <2>1 DEF Request
<1>2. \E k \in 0..Len(q) : Older(k)
  <2>1. CASE Recent = {}
    <3>1. Older(Len(q))
      BY <1>1, <2>1
    <3> QED BY <3>1
  <2>2. CASE Recent # {}
    <3>1. PICK k \in Recent : \A j \in Recent : k <= j
      <4>1. Recent \in SUBSET Nat
        OBVIOUS
      <4> HIDE DEF Recent
      <4> QED BY <2>2, <4>1, LeastNat
    <3>2. k - 1 \in 0..Len(q) /\ (k - 1) + 1 = k /\ q[k].id >= id
      OBVIOUS
    <3>3. \A i \in 1..(k - 1) : q[i].id < id
      BY <1>1, <3>1
    <3>4. Older(k - 1)
      BY <3>2, <3>3
    <3> QED BY <3>2, <3>4
  <2> QED BY <2>1, <2>2
<1>3. n \in 0..Len(q)
  <2> HIDE DEF Older
  <2> QED BY <1>2
<1>4. FirstRecent(q, id) = SubSeq(q, n + 1, Len(q))
  BY DEF FirstRecent
<1> HIDE DEF n
<1>5. /\ FirstRecent(q, id) \in Seq(Request)
      /\ Len(FirstRecent(q, id)) = Len(q) - n
      /\ \A i \in 1..(Len(q) - n) : FirstRecent(q, id)[i] = q[n + i]
  BY <1>3, <1>4, DropProperties
<1>6. ASSUME NEW i \in 1..(Len(q) - n) PROVE n + i \in 1..Len(q)
  <2>1. PICK k : k = Len(q) /\ k \in Nat
    OBVIOUS
  <2>2. n \in 0..k /\ i \in 1..(k - n)
    BY <1>3, <2>1
  <2> QED BY <2>1, <2>2
<1> QED BY <1>5, <1>6

(* What a server takes from the link of a client. *)
LEMMA InsertedKept ==
  ASSUME NEW s \in Server, NEW c \in Client, NEW in \in Ingress, NEW acc,
         IngressOK(s, c, in, acc),
         NEW r \in Request, r.id \notin DOMAIN in.requests, r.id >= in.min
  PROVE  /\ Inserted(in, r) \in Ingress
         /\ IngressOK(s, c, Inserted(in, r), acc)
         /\ Inserted(in, r).received = in.received
         /\ Inserted(in, r).proposable = in.proposable
<1> DEFINE fresh == Entry(r.value, FALSE)
           counted == {f \in Follower : Replayed(in.buffered[f], r.id)
             /\ Echoed(fresh, Head(FirstRecent(in.buffered[f], r.id)).value, f)
                  # fresh}
           e == [fresh EXCEPT !.echoes = counted]
           w == WithKey(in.requests, r.id, e)
           rest(f) == FirstRecent(in.buffered[f], r.id)
           left == [f \in Server |-> IF Replayed(in.buffered[f], r.id)
                                     THEN Tail(rest(f)) ELSE rest(f)]
           new == Inserted(in, r)
<1>1. new = [in EXCEPT !.requests = w, !.min = r.id, !.buffered = left]
  BY DEF Inserted, Ingress
<1>2. /\ r.id \in Nat /\ r.value \in Values /\ in.buffered \in [Server -> Seq(Request)]
      /\ DOMAIN in.requests \in SUBSET Nat
      /\ in.requests \in [DOMAIN in.requests -> EntryRecord]
  BY EntriesAre DEF Request, Ingress
<1>3. fresh = [value |-> r.value, echoes |-> {}, signed |-> FALSE]
  BY DEF Entry
<1>5. counted \subseteq Server
  BY DEF Follower
<1>6. ASSUME NEW f \in Server
      PROVE  /\ rest(f) \in Seq(Request)
             /\ \A i \in 1..Len(rest(f)) :
                  rest(f)[i].client = c /\ Among(acc[f], rest(f)[i])
  <2> DEFINE q == in.buffered[f]
  <2>1. q \in Seq(Request)
    BY <1>2
  <2>2. \A i \in 1..Len(q) : q[i].client = c /\ Among(acc[f], q[i])
    BY DEF IngressOK
  <2> HIDE DEF q
  <2>3. /\ FirstRecent(q, r.id) \in Seq(Request)
        /\ \A i \in 1..Len(FirstRecent(q, r.id)) :
             \E j \in 1..Len(q) : FirstRecent(q, r.id)[i] = q[j]
    BY <1>2, <2>1, FirstRecentKept
  <2> QED BY <2>2, <2>3 DEF q
<1>7. ASSUME NEW f \in counted PROVE Among(acc[f], Req(c, r.id, r.value))
  <2> DEFINE h == Head(rest(f))
  <2>1. f \in Server /\ rest(f) # << >> /\ h.id = r.id /\ Echoed(fresh, h.value, f) # fresh
    BY <1>5 DEF Replayed
  <2>2. rest(f) \in Seq(Request)
    BY <1>6, <2>1
  <2> DEFINE q == rest(f)
  <2>3. q \in Seq(Request) /\ q # << >> /\ h = Head(q)
    BY <2>1, <2>2
  <2> HIDE DEF q, h
  <2>4. 1 \in 1..Len(q) /\ h = q[1] /\ h \in Request
    BY <2>3
  <2>5. h.client = c /\ Among(acc[f], h)
    BY <1>6, <2>1, <2>4 DEF q
  <2>6. h.value = r.value
    <3> DEFINE blank == fresh
    <3>1. Echoed(blank, h.value, f) # blank
      BY <2>1
    <3>2. blank.value = r.value
      BY DEF Entry
    <3> HIDE DEF blank
    <3> QED BY <3>1, <3>2 DEF Echoed
  <2>7. h = Req(c, r.id, r.value)
    BY <2>1, <2>4, <2>5, <2>6 DEF Request, Req
  <2> QED BY <2>5, <2>7
<1>8. ASSUME NEW f \in Server
      PROVE  /\ left[f] \in Seq(Request)
             /\ \A i \in 1..Len(left[f]) :
                  left[f][i].client = c /\ Among(acc[f], left[f][i])
  <2> DEFINE q == rest(f)
  <2>1. q \in Seq(Request) /\ \A i \in 1..Len(q) : q[i].client = c /\ Among(acc[f], q[i])
    BY <1>6
  <2>2. CASE Replayed(in.buffered[f], r.id)
    <3>1. q # << >> /\ left[f] = Tail(q)
      BY <2>2 DEF Replayed
    <3> HIDE DEF q, left
    <3>2. Tail(q) \in Seq(Request) /\ Len(q) \in Nat
          /\ \A i \in 1..Len(Tail(q)) : i + 1 \in 1..Len(q) /\ Tail(q)[i] = q[i + 1]
      BY <2>1, <3>1
    <3> QED BY <2>1, <3>1, <3>2
  <2>3. CASE ~Replayed(in.buffered[f], r.id)
    <3>1. left[f] = q
      BY <2>3
    <3> HIDE DEF q, left
    <3> QED BY <2>1, <3>1
  <2> QED BY <2>2, <2>3
<1> HIDE DEF counted
<1>9. e \in EntryRecord /\ e.echoes = counted /\ e.value = r.value
  <2>1. fresh \in EntryRecord /\ fresh.value = r.value
    BY <1>2 DEF Entry, EntryRecord
  <2>2. ASSUME NEW x \in EntryRecord, NEW q \in SUBSET Server
        PROVE  /\ [x EXCEPT !.echoes = q] \in EntryRecord
               /\ [x EXCEPT !.echoes = q].echoes = q
               /\ [x EXCEPT !.echoes = q].value = x.value
    BY DEF EntryRecord
  <2> QED BY <1>5, <2>1, <2>2
<1> HIDE DEF e
<1>10. w \in Entries
  <2>1. in.requests \in Entries /\ w = WithKey(in.requests, r.id, e)
    BY DEF Ingress
  <2> HIDE DEF w
  <2> QED BY <1>2, <1>9, <2>1, EntryAdded
<1>11. left \in [Server -> Seq(Request)]
  <2>1. left = [f \in Server |-> left[f]]
    OBVIOUS
  <2> HIDE DEF left
  <2> QED BY <1>8, <2>1
<1> HIDE DEF left, w, new
<1>12. /\ new \in Ingress /\ new.requests = w /\ new.min = r.id
       /\ new.buffered = left /\ new.received = in.received
       /\ new.proposable = in.proposable
  BY <1>1, <1>2, <1>10, <1>11 DEF Ingress
<1>13. IngressOK(s, c, new, acc)
  <2>1. new.requests = WithKey(in.requests, r.id, e)
    BY <1>12 DEF w
  <2>2. \A f \in e.echoes : Among(acc[f], Req(c, r.id, e.value))
    BY <1>7, <1>9
  <2>3. \A f \in Server : \A i \in 1..Len(new.buffered[f]) :
          new.buffered[f][i].client = c /\ Among(acc[f], new.buffered[f][i])
    BY <1>8, <1>12
  <2> QED BY <1>2, <1>9, <1>12, <2>1, <2>2, <2>3, NewEntryKept
<1> QED BY <1>12, <1>13 DEF new
(* A server updates the entry of a request: it keeps the request, and what   *)
(* it counts as echoes is true.                                              *)
LEMMA EntryKept ==
  ASSUME NEW s \in Server, NEW c \in Client, NEW in \in Ingress, NEW acc,
         IngressOK(s, c, in, acc),
         NEW id \in DOMAIN in.requests,
         NEW e \in EntryRecord, e.value = in.requests[id].value,
         \A f \in e.echoes : Among(acc[f], Req(c, id, e.value)),
         NEW new, new = [in EXCEPT !.requests = [in.requests EXCEPT ![id] = e]]
  PROVE  /\ new \in Ingress /\ IngressOK(s, c, new, acc)
         /\ new.received = in.received /\ new.proposable = in.proposable
<1> DEFINE m == in.requests
           w == [m EXCEPT ![id] = e]
<1>1. DOMAIN m \in SUBSET Nat /\ m \in [DOMAIN m -> EntryRecord]
  BY EntriesAre DEF Ingress
<1>2. \A i \in DOMAIN m :
        /\ i < in.received => Among(acc[s], Req(c, i, m[i].value))
        /\ \A f \in m[i].echoes : Among(acc[f], Req(c, i, m[i].value))
  BY DEF IngressOK
<1>3. id \in DOMAIN m /\ e.value = m[id].value /\ in \in Ingress
      /\ new = [in EXCEPT !.requests = w]
  OBVIOUS
<1> HIDE DEF m
<1>4. DOMAIN w = DOMAIN m /\ w \in [DOMAIN w -> EntryRecord]
      /\ w[id] = e /\ \A i \in DOMAIN m : i # id => w[i] = m[i]
  BY <1>1, <1>3
<1> HIDE DEF w
<1>5. w \in Entries
  BY <1>1, <1>4, EntriesAre
<1>6. /\ new \in Ingress /\ new.requests = w /\ new.min = in.min
      /\ new.buffered = in.buffered /\ new.received = in.received
      /\ new.proposable = in.proposable
  BY <1>3, <1>5 DEF Ingress
<1>7. ASSUME NEW i \in DOMAIN w
      PROVE  /\ i < in.received => Among(acc[s], Req(c, i, w[i].value))
             /\ \A f \in w[i].echoes : Among(acc[f], Req(c, i, w[i].value))
  <2>1. CASE i = id
    BY <1>2, <1>3, <1>4, <2>1
  <2>2. CASE i # id
    BY <1>2, <1>4, <2>2
  <2> QED BY <2>1, <2>2
<1>8. /\ DOMAIN w = {} => in.received = 0
      /\ DOMAIN w # {} =>
           /\ in.min \in DOMAIN w /\ in.received <= in.min + 1
           /\ \A i \in DOMAIN w : i <= in.min
  BY <1>4 DEF IngressOK, m
<1>9. \A f \in Server : \A i \in 1..Len(in.buffered[f]) :
        /\ in.buffered[f][i].client = c
        /\ Among(acc[f], in.buffered[f][i])
  BY DEF IngressOK
<1>10. IngressOK(s, c, new, acc)
  BY <1>6, <1>7, <1>8, <1>9 DEF IngressOK
<1> QED BY <1>6, <1>10

LEMMA EchoedProperties ==
  ASSUME NEW x \in EntryRecord, NEW v, NEW f \in Server
  PROVE  /\ Echoed(x, v, f) \in EntryRecord
         /\ Echoed(x, v, f).value = x.value
         /\ \A g \in Echoed(x, v, f).echoes : g \in x.echoes \/ (g = f /\ v = x.value)
<1>1. CASE v = x.value
  <2>1. Echoed(x, v, f) = [x EXCEPT !.echoes = x.echoes \cup {f}]
    BY <1>1 DEF Echoed
  <2>2. x.echoes \cup {f} \in SUBSET Server
    BY DEF EntryRecord
  <2> DEFINE q == x.echoes \cup {f}
  <2>3. /\ [x EXCEPT !.echoes = q] \in EntryRecord
        /\ [x EXCEPT !.echoes = q].value = x.value
        /\ [x EXCEPT !.echoes = q].echoes = q
    <3> HIDE DEF q
    <3> QED BY <2>2 DEF EntryRecord, q
  <2> QED BY <1>1, <2>1, <2>3
<1>2. CASE v # x.value
  BY <1>2 DEF Echoed
<1> QED BY <1>1, <1>2

(* What a server takes from the link of another server. *)
LEMMA EchoKept ==
  ASSUME Assumption, NEW s \in Server, NEW c \in Client, NEW in \in Ingress, NEW acc,
         IngressOK(s, c, in, acc),
         NEW r \in Request, r.client = c, NEW f \in Server, Among(acc[f], r)
  PROVE  /\ EchoReceived(in, r, f) \in Ingress
         /\ IngressOK(s, c, EchoReceived(in, r, f), acc)
         /\ EchoReceived(in, r, f).received = in.received
         /\ EchoReceived(in, r, f).proposable = in.proposable
<1> DEFINE new == EchoReceived(in, r, f)
<1>1. /\ in.requests \in Entries /\ in.buffered \in [Server -> Seq(Request)]
      /\ DOMAIN in.requests \in SUBSET Nat
      /\ in.requests \in [DOMAIN in.requests -> EntryRecord]
  BY EntriesAre DEF Ingress
<1>2. CASE r.id \in DOMAIN in.requests
  <2> DEFINE x == in.requests[r.id]
             e == Echoed(x, r.value, f)
  <2>1. new = [in EXCEPT !.requests = [in.requests EXCEPT ![r.id] = e]]
    <3>1. in.requests = in["requests"]
      OBVIOUS
    <3> QED BY <1>2, <3>1 DEF EchoReceived
  <2>2. x \in EntryRecord
    BY <1>1, <1>2
  <2>3. /\ e \in EntryRecord /\ e.value = x.value
        /\ \A g \in e.echoes : g \in x.echoes \/ (g = f /\ r.value = x.value)
    <3> HIDE DEF x
    <3> QED BY <2>2, EchoedProperties
  <2>4. r = Req(c, r.id, r.value)
    BY DEF Request, Req
  <2>5. \A g \in x.echoes : Among(acc[g], Req(c, r.id, x.value))
    BY <1>2 DEF IngressOK
  <2> HIDE DEF e, x
  <2>6. \A g \in e.echoes : Among(acc[g], Req(c, r.id, e.value))
    BY <2>3, <2>4, <2>5
  <2>7. e.value = in.requests[r.id].value
    BY <2>3 DEF x
  <2> HIDE DEF new
  <2>8. /\ new \in Ingress /\ IngressOK(s, c, new, acc)
        /\ new.received = in.received /\ new.proposable = in.proposable
    BY <1>2, <2>1, <2>3, <2>6, <2>7, EntryKept
  <2> QED BY <2>8 DEF new
<1>3. CASE r.id \notin DOMAIN in.requests
  <2> DEFINE q == in.buffered[f]
             u == Send(q, r, Window)
             left == [in.buffered EXCEPT ![f] = u]
  <2>1. new = [in EXCEPT !.buffered = left]
    <3>1. in.buffered = in["buffered"]
      OBVIOUS
    <3> QED BY <1>3, <3>1 DEF EchoReceived
  <2>2. q \in Seq(Request) /\ Window \in Nat \ {0}
        /\ \A i \in 1..Len(q) : q[i].client = c /\ Among(acc[f], q[i])
    BY <1>1 DEF IngressOK, Assumption
  <2>3. /\ u \in Seq(Request)
        /\ \E d \in {0, 1} :
             /\ d <= Len(q) /\ Len(u) = Len(q) + 1 - d
             /\ \A i \in 1..(Len(q) - d) : u[i] = q[i + d]
             /\ u[Len(q) + 1 - d] = r
    <3> HIDE DEF q
    <3> QED BY <2>2, SendProperties
  <2> HIDE DEF q, u
  <2>4. ASSUME NEW i \in 1..Len(u) PROVE u[i].client = c /\ Among(acc[f], u[i])
    <3>1. PICK d \in {0, 1} :
             /\ d <= Len(q) /\ Len(u) = Len(q) + 1 - d
             /\ \A j \in 1..(Len(q) - d) : u[j] = q[j + d]
             /\ u[Len(q) + 1 - d] = r
      BY <2>3
    <3>2. Len(q) \in Nat
      BY <2>2
    <3>3. CASE i = Len(q) + 1 - d
      BY <3>1, <3>3
    <3>4. CASE i # Len(q) + 1 - d
      <4>1. i \in 1..(Len(q) - d) /\ i + d \in 1..Len(q)
        BY <3>1, <3>2, <3>4
      <4> QED BY <2>2, <3>1, <4>1
    <3> QED BY <3>3, <3>4
  <2>5. left \in [Server -> Seq(Request)] /\ left[f] = u
        /\ \A g \in Server : g # f => left[g] = in.buffered[g]
    BY <1>1, <2>3
  <2>6. \A g \in Server : \A i \in 1..Len(left[g]) :
           left[g][i].client = c /\ Among(acc[g], left[g][i])
    BY <2>4, <2>5 DEF IngressOK
  <2> HIDE DEF left, new
  <2>7. /\ new \in Ingress /\ new.requests = in.requests /\ new.min = in.min
        /\ new.buffered = left /\ new.received = in.received
        /\ new.proposable = in.proposable
    BY <2>1, <2>5 DEF Ingress
  <2>8. IngressOK(s, c, new, acc)
    BY <2>6, <2>7 DEF IngressOK
  <2> QED BY <2>7, <2>8 DEF new
<1> QED BY <1>2, <1>3
-----------------------------------------------------------------------------
(* Loops *)

(* A loop of n rounds G that stays in D. *)
Rounds(n, D, G) == \A x \in D : \A i \in 1..n : G[<<x, i>>] \in D

LEMMA Iterated ==
  ASSUME NEW n \in Nat, NEW D, NEW base \in D, NEW G, Rounds(n, D, G)
  PROVE  \E h : /\ h[0] = base
                /\ \A i \in 0..n : h[i] \in D
                /\ \A i \in 1..n : h[i] = G[<<h[i - 1], i>>]
<1> DEFINE Good(h, m) == /\ h[0] = base
                         /\ \A i \in 0..m : h[i] \in D
                         /\ \A i \in 1..m : h[i] = G[<<h[i - 1], i>>]
           T == {m \in Nat : m <= n => \E h : Good(h, m)}
<1>1. 0 \in T
  <2>1. Good([i \in 0..0 |-> base], 0)
    OBVIOUS
  <2> QED BY <2>1
<1>2. ASSUME NEW m \in 0..n, m < n, m \in T PROVE m + 1 \in T
  <2>1. PICK h : Good(h, m)
    BY <1>2
  <2>2. m + 1 \in 1..n /\ m \in Nat /\ h[m] \in D
    BY <1>2, <2>1
  <2> DEFINE d == G[<<h[m], m + 1>>]
             g == [i \in 0..(m + 1) |-> IF i = m + 1 THEN d ELSE h[i]]
  <2>3. d \in D
    BY <2>2 DEF Rounds
  <2> HIDE DEF d
  <2>4. g[m + 1] = d /\ \A i \in 0..m : g[i] = h[i]
    BY <2>2
  <2> HIDE DEF g
  <2>5. g[0] = base
    BY <2>1, <2>2, <2>4
  <2>6. ASSUME NEW i \in 1..(m + 1) PROVE g[i] = G[<<g[i - 1], i>>]
    <3>1. CASE i = m + 1
      <4>1. i - 1 = m /\ m \in 0..m
        BY <2>2, <3>1
      <4> QED BY <2>4, <3>1, <4>1 DEF d
    <3>2. CASE i # m + 1
      <4>1. i \in 1..m /\ i \in 0..m /\ i - 1 \in 0..m
        BY <2>2, <3>2
      <4> QED BY <2>1, <2>4, <4>1
    <3> QED BY <3>1, <3>2
  <2>7. \A i \in 0..(m + 1) : g[i] \in D
    BY <2>1, <2>2, <2>3, <2>4
  <2>8. Good(g, m + 1)
    BY <2>4, <2>5, <2>6, <2>7
  <2> HIDE DEF Good
  <2>9. m + 1 \in Nat
    BY <2>2
  <2> QED BY <2>8, <2>9
<1> HIDE DEF T, Good
<1>3. n \in T
  BY <1>1, <1>2, UpTo
<1> QED BY <1>3 DEF T, Good

LEMMA EchoesKept ==
  ASSUME Assumption, TypeOK, EchoesAccepted, NEW s \in Server, NEW c \in Client,
         NEW in \in Ingress, NEW t \in Server, IngressOK(t, c, in, accepted),
         NEW k \in 0..Len(echo_link[s][Leader])
  PROVE  /\ Echoes(in, s, c, k) \in Ingress
         /\ IngressOK(t, c, Echoes(in, s, c, k), accepted)
         /\ Echoes(in, s, c, k).received = in.received
         /\ Echoes(in, s, c, k).proposable = in.proposable
<1> DEFINE q == echo_link[s][Leader]
           D == {x \in Ingress : /\ IngressOK(t, c, x, accepted)
                                 /\ x.received = in.received
                                 /\ x.proposable = in.proposable}
           Step(x, i) == IF q[i].client = c THEN EchoReceived(x, q[i], s) ELSE x
           After(h) == h = [i \in 0..k |-> IF i = 0 THEN in ELSE Step(h[i - 1], i)]
           f == CHOOSE h : After(h)
           T == {m \in Nat : m <= k => f[m] \in D}
<1>1. Echoes(in, s, c, k) = f[k]
  BY DEF Echoes
<1>2. q \in Seq(Request) /\ Leader \in Server /\ k \in 0..Len(q) /\ k \in Nat
  BY LeaderServes DEF TypeOK, LinkTypes
<1>3. \A i \in 1..Len(q) : q[i] \in Request /\ Among(accepted[s], q[i])
  <2>1. \A i \in 1..Len(q) : Among(accepted[s], q[i])
    BY DEF EchoesAccepted
  <2> HIDE DEF q
  <2> QED BY <1>2, <2>1
<1>4. in \in D
  OBVIOUS
<1>5. ASSUME NEW x \in D, NEW i \in 1..k PROVE Step(x, i) \in D
  <2> DEFINE r == q[i]
  <2>1. i \in 1..Len(q)
    <3> HIDE DEF q
    <3> QED BY <1>2
  <2>2. r \in Request /\ Among(accepted[s], r)
    BY <1>3, <2>1
  <2>3. CASE r.client = c
    <3>1. Step(x, i) = EchoReceived(x, r, s)
      BY <2>3
    <3> HIDE DEF r, q, Step
    <3>2. /\ EchoReceived(x, r, s) \in Ingress
          /\ IngressOK(t, c, EchoReceived(x, r, s), accepted)
          /\ EchoReceived(x, r, s).received = x.received
          /\ EchoReceived(x, r, s).proposable = x.proposable
      BY <2>2, <2>3, EchoKept
    <3> QED BY <3>1, <3>2
  <2>4. CASE r.client # c
    BY <2>4
  <2> QED BY <2>3, <2>4
<1> HIDE DEF q, D
<1>6. \E h : After(h)
  <2> DEFINE G == [z \in D \X (1..k) |-> Step(z[1], z[2])]
  <2>1. \A x \in D : \A i \in 1..k : G[<<x, i>>] = Step(x, i) /\ G[<<x, i>>] \in D
    <3> HIDE DEF Step
    <3> QED BY <1>5
  <2>2. PICK h : /\ h[0] = in
                 /\ \A i \in 0..k : h[i] \in D
                 /\ \A i \in 1..k : h[i] = G[<<h[i - 1], i>>]
    <3> HIDE DEF G, Step
    <3>1. Rounds(k, D, G)
      BY <2>1 DEF Rounds
    <3>2. k \in Nat
      BY <1>2
    <3> QED BY <1>4, <3>1, <3>2, Iterated
  <2>3. ASSUME NEW i \in 1..k PROVE h[i] = Step(h[i - 1], i)
    <3>1. i - 1 \in 0..k
      BY <1>2
    <3> HIDE DEF Step, G
    <3> QED BY <2>1, <2>2, <3>1
  <2> DEFINE g == [i \in 0..k |-> h[i]]
  <2>4. ASSUME NEW i \in 0..k PROVE g[i] = IF i = 0 THEN in ELSE Step(g[i - 1], i)
    <3>1. CASE i = 0
      BY <2>2, <3>1
    <3>2. CASE i # 0
      <4>1. i \in 1..k /\ i - 1 \in 0..k
        BY <1>2, <3>2
      <4> HIDE DEF Step
      <4> QED BY <2>3, <3>2, <4>1
    <3> QED BY <3>1, <3>2
  <2>5. g = [i \in 0..k |-> g[i]]
    OBVIOUS
  <2>6. After(g)
    <3> HIDE DEF Step, g
    <3> QED BY <2>4, <2>5
  <2> HIDE DEF After
  <2> QED BY <2>6
<1>7. After(f)
  <2> HIDE DEF After
  <2> QED BY <1>6
<1>8. f[0] = in /\ \A i \in 1..k : f[i] = Step(f[i - 1], i)
  <2> HIDE DEF f, Step
  <2> QED BY <1>2, <1>7
<1> HIDE DEF f, Step
<1>9. 0 \in T
  BY <1>4, <1>8
<1>10. ASSUME NEW m \in 0..k, m < k, m \in T PROVE m + 1 \in T
  <2>1. m + 1 \in 1..k /\ (m + 1) - 1 = m /\ m \in Nat /\ m <= k
    BY <1>2, <1>10
  <2>2. f[m] \in D
    BY <1>10, <2>1
  <2>3. f[m + 1] = Step(f[m], m + 1)
    BY <1>8, <2>1
  <2>4. f[m + 1] \in D
    BY <1>5, <2>1, <2>2, <2>3
  <2> QED BY <2>1, <2>4
<1>11. k \in T
  <2> HIDE DEF T
  <2>1. \A i \in 0..k : i \in T
    BY <1>2, <1>9, <1>10, UpTo
  <2> QED BY <1>2, <2>1
<1> QED BY <1>1, <1>2, <1>11 DEF D
LEMMA OffloadsAreTasks ==
  ASSUME Assumption, TypeOK, NEW t \in Server, NEW c \in Client,
         NEW tasks \in Seq(Request), NEW k \in 0..Len(echo_link[Leader][t])
  PROVE  Offloads(tasks, t, c, k) \in Seq(Request)
<1> DEFINE q == echo_link[Leader][t]
           D == Seq(Request)
           Step(x, i) == IF q[i].client = c THEN Offload(x, ingress[t][c], q[i]) ELSE x
           After(h) == h = [i \in 0..k |-> IF i = 0 THEN tasks ELSE Step(h[i - 1], i)]
           f == CHOOSE h : After(h)
           T == {m \in Nat : m <= k => f[m] \in D}
<1>1. Offloads(tasks, t, c, k) = f[k]
  BY DEF Offloads
<1>2. q \in Seq(Request) /\ k \in 0..Len(q) /\ k \in Nat /\ Window \in Nat \ {0}
  <2>1. Leader \in Server
    BY LeaderServes
  <2>2. q \in Seq(Request)
    BY <2>1 DEF TypeOK, LinkTypes
  <2>3. k \in Nat
    <3>1. Len(q) \in Nat
      BY <2>2
    <3> QED BY <3>1
  <2>4. Window \in Nat \ {0}
    BY DEF Assumption
  <2> QED BY <2>2, <2>3, <2>4
<1>3. \A i \in 1..Len(q) : q[i] \in Request
  <2> HIDE DEF q
  <2> QED BY <1>2
<1>4. ASSUME NEW x \in D, NEW i \in 1..k PROVE Step(x, i) \in D
  <2> DEFINE r == q[i]
  <2>1. i \in 1..Len(q)
    <3> HIDE DEF q
    <3> QED BY <1>2
  <2>2. r \in Request
    BY <1>3, <2>1
  <2>3. Send(x, r, Window) \in D
    <3> HIDE DEF r, q
    <3> QED BY <1>2, <2>2, SendProperties
  <2>4. Offload(x, ingress[t][c], r) \in D
    <3> HIDE DEF r, q
    <3> QED BY <2>3 DEF Offload
  <2> QED BY <2>4
<1> HIDE DEF q, D
<1>5. tasks \in D
  BY DEF D
<1>6. \E h : After(h)
  <2> DEFINE G == [z \in D \X (1..k) |-> Step(z[1], z[2])]
  <2>1. \A x \in D : \A i \in 1..k : G[<<x, i>>] = Step(x, i) /\ G[<<x, i>>] \in D
    <3> HIDE DEF Step
    <3> QED BY <1>4
  <2>2. PICK h : /\ h[0] = tasks
                 /\ \A i \in 0..k : h[i] \in D
                 /\ \A i \in 1..k : h[i] = G[<<h[i - 1], i>>]
    <3> HIDE DEF G, Step
    <3>1. Rounds(k, D, G)
      BY <2>1 DEF Rounds
    <3>2. k \in Nat
      BY <1>2
    <3> QED BY <1>5, <3>1, <3>2, Iterated
  <2>3. ASSUME NEW i \in 1..k PROVE h[i] = Step(h[i - 1], i)
    <3>1. i - 1 \in 0..k
      BY <1>2
    <3> HIDE DEF Step, G
    <3> QED BY <2>1, <2>2, <3>1
  <2> DEFINE g == [i \in 0..k |-> h[i]]
  <2>4. ASSUME NEW i \in 0..k PROVE g[i] = IF i = 0 THEN tasks ELSE Step(g[i - 1], i)
    <3>1. CASE i = 0
      BY <2>2, <3>1
    <3>2. CASE i # 0
      <4>1. i \in 1..k /\ i - 1 \in 0..k
        BY <1>2, <3>2
      <4> HIDE DEF Step
      <4> QED BY <2>3, <3>2, <4>1
    <3> QED BY <3>1, <3>2
  <2>5. g = [i \in 0..k |-> g[i]]
    OBVIOUS
  <2>6. After(g)
    <3> HIDE DEF Step, g
    <3> QED BY <2>4, <2>5
  <2> HIDE DEF After
  <2> QED BY <2>6
<1>7. After(f)
  <2> HIDE DEF After
  <2> QED BY <1>6
<1>8. f[0] = tasks /\ \A i \in 1..k : f[i] = Step(f[i - 1], i)
  <2> HIDE DEF f, Step
  <2> QED BY <1>2, <1>7
<1> HIDE DEF f, Step
<1>9. 0 \in T
  BY <1>5, <1>8
<1>10. ASSUME NEW m \in 0..k, m < k, m \in T PROVE m + 1 \in T
  <2>1. m + 1 \in 1..k /\ (m + 1) - 1 = m /\ m \in Nat /\ m <= k
    BY <1>2, <1>10
  <2>2. f[m] \in D
    BY <1>10, <2>1
  <2>3. f[m + 1] = Step(f[m], m + 1)
    BY <1>8, <2>1
  <2>4. f[m + 1] \in D
    BY <1>4, <2>1, <2>2, <2>3
  <2> QED BY <2>1, <2>4
<1>11. k \in T
  <2> HIDE DEF T
  <2>1. \A i \in 0..k : i \in T
    BY <1>2, <1>9, <1>10, UpTo
  <2> QED BY <1>2, <2>1
<1> QED BY <1>1, <1>2, <1>11 DEF D

(* The partial sums of numbers. *)
Sums(q, f) == /\ f[0] = 0
              /\ \A i \in 1..Len(q) : f[i] = f[i - 1] + q[i]
              /\ \A i \in 0..Len(q) : f[i] \in Nat

LEMMA SumIs ==
  ASSUME NEW q \in Seq(Nat)
  PROVE  \E f : Sums(q, f) /\ SumOf(q) = f[Len(q)]
<1> DEFINE n == Len(q)
           After(h) == h = [i \in 0..n |-> IF i = 0 THEN 0 ELSE h[i - 1] + q[i]]
           f == CHOOSE h : After(h)
           T == {m \in Nat : m <= n => f[m] \in Nat}
<1>1. SumOf(q) = f[n]
  BY DEF SumOf
<1>2. n \in Nat /\ \A i \in 1..n : q[i] \in Nat
  OBVIOUS
<1> HIDE DEF n
<1>3. \E h : After(h)
  <2> DEFINE G == [z \in Nat \X (1..n) |-> z[1] + q[z[2]]]
  <2>1. \A x \in Nat : \A i \in 1..n : G[<<x, i>>] = x + q[i] /\ G[<<x, i>>] \in Nat
    BY <1>2
  <2>2. PICK h : /\ h[0] = 0
                 /\ \A i \in 0..n : h[i] \in Nat
                 /\ \A i \in 1..n : h[i] = G[<<h[i - 1], i>>]
    <3> DEFINE D == Nat
    <3> HIDE DEF G
    <3>1. Rounds(n, D, G) /\ 0 \in D /\ n \in Nat
      BY <1>2, <2>1 DEF Rounds
    <3>2. \E h : /\ h[0] = 0
                 /\ \A i \in 0..n : h[i] \in D
                 /\ \A i \in 1..n : h[i] = G[<<h[i - 1], i>>]
      <4> HIDE DEF D
      <4> QED BY <3>1, Iterated
    <3> QED BY <3>2
  <2>3. ASSUME NEW i \in 1..n PROVE h[i] = h[i - 1] + q[i]
    <3>1. i - 1 \in 0..n
      BY <1>2
    <3> HIDE DEF G
    <3> QED BY <2>1, <2>2, <3>1
  <2> DEFINE g == [i \in 0..n |-> h[i]]
  <2>4. ASSUME NEW i \in 0..n PROVE g[i] = IF i = 0 THEN 0 ELSE g[i - 1] + q[i]
    <3>1. CASE i = 0
      BY <2>2, <3>1
    <3>2. CASE i # 0
      <4>1. i \in 1..n /\ i - 1 \in 0..n
        BY <1>2, <3>2
      <4> QED BY <2>3, <3>2, <4>1
    <3> QED BY <3>1, <3>2
  <2>5. g = [i \in 0..n |-> g[i]]
    OBVIOUS
  <2>6. After(g)
    <3> HIDE DEF g
    <3> QED BY <2>4, <2>5
  <2> HIDE DEF After
  <2> QED BY <2>6
<1>4. After(f)
  <2> HIDE DEF After
  <2> QED BY <1>3
<1>5. f[0] = 0 /\ \A i \in 1..n : f[i] = f[i - 1] + q[i]
  <2> HIDE DEF f
  <2> QED BY <1>2, <1>4
<1> HIDE DEF f
<1>6. 0 \in T
  BY <1>5
<1>7. ASSUME NEW m \in 0..n, m < n, m \in T PROVE m + 1 \in T
  <2>1. m + 1 \in 1..n /\ (m + 1) - 1 = m /\ m \in Nat /\ m <= n
    BY <1>2, <1>7
  <2>2. f[m] \in Nat /\ q[m + 1] \in Nat
    BY <1>2, <1>7, <2>1
  <2>3. f[m + 1] = f[m] + q[m + 1]
    BY <1>5, <2>1
  <2> QED BY <2>1, <2>2, <2>3
<1>8. \A i \in 0..n : f[i] \in Nat
  <2>1. \A i \in 0..n : i \in T
    <3> HIDE DEF T
    <3> QED BY <1>2, <1>6, <1>7, UpTo
  <2> QED BY <1>2, <2>1
<1>9. Sums(q, f)
  BY <1>5, <1>8 DEF Sums, n
<1> QED BY <1>1, <1>9 DEF n

LEMMA SumOfNone == SumOf(<< >>) = 0
<1>1. PICK f : Sums(<< >>, f) /\ SumOf(<< >>) = f[Len(<< >>)]
  <2>1. << >> \in Seq(Nat)
    OBVIOUS
  <2> QED BY <2>1, SumIs
<1> QED BY <1>1 DEF Sums

LEMMA SumOfAppend ==
  ASSUME NEW q \in Seq(Nat), NEW m \in Nat
  PROVE  SumOf(Append(q, m)) = SumOf(q) + m /\ SumOf(q) \in Nat
<1> DEFINE n == Len(q)
           u == Append(q, m)
<1>1. n \in Nat /\ u \in Seq(Nat) /\ Len(u) = n + 1 /\ u[n + 1] = m
      /\ \A i \in 1..n : u[i] = q[i]
  BY AppendProperties
<1>2. PICK f : Sums(q, f) /\ SumOf(q) = f[n]
  BY SumIs
<1> HIDE DEF u
<1>3. PICK g : Sums(u, g) /\ SumOf(u) = g[n + 1]
  BY <1>1, SumIs
<1> DEFINE T == {i \in Nat : i <= n => g[i] = f[i]}
<1> HIDE DEF n
<1>4. 0 \in T
  BY <1>2, <1>3 DEF Sums
<1>5. ASSUME NEW i \in 0..n, i < n, i \in T PROVE i + 1 \in T
  <2>1. i + 1 \in 1..n /\ i + 1 \in 1..(n + 1) /\ (i + 1) - 1 = i /\ i \in Nat /\ i <= n
    BY <1>1, <1>5
  <2>2. g[i] = f[i]
    BY <1>5, <2>1
  <2>3. f[i + 1] = f[i] + q[i + 1]
    BY <1>2, <2>1 DEF Sums, n
  <2>4. g[i + 1] = g[i] + u[i + 1]
    BY <1>1, <1>3, <2>1 DEF Sums
  <2> QED BY <1>1, <2>1, <2>2, <2>3, <2>4
<1>6. n \in T
  <2> HIDE DEF T
  <2>1. \A i \in 0..n : i \in T
    BY <1>1, <1>4, <1>5, UpTo
  <2> QED BY <1>1, <2>1
<1>7. n + 1 \in 1..(n + 1) /\ (n + 1) - 1 = n
  BY <1>1
<1>8. g[n + 1] = g[n] + u[n + 1]
  BY <1>1, <1>3, <1>7 DEF Sums
<1>9. f[n] \in Nat
  BY <1>1, <1>2 DEF Sums, n
<1> QED BY <1>1, <1>2, <1>3, <1>6, <1>8, <1>9 DEF u

LEMMA SumOfTail ==
  ASSUME NEW q \in Seq(Nat), q # << >>
  PROVE  /\ SumOf(q) = Head(q) + SumOf(Tail(q))
         /\ Head(q) \in Nat /\ SumOf(Tail(q)) \in Nat
<1> DEFINE n == Len(q) - 1
           u == Tail(q)
<1>1. n \in Nat /\ Len(q) = n + 1 /\ u \in Seq(Nat) /\ Len(u) = n
      /\ Head(q) \in Nat /\ Head(q) = q[1] /\ \A i \in 1..n : u[i] = q[i + 1]
  BY TailProperties
<1>2. PICK f : Sums(q, f) /\ SumOf(q) = f[n + 1]
  <2>1. PICK f : Sums(q, f) /\ SumOf(q) = f[Len(q)]
    BY SumIs
  <2> HIDE DEF n
  <2> QED BY <1>1, <2>1
<1> HIDE DEF u, n
<1>3. PICK g : Sums(u, g) /\ SumOf(u) = g[n]
  BY <1>1, SumIs
<1>4. /\ f[0] = 0 /\ \A i \in 1..(n + 1) : f[i] = f[i - 1] + q[i]
      /\ \A i \in 0..(n + 1) : f[i] \in Nat
  BY <1>1, <1>2 DEF Sums
<1>5. /\ g[0] = 0 /\ \A i \in 1..n : g[i] = g[i - 1] + u[i]
      /\ \A i \in 0..n : g[i] \in Nat
  BY <1>1, <1>3 DEF Sums
<1> DEFINE T == {i \in Nat : i <= n => f[i + 1] = Head(q) + g[i]}
<1>6. 0 \in T
  <2>1. 1 \in 1..(n + 1) /\ 1 - 1 = 0 /\ 0 + 1 = 1
    BY <1>1
  <2>2. f[1] = f[0] + q[1]
    BY <1>4, <2>1
  <2> QED BY <1>1, <1>4, <1>5, <2>1, <2>2
<1>7. ASSUME NEW i \in 0..n, i < n, i \in T PROVE i + 1 \in T
  <2> DEFINE k == i + 1
  <2>1. /\ k \in 1..n /\ k + 1 \in 1..(n + 1) /\ (k + 1) - 1 = k /\ k - 1 = i
        /\ i \in Nat /\ i <= n /\ k \in Nat
    BY <1>1, <1>7
  <2>2. f[k] = Head(q) + g[i]
    BY <1>7, <2>1
  <2> HIDE DEF k
  <2>3. f[k + 1] = f[k] + q[k + 1]
    BY <1>4, <2>1
  <2>4. g[k] = g[i] + u[k] /\ u[k] = q[k + 1] /\ u[k] \in Nat
    <3>1. g[k] = g[i] + u[k]
      BY <1>5, <2>1
    <3>2. u[k] = q[k + 1]
      BY <1>1, <2>1
    <3>3. u[k] \in Nat
      BY <1>1, <2>1
    <3> QED BY <3>1, <3>2, <3>3
  <2>5. g[i] \in Nat
    BY <1>5
  <2>6. f[k + 1] = Head(q) + g[k]
    BY <1>1, <2>2, <2>3, <2>4, <2>5
  <2> QED BY <2>1, <2>6 DEF k
<1>8. n \in T
  <2> HIDE DEF T
  <2>1. \A i \in 0..n : i \in T
    BY <1>1, <1>6, <1>7, UpTo
  <2> QED BY <1>1, <2>1
<1> QED BY <1>1, <1>2, <1>3, <1>5, <1>8 DEF u

LEMMA SumAtLeastLength ==
  ASSUME NEW q \in Seq(Nat), \A i \in 1..Len(q) : q[i] >= 1
  PROVE  SumOf(q) >= Len(q) /\ SumOf(q) \in Nat
<1> DEFINE n == Len(q)
<1>1. n \in Nat /\ \A i \in 1..n : q[i] \in Nat /\ q[i] >= 1
  OBVIOUS
<1>2. PICK f : Sums(q, f) /\ SumOf(q) = f[n]
  BY SumIs
<1>3. /\ f[0] = 0 /\ \A i \in 1..n : f[i] = f[i - 1] + q[i]
      /\ \A i \in 0..n : f[i] \in Nat
  BY <1>2 DEF Sums
<1> HIDE DEF n
<1> DEFINE T == {i \in Nat : i <= n => f[i] >= i}
<1>4. 0 \in T
  BY <1>3
<1>5. ASSUME NEW i \in 0..n, i < n, i \in T PROVE i + 1 \in T
  <2>1. i + 1 \in 1..n /\ (i + 1) - 1 = i /\ i \in Nat /\ i <= n
    BY <1>1, <1>5
  <2>2. f[i] >= i /\ f[i] \in Nat
    BY <1>3, <1>5, <2>1
  <2>3. f[i + 1] = f[i] + q[i + 1] /\ q[i + 1] >= 1 /\ q[i + 1] \in Nat
    BY <1>1, <1>3, <2>1
  <2> QED BY <2>1, <2>2, <2>3
<1>6. n \in T
  <2> HIDE DEF T
  <2>1. \A i \in 0..n : i \in T
    BY <1>1, <1>4, <1>5, UpTo
  <2> QED BY <1>1, <2>1
<1> QED BY <1>1, <1>2, <1>3, <1>6 DEF n
-----------------------------------------------------------------------------
(* Types *)

LEMMA IngressSet ==
  ASSUME ingress \in [Server -> [Client -> Ingress]],
         NEW s \in Server, NEW c \in Client, NEW new \in Ingress,
         ingress' = [ingress EXCEPT ![s][c] = new]
  PROVE  /\ ingress' \in [Server -> [Client -> Ingress]]
         /\ ingress'[s][c] = new
         /\ \A t \in Server, d \in Client :
              t # s \/ d # c => ingress'[t][d] = ingress[t][d]
OBVIOUS

LEMMA JumpProperties ==
  ASSUME NEW in \in Ingress, DOMAIN in.requests # {}, NEW cursor \in Nat
  PROVE  Jump(in, cursor) \in Nat /\ Jump(in, cursor) >= cursor
<1> DEFINE D == DOMAIN in.requests
           first == CHOOSE i \in D : \A j \in D : i <= j
<1>1. D \in SUBSET Nat /\ D # {}
  BY EntriesAre DEF Ingress
<1>2. Jump(in, cursor) = IF first > cursor THEN first ELSE cursor
  BY DEF Jump
<1>3. first \in Nat
  <2> HIDE DEF D
  <2>1. \E i \in D : \A j \in D : i <= j
    BY <1>1, LeastNat
  <2> QED BY <1>1, <2>1
<1> HIDE DEF first
<1> QED BY <1>2, <1>3

LEMMA WaitingAre ==
  \A m : m \in Waiting <=> DOMAIN m \in SUBSET Nat /\ m \in [DOMAIN m -> Seq(Nat)]
BY DEF Waiting

LEMMA InitTypes == Assumption /\ Init => TypeOK
<1> SUFFICES ASSUME Assumption, Init PROVE TypeOK
  OBVIOUS
<1>1. NoRequests \in Waiting /\ NoRequests \in Entries
  BY DEF NoRequests, Waiting, Entries
<1>2. ClientTypes
  BY <1>1 DEF Init, ClientInit, ClientTypes
<1>3. LinkTypes
  BY DEF Init, LinkTypes
<1>4. NewClient \in Ingress
  BY <1>1 DEF NewClient, Ingress, Assumption
<1>5. ServerTypes
  BY <1>4 DEF Init, ServerTypes
<1> QED BY <1>2, <1>3, <1>5 DEF Init, TypeOK

LEMMA TransmitTypes ==
  ASSUME Assumption, LinkTypes, NEW c \in Client, NEW reqs \in [Server -> Request],
         Transmit(c, reqs)
  PROVE  to_server' \in [Client -> [Server -> Seq(Request)]]
<1>1. \A s \in Server : Send(to_server[c][s], reqs[s], Window) \in Seq(Request)
  <2> TAKE s \in Server
  <2> DEFINE q == to_server[c][s]
             r == reqs[s]
  <2>1. q \in Seq(Request) /\ r \in Request /\ Window \in Nat \ {0}
    BY DEF LinkTypes, Assumption
  <2> HIDE DEF q, r
  <2>2. Send(q, r, Window) \in Seq(Request)
    BY <2>1, SendProperties
  <2> QED BY <2>2 DEF q, r
<1>2. to_server \in [Client -> [Server -> Seq(Request)]]
  BY DEF LinkTypes
<1>3. to_server' = [to_server EXCEPT ![c] =
                      [s \in Server |-> Send(to_server[c][s], reqs[s], Window)]]
  BY DEF Transmit
<1> QED BY <1>1, <1>2, <1>3

LEMMA RequestsTypes ==
  ASSUME path \in Paths, NEW c \in Client, NEW id \in Nat, NEW reqs \in Requests(c, id)
  PROVE  reqs \in [Server -> Request]
<1>1. PICK val \in [Server -> Value[path]] : reqs = [s \in Server |-> Req(c, id, val[s])]
  BY DEF Requests
<1>2. \A s \in Server : val[s] \in Values
  BY <1>1 DEF Values
<1>3. \A s \in Server : Req(c, id, val[s]) \in Request
  BY <1>2 DEF Req, Request
<1> QED BY <1>1, <1>3

LEMMA PostTypes ==
  ASSUME Assumption, TypeOK, NEW c \in Client, Post(c)
  PROVE  TypeOK'
<1> DEFINE id == next_request[c]
           w == WithKey(waiting[c], id, << >>)
<1>1. PICK reqs \in Requests(c, id) :
        IF path = "slow"
        THEN /\ signing' = [signing EXCEPT ![c] = Send(@, reqs, Window)]
             /\ UNCHANGED to_server
        ELSE Transmit(c, reqs) /\ UNCHANGED signing
  BY DEF Post
<1>2. id \in Nat /\ next_request' = [next_request EXCEPT ![c] = id + 1]
      /\ next_request \in [Client -> Nat]
  BY DEF Post, TypeOK, ClientTypes
<1>3. reqs \in [Server -> Request]
  BY <1>1, <1>2, RequestsTypes DEF TypeOK
<1>4. w \in Waiting
  <2> DEFINE m == waiting[c]
  <2>1. DOMAIN m \in SUBSET Nat /\ m \in [DOMAIN m -> Seq(Nat)]
    BY WaitingAre DEF TypeOK, ClientTypes
  <2>2. << >> \in Seq(Nat)
    OBVIOUS
  <2>3. w = WithKey(m, id, << >>)
    OBVIOUS
  <2> HIDE DEF m, w, id
  <2>4. /\ w = [i \in DOMAIN w |-> w[i]]
        /\ id \in DOMAIN w /\ w[id] = << >>
        /\ \A i \in DOMAIN w : i # id => i \in DOMAIN m /\ w[i] = m[i]
    BY <2>3, WithKeyProperties
  <2>5. DOMAIN w \in SUBSET Nat /\ \A i \in DOMAIN w : w[i] \in Seq(Nat)
    BY <1>2, <2>1, <2>2, <2>4
  <2>6. w \in [DOMAIN w -> Seq(Nat)]
    BY <2>4, <2>5
  <2> QED BY <2>5, <2>6, WaitingAre
<1>5. waiting' = [waiting EXCEPT ![c] = w] /\ waiting \in [Client -> Waiting]
  BY DEF Post, TypeOK, ClientTypes
<1>6. signing' \in [Client -> Seq([Server -> Request])]
  <2>1. signing \in [Client -> Seq([Server -> Request])]
    BY DEF TypeOK, ClientTypes
  <2>2. CASE path = "slow"
    <3> DEFINE q == signing[c]
    <3>1. q \in Seq([Server -> Request]) /\ Window \in Nat \ {0}
      BY <2>1 DEF Assumption
    <3>2. signing' = [signing EXCEPT ![c] = Send(q, reqs, Window)]
      BY <1>1, <2>2
    <3> HIDE DEF q
    <3>3. Send(q, reqs, Window) \in Seq([Server -> Request])
      BY <1>3, <3>1, SendProperties
    <3> QED BY <2>1, <3>2, <3>3
  <2>3. CASE path # "slow"
    BY <1>1, <2>1, <2>3
  <2> QED BY <2>2, <2>3
<1>7. to_server' \in [Client -> [Server -> Seq(Request)]]
  <2>1. CASE path = "slow"
    BY <1>1, <2>1 DEF TypeOK, LinkTypes
  <2>2. CASE path # "slow"
    BY <1>1, <1>3, <2>2, TransmitTypes DEF TypeOK
  <2> QED BY <2>1, <2>2
<1> HIDE DEF id, w
<1>8. next_request' \in [Client -> Nat] /\ waiting' \in [Client -> Waiting]
  BY <1>2, <1>4, <1>5
<1>9. ClientTypes'
  BY <1>6, <1>8 DEF Post, TypeOK, ClientTypes
<1>10. LinkTypes'
  BY <1>7 DEF Post, TypeOK, LinkTypes, link_vars
<1>11. ServerTypes'
  BY DEF Post, TypeOK, ServerTypes, verify_vars, smr_vars
<1> QED BY <1>9, <1>10, <1>11 DEF Post, TypeOK

LEMMA SignTypes ==
  ASSUME Assumption, TypeOK, NEW c \in Client, Sign(c)
  PROVE  TypeOK'
<1> DEFINE q == signing[c]
<1>1. PICK i \in DOMAIN q : /\ Transmit(c, q[i])
                            /\ signing' = [signing EXCEPT ![c] = Without(q, i)]
  BY DEF Sign
<1>2. signing \in [Client -> Seq([Server -> Request])] /\ q \in Seq([Server -> Request])
  BY DEF TypeOK, ClientTypes
<1> HIDE DEF q
<1>3. q[i] \in [Server -> Request]
  BY <1>2
<1>4. to_server' \in [Client -> [Server -> Seq(Request)]]
  BY <1>1, <1>3, TransmitTypes DEF TypeOK
<1>5. Without(q, i) \in Seq([Server -> Request])
  BY <1>2, WithoutProperties
<1>6. signing' \in [Client -> Seq([Server -> Request])]
  BY <1>1, <1>2, <1>5
<1>7. ClientTypes'
  BY <1>6 DEF Sign, TypeOK, ClientTypes
<1>8. LinkTypes'
  BY <1>4 DEF Sign, TypeOK, LinkTypes, link_vars
<1>9. ServerTypes'
  BY DEF Sign, TypeOK, ServerTypes, verify_vars, smr_vars
<1> QED BY <1>7, <1>8, <1>9 DEF Sign, TypeOK
-----------------------------------------------------------------------------
(* What the actions leave alone *)

LEMMA ServerFrame ==
  ASSUME TypeOK, ServerInv, UNCHANGED <<path, accepted, log, echo_link>>,
         \A s \in Server, c \in Client :
           /\ IngressOK(s, c, ingress'[s][c], accepted)
           /\ ingress'[s][c].received = ingress[s][c].received
           /\ ingress'[s][c].proposable = ingress[s][c].proposable
  PROVE  Assumption => ServerInv'
<1> SUFFICES ASSUME Assumption PROVE ServerInv'
  OBVIOUS
<1>1. IngressKept'
  BY DEF IngressKept
<1>2. EchoesAccepted'
  BY DEF ServerInv, EchoesAccepted
<1>3. Ordered'
  <2>1. \A c \in Client : \A s \in Server : InOrder(accepted'[s], c, ingress'[s][c].received)
    BY DEF ServerInv, Ordered
  <2>2. \A c \in Client : InOrder(log', c, ingress'[Leader][c].proposable)
    BY LeaderServes DEF ServerInv, Ordered
  <2> QED BY <2>1, <2>2 DEF Ordered, InOrder
<1>4. FastAccepted'
  BY DEF ServerInv, FastAccepted
<1> QED BY <1>1, <1>2, <1>3, <1>4 DEF ServerInv

LEMMA ServerSame ==
  ASSUME ServerInv, UNCHANGED <<path, accepted, log, echo_link, ingress>>
  PROVE  ServerInv'
<1>1. IngressKept' /\ EchoesAccepted' /\ FastAccepted'
  BY DEF ServerInv, IngressKept, EchoesAccepted, FastAccepted
<1>2. Ordered'
  BY DEF ServerInv, Ordered, InOrder
<1> QED BY <1>1, <1>2 DEF ServerInv

LEMMA ClientSame ==
  ASSUME ClientInv, UNCHANGED <<next_request, waiting, next_response, answers,
                                to_client, log, executed>>
  PROVE  ClientInv'
<1>1. ExecutedInLog'
  BY DEF ClientInv, ExecutedInLog
<1>2. \A c : \A id : \A p : Place(c, id, p)' = Place(c, id, p)
  BY DEF Place
<1>3. ASSUME NEW s \in Server, NEW c \in Client PROVE ResponsesOK(s, c)'
  <2>1. ResponsesOK(s, c)
    BY DEF ClientInv
  <2> QED BY <1>2, <2>1 DEF ResponsesOK
<1>4. \A c : \A id : Answerers(c, id)' = Answerers(c, id)
  BY <1>2 DEF Answerers
<1>5. ASSUME NEW c \in Client PROVE WaitingOK(c)' /\ AnswersOK(c)'
  <2>1. WaitingOK(c) /\ AnswersOK(c)
    BY DEF ClientInv
  <2>2. WaitingOK(c)'
    BY <1>2, <1>4, <2>1 DEF WaitingOK
  <2>3. AnswersOK(c)'
    BY <1>2, <2>1 DEF AnswersOK
  <2> QED BY <2>2, <2>3
<1> QED BY <1>1, <1>3, <1>5 DEF ClientInv

LEMMA CreditsSame ==
  ASSUME CreditsOK, UNCHANGED link_vars
  PROVE  CreditsOK'
BY DEF CreditsOK, CreditsBalance, link_vars

-----------------------------------------------------------------------------
(* The servers *)

LEMMA PollClientRequestKeeps ==
  ASSUME Assumption, Inv, NEW s \in Server, NEW c \in Client, PollClientRequest(s, c)
  PROVE  Inv'
<1> DEFINE r == Head(to_server[c][s])
           in == ingress[s][c]
           new == IF r.id \in DOMAIN in.requests \/ r.id < in.min
                  THEN in ELSE Inserted(in, r)
<1>1. to_server[c][s] \in Seq(Request) /\ to_server[c][s] # << >>
      /\ to_server \in [Client -> [Server -> Seq(Request)]]
  BY DEF PollClientRequest, Inv, TypeOK, LinkTypes
<1>2. r \in Request /\ Tail(to_server[c][s]) \in Seq(Request)
  BY <1>1, TailProperties
<1>3. /\ in \in Ingress /\ IngressOK(s, c, in, accepted) /\ r.id \in Nat /\ in.min \in Nat
      /\ ingress \in [Server -> [Client -> Ingress]]
  <2>1. in \in Ingress /\ ingress \in [Server -> [Client -> Ingress]]
    BY DEF Inv, TypeOK, ServerTypes
  <2>2. IngressOK(s, c, in, accepted)
    BY DEF Inv, ServerInv, IngressKept
  <2>3. r.id \in Nat
    <3> HIDE DEF r
    <3> QED BY <1>2 DEF Request
  <2>4. in.min \in Nat
    <3> HIDE DEF in
    <3> QED BY <2>1 DEF Ingress
  <2> QED BY <2>1, <2>2, <2>3, <2>4
<1>4. ingress' = [ingress EXCEPT ![s][c] = new]
  BY <1>3 DEF PollClientRequest
<1>5. /\ new \in Ingress /\ IngressOK(s, c, new, accepted)
      /\ new.received = in.received /\ new.proposable = in.proposable
  <2>1. CASE r.id \in DOMAIN in.requests \/ r.id < in.min
    BY <1>3, <2>1
  <2>2. CASE ~(r.id \in DOMAIN in.requests \/ r.id < in.min)
    <3>1. new = Inserted(in, r) /\ r.id \notin DOMAIN in.requests /\ r.id >= in.min
      BY <1>3, <2>2
    <3> HIDE DEF new, in, r
    <3> QED BY <1>2, <1>3, <3>1, InsertedKept
  <2> QED BY <2>1, <2>2
<1> HIDE DEF new
<1>6. /\ ingress' \in [Server -> [Client -> Ingress]] /\ ingress'[s][c] = new
      /\ \A t \in Server, d \in Client : t # s \/ d # c => ingress'[t][d] = ingress[t][d]
  BY <1>3, <1>4, <1>5, IngressSet
<1>7. to_server' \in [Client -> [Server -> Seq(Request)]]
  BY <1>1, <1>2 DEF PollClientRequest
<1>8. connected' \in [Server -> SUBSET Client]
  <2>1. connected' = connected \/ connected' = [connected EXCEPT ![s] = connected[s] \cup {c}]
    BY DEF PollClientRequest
  <2>2. connected \in [Server -> SUBSET Client]
    BY DEF Inv, TypeOK, ServerTypes
  <2> QED BY <2>1, <2>2
<1>9. TypeOK'
  <2>1. ClientTypes'
    BY DEF PollClientRequest, Inv, TypeOK, ClientTypes, client_vars
  <2>2. LinkTypes'
    BY <1>7 DEF PollClientRequest, Inv, TypeOK, LinkTypes, link_vars
  <2>3. ServerTypes'
    BY <1>6, <1>8 DEF PollClientRequest, Inv, TypeOK, ServerTypes, verify_vars, smr_vars
  <2> QED BY <2>1, <2>2, <2>3 DEF PollClientRequest, Inv, TypeOK
<1>10. ServerInv'
  <2>1. ASSUME NEW t \in Server, NEW d \in Client
        PROVE  /\ IngressOK(t, d, ingress'[t][d], accepted)
               /\ ingress'[t][d].received = ingress[t][d].received
               /\ ingress'[t][d].proposable = ingress[t][d].proposable
    <3>1. CASE t = s /\ d = c
      BY <1>5, <1>6, <3>1
    <3>2. CASE t # s \/ d # c
      BY <1>6, <3>2 DEF Inv, ServerInv, IngressKept
    <3> QED BY <3>1, <3>2
  <2>2. UNCHANGED <<path, accepted, log, echo_link>>
    BY DEF PollClientRequest, smr_vars, link_vars
  <2> QED BY <2>1, <2>2, ServerFrame DEF Inv
<1>11. ClientInv'
  BY ClientSame DEF PollClientRequest, Inv, client_vars, smr_vars
<1>12. CreditsOK'
  BY CreditsSame DEF PollClientRequest, Inv
<1> QED BY <1>9, <1>10, <1>11, <1>12 DEF Inv

LEMMA PollClientSignedRequestKeeps ==
  ASSUME Assumption, Inv, NEW s \in Server, NEW c \in Client,
         PollClientSignedRequest(s, c)
  PROVE  Inv'
<1> DEFINE r == Head(to_server[c][s])
           q == verifying[s][c]["client"]
           tasks == Offload(q, ingress[s][c], r)
<1>1. /\ to_server[c][s] \in Seq(Request) /\ to_server[c][s] # << >>
      /\ to_server \in [Client -> [Server -> Seq(Request)]]
      /\ verifying \in [Server -> [Client -> [Source -> Seq(Request)]]]
      /\ "client" \in Source
  BY DEF PollClientSignedRequest, Inv, TypeOK, LinkTypes, ServerTypes, Source
<1>2. r \in Request /\ Tail(to_server[c][s]) \in Seq(Request)
  BY <1>1, TailProperties
<1>3. tasks \in Seq(Request)
  <2>1. q \in Seq(Request) /\ Window \in Nat \ {0}
    BY <1>1 DEF Assumption
  <2> HIDE DEF q, r
  <2>2. Send(q, r, Window) \in Seq(Request)
    BY <1>2, <2>1, SendProperties
  <2> QED BY <2>1, <2>2 DEF Offload
<1>4. verifying' = [verifying EXCEPT ![s][c]["client"] = tasks]
  BY DEF PollClientSignedRequest
<1> HIDE DEF tasks
<1>5. verifying' \in [Server -> [Client -> [Source -> Seq(Request)]]]
  BY <1>1, <1>3, <1>4
<1>6. to_server' \in [Client -> [Server -> Seq(Request)]]
  BY <1>1, <1>2 DEF PollClientSignedRequest
<1>7. connected' \in [Server -> SUBSET Client]
  BY DEF PollClientSignedRequest, Inv, TypeOK, ServerTypes
<1>8. TypeOK'
  <2>1. ClientTypes'
    BY DEF PollClientSignedRequest, Inv, TypeOK, ClientTypes, client_vars
  <2>2. LinkTypes'
    BY <1>6 DEF PollClientSignedRequest, Inv, TypeOK, LinkTypes, link_vars
  <2>3. ServerTypes'
    BY <1>5, <1>7 DEF PollClientSignedRequest, Inv, TypeOK, ServerTypes, smr_vars
  <2> QED BY <2>1, <2>2, <2>3 DEF PollClientSignedRequest, Inv, TypeOK
<1>9. ServerInv'
  BY ServerSame DEF PollClientSignedRequest, Inv, smr_vars, link_vars
<1>10. ClientInv'
  BY ClientSame DEF PollClientSignedRequest, Inv, client_vars, smr_vars
<1>11. CreditsOK'
  BY CreditsSame DEF PollClientSignedRequest, Inv
<1> QED BY <1>8, <1>9, <1>10, <1>11 DEF Inv

LEMMA VerifyKeeps ==
  ASSUME Assumption, Inv, NEW s \in Server, NEW c \in Client, Verify(s, c)
  PROVE  Inv'
<1>0. PICK from \in Source : \E i \in DOMAIN verifying[s][c][from] :
        /\ verified' = [verified EXCEPT ![s][c] = Append(@, verifying[s][c][from][i])]
        /\ verifying' = [verifying EXCEPT ![s][c][from] = Without(@, i)]
  BY DEF Verify
<1>1. PICK i \in DOMAIN verifying[s][c][from] :
        /\ verified' = [verified EXCEPT ![s][c] = Append(@, verifying[s][c][from][i])]
        /\ verifying' = [verifying EXCEPT ![s][c][from] = Without(@, i)]
  BY <1>0
<1> DEFINE q == verifying[s][c][from]
<1>2. /\ verifying \in [Server -> [Client -> [Source -> Seq(Request)]]]
      /\ verified \in [Server -> [Client -> Seq(Request)]]
      /\ q \in Seq(Request)
  BY DEF Inv, TypeOK, ServerTypes
<1>3. q[i] \in Request /\ Without(q, i) \in Seq(Request)
  <2>1. i \in DOMAIN q
    BY <1>1
  <2> HIDE DEF q
  <2> QED BY <1>2, <2>1, WithoutProperties
<1>4. verifying' \in [Server -> [Client -> [Source -> Seq(Request)]]]
  BY <1>1, <1>2, <1>3
<1>5. verified' \in [Server -> [Client -> Seq(Request)]]
  <2>1. Append(verified[s][c], q[i]) \in Seq(Request)
    <3> HIDE DEF q
    <3> QED BY <1>2, <1>3
  <2> QED BY <1>1, <1>2, <2>1
<1>6. TypeOK'
  <2>1. ClientTypes'
    BY DEF Verify, Inv, TypeOK, ClientTypes, client_vars
  <2>2. LinkTypes'
    BY DEF Verify, Inv, TypeOK, LinkTypes, link_vars
  <2>3. ServerTypes'
    BY <1>4, <1>5 DEF Verify, Inv, TypeOK, ServerTypes, smr_vars
  <2> QED BY <2>1, <2>2, <2>3 DEF Verify, Inv, TypeOK
<1>7. ServerInv'
  BY ServerSame DEF Verify, Inv, smr_vars, link_vars
<1>8. ClientInv'
  BY ClientSame DEF Verify, Inv, client_vars, smr_vars
<1>9. CreditsOK'
  BY CreditsSame DEF Verify, Inv
<1> QED BY <1>6, <1>7, <1>8, <1>9 DEF Inv
LEMMA SignedProperties ==
  ASSUME NEW x \in EntryRecord
  PROVE  /\ [x EXCEPT !.signed = TRUE] \in EntryRecord
         /\ [x EXCEPT !.signed = TRUE].value = x.value
         /\ [x EXCEPT !.signed = TRUE].echoes = x.echoes
BY DEF EntryRecord

(* An id above the last emplaced is a new entry, any other is not.           *)
WithSignature(in, r) ==
  IF r.id \in DOMAIN in.requests
  THEN [in EXCEPT !.requests[r.id].signed = TRUE]
  ELSE IF r.id < in.min THEN in
  ELSE [in EXCEPT !.requests = WithKey(@, r.id, Entry(r.value, TRUE)),
                  !.min = r.id]

LEMMA SignatureKept ==
  ASSUME NEW s \in Server, NEW c \in Client, NEW in \in Ingress,
         IngressOK(s, c, in, accepted), NEW r \in Request
  PROVE  /\ WithSignature(in, r) \in Ingress
         /\ IngressOK(s, c, WithSignature(in, r), accepted)
         /\ WithSignature(in, r).received = in.received
         /\ WithSignature(in, r).proposable = in.proposable
<1> DEFINE new == WithSignature(in, r)
<1>1. /\ r.id \in Nat /\ r.value \in Values /\ in.min \in Nat
      /\ in.requests \in Entries
      /\ in.requests \in [DOMAIN in.requests -> EntryRecord]
  BY EntriesAre DEF Request, Ingress
<1>2. CASE r.id \in DOMAIN in.requests
  <2> DEFINE x == in.requests[r.id]
             e == [x EXCEPT !.signed = TRUE]
  <2>1. new = [in EXCEPT !.requests = [in.requests EXCEPT ![r.id] = e]]
    <3>1. in.requests = in["requests"] /\ x.signed = x["signed"]
      OBVIOUS
    <3> QED BY <1>2, <3>1 DEF WithSignature
  <2>2. x \in EntryRecord
    BY <1>1, <1>2
  <2>3. e \in EntryRecord /\ e.value = x.value /\ e.echoes = x.echoes
    <3> HIDE DEF x
    <3> QED BY <2>2, SignedProperties
  <2>4. \A f \in x.echoes : Among(accepted[f], Req(c, r.id, x.value))
    BY <1>2 DEF IngressOK
  <2> HIDE DEF e
  <2>5. \A f \in e.echoes : Among(accepted[f], Req(c, r.id, e.value))
    BY <2>3, <2>4
  <2> HIDE DEF new
  <2>6. /\ new \in Ingress /\ IngressOK(s, c, new, accepted)
        /\ new.received = in.received /\ new.proposable = in.proposable
    BY <1>2, <2>1, <2>3, <2>5, EntryKept DEF x
  <2> QED BY <2>6 DEF new
<1>3. CASE r.id \notin DOMAIN in.requests /\ r.id < in.min
  BY <1>3 DEF WithSignature
<1>4. CASE r.id \notin DOMAIN in.requests /\ ~(r.id < in.min)
  <2> DEFINE e == Entry(r.value, TRUE)
             w == WithKey(in.requests, r.id, e)
  <2>1. new = [in EXCEPT !.requests = w, !.min = r.id]
    BY <1>4 DEF WithSignature
  <2>2. e \in EntryRecord /\ e.echoes = {}
    BY <1>1 DEF Entry, EntryRecord
  <2> HIDE DEF e
  <2>3. w \in Entries
    BY <1>1, <2>2, EntryAdded
  <2>4. r.id >= in.min /\ \A f \in e.echoes : Among(accepted[f], Req(c, r.id, e.value))
    BY <1>1, <1>4, <2>2
  <2>5. \A f \in Server : \A i \in 1..Len(in.buffered[f]) :
          in.buffered[f][i].client = c /\ Among(accepted[f], in.buffered[f][i])
    BY DEF IngressOK
  <2>6. w = WithKey(in.requests, r.id, e)
    OBVIOUS
  <2> HIDE DEF w, new
  <2>7. /\ new \in Ingress /\ new.requests = w /\ new.min = r.id
        /\ new.buffered = in.buffered /\ new.received = in.received
        /\ new.proposable = in.proposable
    BY <1>1, <2>1, <2>3 DEF Ingress
  <2>8. new.requests = WithKey(in.requests, r.id, e)
    BY <2>6, <2>7
  <2>9. \A f \in Server : \A i \in 1..Len(new.buffered[f]) :
          new.buffered[f][i].client = c /\ Among(accepted[f], new.buffered[f][i])
    BY <2>5, <2>7
  <2>10. IngressOK(s, c, new, accepted)
    BY <1>1, <1>4, <2>2, <2>4, <2>7, <2>8, <2>9, NewEntryKept
  <2> QED BY <2>7, <2>10 DEF new
<1> QED BY <1>2, <1>3, <1>4

LEMMA PollVerifiedSignatureKeeps ==
  ASSUME Assumption, Inv, NEW s \in Server, NEW c \in Client,
         PollVerifiedSignature(s, c)
  PROVE  Inv'
<1> DEFINE q == verified[s][c]
           r == Head(q)
           in == ingress[s][c]
           new == WithSignature(in, r)
<1>1. q \in Seq(Request) /\ q # << >> /\ verified \in [Server -> [Client -> Seq(Request)]]
  BY DEF PollVerifiedSignature, Inv, TypeOK, ServerTypes
<1>2. r \in Request /\ Tail(q) \in Seq(Request)
  <2> HIDE DEF q
  <2> QED BY <1>1, TailProperties
<1>3. /\ in \in Ingress /\ IngressOK(s, c, in, accepted)
      /\ ingress \in [Server -> [Client -> Ingress]]
  <2>1. in \in Ingress /\ ingress \in [Server -> [Client -> Ingress]]
    BY DEF Inv, TypeOK, ServerTypes
  <2>2. IngressOK(s, c, in, accepted)
    BY DEF Inv, ServerInv, IngressKept
  <2> QED BY <2>1, <2>2
<1>4. ingress' = [ingress EXCEPT ![s][c] = new]
  BY DEF PollVerifiedSignature, WithSignature
<1>6. /\ new \in Ingress /\ IngressOK(s, c, new, accepted)
      /\ new.received = in.received /\ new.proposable = in.proposable
  <2> HIDE DEF in, r
  <2> QED BY <1>2, <1>3, SignatureKept
<1> HIDE DEF new
<1>7. /\ ingress' \in [Server -> [Client -> Ingress]] /\ ingress'[s][c] = new
      /\ \A t \in Server, d \in Client : t # s \/ d # c => ingress'[t][d] = ingress[t][d]
  BY <1>3, <1>4, <1>6, IngressSet
<1>8. verified' \in [Server -> [Client -> Seq(Request)]]
  BY <1>1, <1>2 DEF PollVerifiedSignature
<1>9. TypeOK'
  <2>1. ClientTypes'
    BY DEF PollVerifiedSignature, Inv, TypeOK, ClientTypes, client_vars
  <2>2. LinkTypes'
    BY DEF PollVerifiedSignature, Inv, TypeOK, LinkTypes, link_vars
  <2>3. ServerTypes'
    BY <1>7, <1>8 DEF PollVerifiedSignature, Inv, TypeOK, ServerTypes, smr_vars
  <2> QED BY <2>1, <2>2, <2>3 DEF PollVerifiedSignature, Inv, TypeOK
<1>10. ServerInv'
  <2>1. ASSUME NEW t \in Server, NEW d \in Client
        PROVE  /\ IngressOK(t, d, ingress'[t][d], accepted)
               /\ ingress'[t][d].received = ingress[t][d].received
               /\ ingress'[t][d].proposable = ingress[t][d].proposable
    <3>1. CASE t = s /\ d = c
      BY <1>6, <1>7, <3>1
    <3>2. CASE t # s \/ d # c
      BY <1>7, <3>2 DEF Inv, ServerInv, IngressKept
    <3> QED BY <3>1, <3>2
  <2>2. UNCHANGED <<path, accepted, log, echo_link>>
    BY DEF PollVerifiedSignature, smr_vars, link_vars
  <2> QED BY <2>1, <2>2, ServerFrame DEF Inv
<1>11. ClientInv'
  BY ClientSame DEF PollVerifiedSignature, Inv, client_vars, smr_vars
<1>12. CreditsOK'
  BY CreditsSame DEF PollVerifiedSignature, Inv
<1> QED BY <1>9, <1>10, <1>11, <1>12 DEF Inv
-----------------------------------------------------------------------------
(* The links between servers *)

LEMMA CreditsOf ==
  ASSUME TypeOK, CreditsOK, NEW s \in Server, NEW t \in Server
  PROVE  /\ echo_link[s][t] \in Seq(Request) /\ ack_link[t][s] \in Seq(Nat)
         /\ Len(echo_link[s][t]) \in Nat /\ Len(ack_link[t][s]) \in Nat
         /\ SumOf(ack_link[t][s]) \in Nat
         /\ SumOf(ack_link[t][s]) >= Len(ack_link[t][s])
         /\ outstanding[s][t] = Len(echo_link[s][t]) + SumOf(ack_link[t][s])
         /\ outstanding[s][t] \in Nat /\ outstanding[s][t] <= ServerWindow
         /\ \A i \in 1..Len(ack_link[t][s]) : ack_link[t][s][i] >= 1
<1> DEFINE q == ack_link[t][s]
           e == echo_link[s][t]
<1>1. q \in Seq(Nat) /\ e \in Seq(Request) /\ outstanding[s][t] \in Nat
  BY DEF TypeOK, LinkTypes
<1>2. \A i \in 1..Len(q) : q[i] >= 1
  BY DEF CreditsOK
<1>3. outstanding[s][t] = Len(e) + SumOf(q) /\ outstanding[s][t] <= ServerWindow
  BY DEF CreditsOK, CreditsBalance
<1> HIDE DEF q, e
<1>4. SumOf(q) >= Len(q) /\ SumOf(q) \in Nat /\ Len(q) \in Nat /\ Len(e) \in Nat
  BY <1>1, <1>2, SumAtLeastLength
<1> QED BY <1>1, <1>2, <1>3, <1>4 DEF q, e

LEMMA CreditsKept ==
  ASSUME CreditsOK, NEW s \in Server, NEW t \in Server,
         outstanding'[s][t] = Len(echo_link'[s][t]) + SumOf(ack_link'[t][s]),
         outstanding'[s][t] <= ServerWindow,
         \A i \in 1..Len(ack_link'[t][s]) : ack_link'[t][s][i] >= 1,
         \A x, y \in Server : x # s \/ y # t =>
           /\ outstanding'[x][y] = outstanding[x][y]
           /\ echo_link'[x][y] = echo_link[x][y]
           /\ ack_link'[y][x] = ack_link[y][x]
  PROVE  CreditsOK'
<1> SUFFICES ASSUME NEW x \in Server, NEW y \in Server
             PROVE  /\ outstanding'[x][y] = Len(echo_link'[x][y]) + SumOf(ack_link'[y][x])
                    /\ outstanding'[x][y] <= ServerWindow
                    /\ \A i \in 1..Len(ack_link'[y][x]) : ack_link'[y][x][i] >= 1
  BY DEF CreditsOK, CreditsBalance, SumOf
<1>1. CASE x = s /\ y = t
  BY <1>1
<1>2. CASE x # s \/ y # t
  <2>1. /\ outstanding'[x][y] = outstanding[x][y]
        /\ echo_link'[x][y] = echo_link[x][y]
        /\ ack_link'[y][x] = ack_link[y][x]
    BY <1>2
  <2>2. /\ outstanding[x][y] = Len(echo_link[x][y]) + SumOf(ack_link[y][x])
        /\ outstanding[x][y] <= ServerWindow
        /\ \A i \in 1..Len(ack_link[y][x]) : ack_link[y][x][i] >= 1
    BY DEF CreditsOK, CreditsBalance
  <2> QED BY <2>1, <2>2
<1> QED BY <1>1, <1>2

LEMMA RelayKeeps ==
  ASSUME Assumption, Inv, NEW s \in Server, NEW t \in Server, NEW c \in Client,
         Relay(s, t, c)
  PROVE  Inv'
<1> DEFINE in == ingress[s][c]
           id == Jump(in, in.relay[t])
           q == echo_link[s][t]
           r == Req(c, id, in.requests[id].value)
           new == [in EXCEPT !.relay = [in.relay EXCEPT ![t] = id + 1]]
<1>1. /\ in \in Ingress /\ IngressOK(s, c, in, accepted)
      /\ ingress \in [Server -> [Client -> Ingress]]
      /\ q \in Seq(Request) /\ echo_link \in [Server -> [Server -> Seq(Request)]]
      /\ outstanding \in [Server -> [Server -> Nat]]
      /\ ServerWindow \in Nat \ {0}
  <2>1. in \in Ingress /\ ingress \in [Server -> [Client -> Ingress]]
    BY DEF Inv, TypeOK, ServerTypes
  <2>2. IngressOK(s, c, in, accepted)
    BY DEF Inv, ServerInv, IngressKept
  <2>3. /\ q \in Seq(Request) /\ echo_link \in [Server -> [Server -> Seq(Request)]]
        /\ outstanding \in [Server -> [Server -> Nat]]
    BY DEF Inv, TypeOK, LinkTypes
  <2> QED BY <2>1, <2>2, <2>3 DEF Assumption
<1>2. /\ outstanding[s][t] < ServerWindow /\ DOMAIN in.requests # {}
      /\ IF t = Leader THEN pollToEcho(in, id) ELSE pollToForward(in, id)
      /\ echo_link' = [echo_link EXCEPT ![s][t] = Send(q, r, ServerWindow)]
      /\ ingress' = [ingress EXCEPT ![s][c].relay[t] = id + 1]
      /\ outstanding' = [outstanding EXCEPT ![s][t] = outstanding[s][t] + 1]
  BY DEF Relay
<1>3. id \in DOMAIN in.requests /\ (t = Leader => id < in.received)
  BY <1>2 DEF pollToEcho, pollToForward
<1>4. ingress' = [ingress EXCEPT ![s][c] = new]
  BY <1>1, <1>2
<1> HIDE DEF id, in
<1>5. /\ in.requests \in [DOMAIN in.requests -> EntryRecord]
      /\ DOMAIN in.requests \in SUBSET Nat
      /\ in.relay \in [Server -> Nat]
  BY <1>1, EntriesAre DEF Ingress
<1>6. r \in Request /\ id \in Nat
  <2>1. in.requests[id] \in EntryRecord
    BY <1>3, <1>5
  <2>2. in.requests[id].value \in Values
    BY <2>1 DEF EntryRecord
  <2>3. id \in Nat
    BY <1>3, <1>5
  <2> QED BY <2>2, <2>3 DEF Req, Request
<1>7. /\ new \in Ingress /\ IngressOK(s, c, new, accepted)
      /\ new.received = in.received /\ new.proposable = in.proposable
  <2> DEFINE relay == [in.relay EXCEPT ![t] = id + 1]
  <2>1. relay \in [Server -> Nat]
    BY <1>5, <1>6
  <2>2. new = [in EXCEPT !.relay = relay]
    OBVIOUS
  <2> HIDE DEF relay, new
  <2>3. /\ new \in Ingress /\ new.requests = in.requests /\ new.min = in.min
        /\ new.buffered = in.buffered /\ new.received = in.received
        /\ new.proposable = in.proposable
    BY <1>1, <2>1, <2>2 DEF Ingress
  <2>4. IngressOK(s, c, new, accepted)
    BY <1>1, <2>3 DEF IngressOK
  <2> QED BY <2>3, <2>4
<1> HIDE DEF new, r, q
<1>8. /\ ingress' \in [Server -> [Client -> Ingress]] /\ ingress'[s][c] = new
      /\ \A x \in Server, d \in Client : x # s \/ d # c => ingress'[x][d] = ingress[x][d]
  BY <1>1, <1>4, <1>7, IngressSet
<1>9. /\ Len(q) < ServerWindow /\ Len(q) \in Nat
      /\ outstanding[s][t] = Len(q) + SumOf(ack_link[t][s])
      /\ SumOf(ack_link[t][s]) \in Nat
      /\ \A i \in 1..Len(ack_link[t][s]) : ack_link[t][s][i] >= 1
  <2>1. /\ Len(q) \in Nat /\ outstanding[s][t] = Len(q) + SumOf(ack_link[t][s])
        /\ SumOf(ack_link[t][s]) \in Nat
        /\ \A i \in 1..Len(ack_link[t][s]) : ack_link[t][s][i] >= 1
    BY CreditsOf DEF Inv, q
  <2> QED BY <1>1, <1>2, <2>1
<1>10. Send(q, r, ServerWindow) = Append(q, r)
  BY <1>9 DEF Send
<1>11. /\ Append(q, r) \in Seq(Request) /\ Len(Append(q, r)) = Len(q) + 1
       /\ \A i \in 1..Len(q) : Append(q, r)[i] = q[i]
       /\ Append(q, r)[Len(q) + 1] = r
  BY <1>1, <1>6, AppendProperties
<1>12. /\ echo_link' \in [Server -> [Server -> Seq(Request)]]
       /\ echo_link'[s][t] = Append(q, r)
       /\ \A x, y \in Server : x # s \/ y # t => echo_link'[x][y] = echo_link[x][y]
  <2> DEFINE u == Append(q, r)
  <2>1. u \in Seq(Request) /\ echo_link' = [echo_link EXCEPT ![s][t] = u]
    BY <1>2, <1>10, <1>11
  <2> HIDE DEF u
  <2>2. /\ echo_link' \in [Server -> [Server -> Seq(Request)]]
        /\ echo_link'[s][t] = u
        /\ \A x, y \in Server : x # s \/ y # t => echo_link'[x][y] = echo_link[x][y]
    BY <1>1, <2>1
  <2> QED BY <2>2 DEF u
<1>13. /\ outstanding' \in [Server -> [Server -> Nat]]
       /\ outstanding'[s][t] = outstanding[s][t] + 1
       /\ \A x, y \in Server : x # s \/ y # t => outstanding'[x][y] = outstanding[x][y]
  BY <1>1, <1>2
<1>14. TypeOK'
  <2>1. ClientTypes'
    BY DEF Relay, Inv, TypeOK, ClientTypes, client_vars
  <2>2. LinkTypes'
    BY <1>12, <1>13 DEF Relay, Inv, TypeOK, LinkTypes
  <2>3. ServerTypes'
    BY <1>8 DEF Relay, Inv, TypeOK, ServerTypes, smr_vars, verify_vars
  <2> QED BY <2>1, <2>2, <2>3 DEF Relay, Inv, TypeOK
<1>15. ServerInv'
  <2>1. \A x \in Server, d \in Client :
           /\ IngressOK(x, d, ingress'[x][d], accepted)
           /\ ingress'[x][d].received = ingress[x][d].received
           /\ ingress'[x][d].proposable = ingress[x][d].proposable
    <3> TAKE x \in Server, d \in Client
    <3>1. CASE x = s /\ d = c
      BY <1>7, <1>8, <3>1 DEF in
    <3>2. CASE x # s \/ d # c
      BY <1>8, <3>2 DEF Inv, ServerInv, IngressKept
    <3> QED BY <3>1, <3>2
  <2>2. UNCHANGED <<path, accepted, log>>
    BY DEF Relay, smr_vars
  <2>3. IngressKept'
    BY <2>1, <2>2 DEF IngressKept
  <2>4. EchoesAccepted'
    <3>1. ASSUME NEW x \in Server, NEW i \in 1..Len(echo_link'[x][Leader])
          PROVE  Among(accepted[x], echo_link'[x][Leader][i])
      <4>1. \A j \in 1..Len(echo_link[x][Leader]) :
               Among(accepted[x], echo_link[x][Leader][j])
        BY DEF Inv, ServerInv, EchoesAccepted
      <4>2. CASE x = s /\ t = Leader
        <5>1. echo_link'[x][Leader] = Append(q, r) /\ q = echo_link[x][Leader]
          BY <1>12, <4>2 DEF q
        <5>2. i \in 1..Len(q) \/ i = Len(q) + 1
          BY <1>9, <1>11, <5>1
        <5>3. CASE i \in 1..Len(q)
          BY <1>11, <4>1, <5>1, <5>3
        <5>4. CASE i = Len(q) + 1
          <6>1. Among(accepted[s], r)
            BY <1>1, <1>3, <4>2 DEF IngressOK, r
          <6> QED BY <1>11, <4>2, <5>1, <5>4, <6>1
        <5> QED BY <5>2, <5>3, <5>4
      <4>3. CASE x # s \/ t # Leader
        <5>1. echo_link'[x][Leader] = echo_link[x][Leader]
          BY <1>12, <4>3, LeaderServes
        <5> QED BY <4>1, <5>1
      <4> QED BY <4>2, <4>3
    <3> QED BY <2>2, <3>1 DEF EchoesAccepted
  <2>5. Ordered'
    <3>1. \A d \in Client : \A x \in Server : InOrder(accepted'[x], d, ingress'[x][d].received)
      BY <2>1, <2>2 DEF Inv, ServerInv, Ordered
    <3>2. \A d \in Client : InOrder(log', d, ingress'[Leader][d].proposable)
      BY <2>1, <2>2, LeaderServes DEF Inv, ServerInv, Ordered
    <3> QED BY <3>1, <3>2 DEF Ordered, InOrder
  <2>6. FastAccepted'
    BY <2>2 DEF Inv, ServerInv, FastAccepted
  <2> QED BY <2>3, <2>4, <2>5, <2>6 DEF ServerInv
<1>16. ClientInv'
  BY ClientSame DEF Relay, Inv, client_vars, smr_vars
<1>17. CreditsOK'
  <2>1. ack_link' = ack_link
    BY DEF Relay
  <2>2. outstanding'[s][t] = Len(echo_link'[s][t]) + SumOf(ack_link'[t][s])
    BY <1>9, <1>11, <1>12, <1>13, <2>1
  <2>3. outstanding'[s][t] <= ServerWindow
    BY <1>1, <1>2, <1>13
  <2>4. \A i \in 1..Len(ack_link'[t][s]) : ack_link'[t][s][i] >= 1
    BY <1>9, <2>1
  <2>5. \A x, y \in Server : x # s \/ y # t =>
          /\ outstanding'[x][y] = outstanding[x][y]
          /\ echo_link'[x][y] = echo_link[x][y]
          /\ ack_link'[y][x] = ack_link[y][x]
    BY <1>12, <1>13, <2>1
  <2>6. CreditsOK
    BY DEF Inv
  <2> QED BY <2>2, <2>3, <2>4, <2>5, <2>6, CreditsKept
<1> QED BY <1>14, <1>15, <1>16, <1>17 DEF Inv
LEMMA TakenKeeps ==
  ASSUME Assumption, Inv, NEW s \in Server, NEW t \in Server,
         NEW k \in 1..MaxPolls, Taken(t, s, k)
  PROVE  /\ LinkTypes' /\ CreditsOK' /\ EchoesAccepted'
         /\ k \in 0..Len(echo_link[s][t])
<1> DEFINE e == echo_link[s][t]
           a == ack_link[t][s]
           left == SubSeq(e, k + 1, Len(e))
<1>1. /\ k <= Len(e) /\ echo_link' = [echo_link EXCEPT ![s][t] = left]
      /\ ack_link' = [ack_link EXCEPT ![t][s] = Send(a, k, ServerWindow)]
  BY DEF Taken, Acked
<1>2. /\ e \in Seq(Request) /\ a \in Seq(Nat) /\ Len(e) \in Nat /\ Len(a) \in Nat
      /\ SumOf(a) \in Nat /\ SumOf(a) >= Len(a)
      /\ outstanding[s][t] = Len(e) + SumOf(a)
      /\ outstanding[s][t] <= ServerWindow /\ outstanding[s][t] \in Nat
      /\ \A i \in 1..Len(a) : a[i] >= 1
  BY CreditsOf DEF Inv
<1>3. /\ echo_link \in [Server -> [Server -> Seq(Request)]]
      /\ ack_link \in [Server -> [Server -> Seq(Nat)]]
      /\ ServerWindow \in Nat /\ k \in Nat /\ k >= 1
  <2>1. k \in Nat /\ k >= 1
    BY DEF MaxPolls
  <2> QED BY <2>1 DEF Inv, TypeOK, LinkTypes, Assumption
<1> HIDE DEF e, a
<1>4. k \in 0..Len(e)
  BY <1>1, <1>2, <1>3
<1>5. /\ left \in Seq(Request) /\ Len(left) = Len(e) - k
      /\ \A i \in 1..(Len(e) - k) : left[i] = e[k + i]
  BY <1>2, <1>4, DropProperties
<1>6. Send(a, k, ServerWindow) = Append(a, k)
  <2>1. Len(a) < ServerWindow
    BY <1>1, <1>2, <1>3
  <2> QED BY <2>1 DEF Send
<1> DEFINE u == Append(a, k)
<1>7. /\ u \in Seq(Nat) /\ SumOf(u) = SumOf(a) + k /\ Len(u) = Len(a) + 1
      /\ \A i \in 1..Len(a) : u[i] = a[i]
      /\ u[Len(a) + 1] = k
  BY <1>2, <1>3, AppendProperties, SumOfAppend
<1>8. ack_link' = [ack_link EXCEPT ![t][s] = u]
  BY <1>1, <1>6
<1> HIDE DEF left, u
<1>9. /\ echo_link' \in [Server -> [Server -> Seq(Request)]]
      /\ echo_link'[s][t] = left
      /\ \A x, y \in Server : x # s \/ y # t => echo_link'[x][y] = echo_link[x][y]
  BY <1>1, <1>3, <1>5
<1>10. /\ ack_link' \in [Server -> [Server -> Seq(Nat)]]
       /\ ack_link'[t][s] = u
       /\ \A x, y \in Server : x # s \/ y # t => ack_link'[y][x] = ack_link[y][x]
  BY <1>3, <1>7, <1>8
<1>11. LinkTypes'
  BY <1>9, <1>10 DEF Taken, Inv, TypeOK, LinkTypes
<1>12. CreditsOK'
  <2>1. outstanding' = outstanding
    BY DEF Taken
  <2>2. outstanding'[s][t] = Len(echo_link'[s][t]) + SumOf(ack_link'[t][s])
    BY <1>2, <1>3, <1>5, <1>7, <1>9, <1>10, <2>1
  <2>3. outstanding'[s][t] <= ServerWindow
    BY <1>2, <2>1
  <2>4. \A i \in 1..Len(u) : u[i] >= 1
    <3> TAKE i \in 1..Len(u)
    <3>1. i \in 1..Len(a) \/ i = Len(a) + 1
      BY <1>2, <1>7
    <3> QED BY <1>2, <1>3, <1>7, <3>1
  <2>5. \A i \in 1..Len(ack_link'[t][s]) : ack_link'[t][s][i] >= 1
    BY <1>10, <2>4
  <2>6. \A x, y \in Server : x # s \/ y # t =>
          /\ outstanding'[x][y] = outstanding[x][y]
          /\ echo_link'[x][y] = echo_link[x][y]
          /\ ack_link'[y][x] = ack_link[y][x]
    BY <1>9, <1>10, <2>1
  <2>7. CreditsOK
    BY DEF Inv
  <2> QED BY <2>2, <2>3, <2>5, <2>6, <2>7, CreditsKept
<1>13. EchoesAccepted'
  <2>1. accepted' = accepted /\ EchoesAccepted
    BY DEF Taken, smr_vars, Inv, ServerInv
  <2>2. ASSUME NEW x \in Server, NEW i \in 1..Len(echo_link'[x][Leader])
        PROVE  Among(accepted[x], echo_link'[x][Leader][i])
    <3>1. \A j \in 1..Len(echo_link[x][Leader]) :
             Among(accepted[x], echo_link[x][Leader][j])
      BY <2>1 DEF EchoesAccepted
    <3>2. CASE x = s /\ t = Leader
      <4>1. echo_link'[x][Leader] = left /\ e = echo_link[x][Leader]
        BY <1>9, <3>2 DEF e
      <4>2. i \in 1..(Len(e) - k)
        BY <1>5, <4>1
      <4>3. k + i \in 1..Len(e)
        BY <1>2, <1>3, <1>4, <4>2
      <4> QED BY <1>5, <3>1, <4>1, <4>2, <4>3
    <3>3. CASE x # s \/ t # Leader
      <4>1. echo_link'[x][Leader] = echo_link[x][Leader]
        BY <1>9, <3>3, LeaderServes
      <4> QED BY <3>1, <4>1
    <3> QED BY <3>2, <3>3
  <2> QED BY <2>1, <2>2 DEF EchoesAccepted
<1> QED BY <1>4, <1>11, <1>12, <1>13 DEF e

LEMMA PollFollowerEchoesKeeps ==
  ASSUME Assumption, Inv, NEW s \in Server, pollFollowerEchoes(s)
  PROVE  Inv'
<1>1. PICK k \in 1..MaxPolls :
        /\ Taken(Leader, s, k)
        /\ ingress' = [ingress EXCEPT
             ![Leader] = [c \in Client |-> Echoes(ingress[Leader][c], s, c, k)]]
  BY DEF pollFollowerEchoes
<1>2. /\ LinkTypes' /\ CreditsOK' /\ EchoesAccepted'
      /\ k \in 0..Len(echo_link[s][Leader]) /\ Leader \in Server
  BY <1>1, LeaderServes, TakenKeeps
<1>3. /\ ingress \in [Server -> [Client -> Ingress]] /\ EchoesAccepted /\ TypeOK
      /\ \A t \in Server, c \in Client : IngressOK(t, c, ingress[t][c], accepted)
  BY DEF Inv, ServerInv, TypeOK, ServerTypes, IngressKept
<1>4. ASSUME NEW c \in Client
      PROVE  /\ Echoes(ingress[Leader][c], s, c, k) \in Ingress
             /\ IngressOK(Leader, c, Echoes(ingress[Leader][c], s, c, k), accepted)
             /\ Echoes(ingress[Leader][c], s, c, k).received = ingress[Leader][c].received
             /\ Echoes(ingress[Leader][c], s, c, k).proposable = ingress[Leader][c].proposable
  <2> DEFINE in == ingress[Leader][c]
  <2>1. in \in Ingress /\ IngressOK(Leader, c, in, accepted)
    BY <1>2, <1>3
  <2> HIDE DEF in
  <2>2. /\ Echoes(in, s, c, k) \in Ingress
        /\ IngressOK(Leader, c, Echoes(in, s, c, k), accepted)
        /\ Echoes(in, s, c, k).received = in.received
        /\ Echoes(in, s, c, k).proposable = in.proposable
    BY <1>2, <1>3, <2>1, EchoesKept
  <2> QED BY <2>2 DEF in
<1>5. /\ ingress' \in [Server -> [Client -> Ingress]]
      /\ \A c \in Client : ingress'[Leader][c] = Echoes(ingress[Leader][c], s, c, k)
      /\ \A t \in Server, c \in Client : t # Leader => ingress'[t][c] = ingress[t][c]
  BY <1>1, <1>2, <1>3, <1>4
<1>6. UNCHANGED <<path, client_vars, to_server, to_client, verified, verifying,
                  connected, smr_vars>>
  BY <1>1 DEF pollFollowerEchoes, Taken
<1>7. TypeOK'
  <2>1. ClientTypes'
    BY <1>6 DEF Inv, TypeOK, ClientTypes, client_vars
  <2>2. ServerTypes'
    BY <1>5, <1>6 DEF Inv, TypeOK, ServerTypes, smr_vars
  <2> QED BY <1>2, <1>6, <2>1, <2>2 DEF Inv, TypeOK
<1>8. ServerInv'
  <2>1. \A x \in Server, d \in Client :
           /\ IngressOK(x, d, ingress'[x][d], accepted)
           /\ ingress'[x][d].received = ingress[x][d].received
           /\ ingress'[x][d].proposable = ingress[x][d].proposable
    <3> TAKE x \in Server, d \in Client
    <3>1. CASE x = Leader
      BY <1>4, <1>5, <3>1
    <3>2. CASE x # Leader
      BY <1>3, <1>5, <3>2
    <3> QED BY <3>1, <3>2
  <2>2. UNCHANGED <<path, accepted, log>>
    BY <1>6 DEF smr_vars
  <2>3. IngressKept'
    BY <2>1, <2>2 DEF IngressKept
  <2>4. Ordered'
    <3>1. \A d \in Client : \A x \in Server : InOrder(accepted'[x], d, ingress'[x][d].received)
      BY <2>1, <2>2 DEF Inv, ServerInv, Ordered
    <3>2. \A d \in Client : InOrder(log', d, ingress'[Leader][d].proposable)
      BY <1>2, <2>1, <2>2 DEF Inv, ServerInv, Ordered
    <3> QED BY <3>1, <3>2 DEF Ordered, InOrder
  <2>5. FastAccepted'
    BY <2>2 DEF Inv, ServerInv, FastAccepted
  <2> QED BY <1>2, <2>3, <2>4, <2>5 DEF ServerInv
<1>9. ClientInv'
  BY <1>6, ClientSame DEF Inv, client_vars, smr_vars
<1> QED BY <1>2, <1>7, <1>8, <1>9 DEF Inv

LEMMA PollLeaderSignedEchoesKeeps ==
  ASSUME Assumption, Inv, NEW t \in Server, pollLeaderSignedEchoes(t)
  PROVE  Inv'
<1>1. PICK k \in 1..MaxPolls :
        /\ Taken(t, Leader, k)
        /\ verifying' = [verifying EXCEPT ![t] = [c \in Client |->
             [verifying[t][c] EXCEPT
                !["leader"] = Offloads(verifying[t][c]["leader"], t, c, k)]]]
  BY DEF pollLeaderSignedEchoes
<1>2. /\ LinkTypes' /\ CreditsOK' /\ EchoesAccepted'
      /\ k \in 0..Len(echo_link[Leader][t]) /\ Leader \in Server
  BY <1>1, LeaderServes, TakenKeeps
<1>3. verifying \in [Server -> [Client -> [Source -> Seq(Request)]]] /\ TypeOK
      /\ "leader" \in Source
  BY DEF Inv, TypeOK, ServerTypes, Source
<1>4. ASSUME NEW c \in Client
      PROVE  Offloads(verifying[t][c]["leader"], t, c, k) \in Seq(Request)
  <2> DEFINE tasks == verifying[t][c]["leader"]
  <2>1. tasks \in Seq(Request)
    BY <1>3
  <2> HIDE DEF tasks
  <2>2. Offloads(tasks, t, c, k) \in Seq(Request)
    BY <1>2, <1>3, <2>1, OffloadsAreTasks
  <2> QED BY <2>2 DEF tasks
<1>5. verifying' \in [Server -> [Client -> [Source -> Seq(Request)]]]
  <2> DEFINE new(c) == [verifying[t][c] EXCEPT !["leader"] =
                          Offloads(verifying[t][c]["leader"], t, c, k)]
  <2>1. \A c \in Client : new(c) \in [Source -> Seq(Request)]
    BY <1>3, <1>4
  <2>2. verifying' = [verifying EXCEPT ![t] = [c \in Client |-> new(c)]]
    BY <1>1
  <2> HIDE DEF new
  <2> QED BY <1>3, <2>1, <2>2
<1>6. UNCHANGED <<path, client_vars, to_server, to_client, verified, ingress,
                  connected, smr_vars>>
  BY <1>1 DEF pollLeaderSignedEchoes, Taken
<1>7. TypeOK'
  <2>1. ClientTypes'
    BY <1>6 DEF Inv, TypeOK, ClientTypes, client_vars
  <2>2. ServerTypes'
    BY <1>5, <1>6 DEF Inv, TypeOK, ServerTypes, smr_vars
  <2> QED BY <1>2, <1>6, <2>1, <2>2 DEF Inv, TypeOK
<1>8. ServerInv'
  <2>1. IngressKept' /\ FastAccepted'
    BY <1>6 DEF Inv, ServerInv, IngressKept, FastAccepted, smr_vars
  <2>2. Ordered'
    BY <1>6 DEF Inv, ServerInv, Ordered, InOrder, smr_vars
  <2> QED BY <1>2, <2>1, <2>2 DEF ServerInv
<1>9. ClientInv'
  BY <1>6, ClientSame DEF Inv, client_vars, smr_vars
<1> QED BY <1>2, <1>7, <1>8, <1>9 DEF Inv

LEMMA PollAckKeeps ==
  ASSUME Assumption, Inv, NEW s \in Server, NEW t \in Server, PollAck(s, t)
  PROVE  Inv'
<1> DEFINE a == ack_link[t][s]
           ack == Head(a)
           e == echo_link[s][t]
<1>1. /\ e \in Seq(Request) /\ a \in Seq(Nat) /\ Len(e) \in Nat /\ Len(a) \in Nat
      /\ SumOf(a) \in Nat /\ SumOf(a) >= Len(a)
      /\ outstanding[s][t] = Len(e) + SumOf(a)
      /\ outstanding[s][t] <= ServerWindow /\ outstanding[s][t] \in Nat
      /\ \A i \in 1..Len(a) : a[i] >= 1
  BY CreditsOf DEF Inv
<1>2. /\ ack_link \in [Server -> [Server -> Seq(Nat)]]
      /\ outstanding \in [Server -> [Server -> Nat]]
      /\ ServerWindow \in Nat
  BY DEF Inv, TypeOK, LinkTypes, Assumption
<1>3. /\ a # << >> /\ ack_link' = [ack_link EXCEPT ![t][s] = Tail(a)]
      /\ echo_link' = echo_link
      /\ ~(ack > outstanding[s][t]) =>
           outstanding' = [outstanding EXCEPT ![s][t] = outstanding[s][t] - ack]
  BY DEF PollAck
<1> HIDE DEF a, ack, e
<1>4. /\ SumOf(a) = ack + SumOf(Tail(a)) /\ ack \in Nat /\ SumOf(Tail(a)) \in Nat
  BY <1>1, <1>3, SumOfTail DEF ack
<1>5. ~(ack > outstanding[s][t]) /\ outstanding[s][t] - ack \in Nat
      /\ outstanding[s][t] - ack = Len(e) + SumOf(Tail(a))
  BY <1>1, <1>4
<1>6. /\ outstanding' \in [Server -> [Server -> Nat]]
      /\ outstanding'[s][t] = outstanding[s][t] - ack
      /\ \A x, y \in Server : x # s \/ y # t => outstanding'[x][y] = outstanding[x][y]
  <2> DEFINE n == outstanding[s][t] - ack
  <2>1. n \in Nat /\ outstanding' = [outstanding EXCEPT ![s][t] = n]
    BY <1>3, <1>5
  <2> HIDE DEF n
  <2>2. /\ outstanding' \in [Server -> [Server -> Nat]]
        /\ outstanding'[s][t] = n
        /\ \A x, y \in Server : x # s \/ y # t => outstanding'[x][y] = outstanding[x][y]
    BY <1>2, <2>1
  <2> QED BY <2>2 DEF n
<1>7. Tail(a) \in Seq(Nat) /\ \A i \in 1..Len(Tail(a)) : Tail(a)[i] >= 1
  <2>1. Tail(a) \in Seq(Nat) /\ Len(Tail(a)) = Len(a) - 1
        /\ \A i \in 1..(Len(a) - 1) : Tail(a)[i] = a[i + 1]
    BY <1>1, <1>3, TailProperties
  <2>2. ASSUME NEW i \in 1..(Len(a) - 1) PROVE a[i + 1] >= 1
    <3>1. i + 1 \in 1..Len(a)
      BY <1>1
    <3> QED BY <1>1, <3>1
  <2> QED BY <2>1, <2>2
<1> DEFINE u == Tail(a)
<1>8. u \in Seq(Nat) /\ ack_link' = [ack_link EXCEPT ![t][s] = u]
  BY <1>3, <1>7
<1> HIDE DEF u
<1>9. /\ ack_link' \in [Server -> [Server -> Seq(Nat)]]
      /\ ack_link'[t][s] = u
      /\ \A x, y \in Server : x # s \/ y # t => ack_link'[y][x] = ack_link[y][x]
  BY <1>2, <1>8
<1>10. TypeOK'
  <2>1. ClientTypes'
    BY DEF PollAck, Inv, TypeOK, ClientTypes, client_vars
  <2>2. LinkTypes'
    BY <1>6, <1>9 DEF PollAck, Inv, TypeOK, LinkTypes
  <2>3. ServerTypes'
    BY DEF PollAck, Inv, TypeOK, ServerTypes, smr_vars, verify_vars
  <2> QED BY <2>1, <2>2, <2>3 DEF PollAck, Inv, TypeOK
<1>11. ServerInv'
  BY ServerSame DEF PollAck, Inv, smr_vars
<1>12. ClientInv'
  BY ClientSame DEF PollAck, Inv, client_vars, smr_vars
<1>13. CreditsOK'
  <2>1. outstanding'[s][t] = Len(echo_link'[s][t]) + SumOf(ack_link'[t][s])
    BY <1>3, <1>5, <1>6, <1>9 DEF e, u
  <2>2. outstanding'[s][t] <= ServerWindow
    BY <1>1, <1>2, <1>4, <1>5, <1>6
  <2>3. \A i \in 1..Len(ack_link'[t][s]) : ack_link'[t][s][i] >= 1
    BY <1>7, <1>9 DEF u
  <2>4. \A x, y \in Server : x # s \/ y # t =>
          /\ outstanding'[x][y] = outstanding[x][y]
          /\ echo_link'[x][y] = echo_link[x][y]
          /\ ack_link'[y][x] = ack_link[y][x]
    <3>1. echo_link' = echo_link
      BY <1>3
    <3> QED BY <1>6, <1>9, <3>1
  <2>5. CreditsOK
    BY DEF Inv
  <2> QED BY <2>1, <2>2, <2>3, <2>4, <2>5, CreditsKept
<1> QED BY <1>10, <1>11, <1>12, <1>13 DEF Inv
-----------------------------------------------------------------------------
(* Towards consensus *)

LEMMA AppendAmong ==
  ASSUME NEW q \in Seq(Request), NEW r \in Request
  PROVE  /\ Append(q, r) \in Seq(Request) /\ Among(Append(q, r), r)
         /\ \A x : Among(q, x) => Among(Append(q, r), x)
<1> DEFINE u == Append(q, r)
<1>1. /\ u \in Seq(Request) /\ Len(u) = Len(q) + 1 /\ Len(q) \in Nat
      /\ \A i \in 1..Len(q) : u[i] = q[i]
      /\ u[Len(q) + 1] = r
  BY AppendProperties
<1> HIDE DEF u
<1>2. Among(u, r)
  <2>1. Len(q) + 1 \in 1..Len(u)
    BY <1>1
  <2> QED BY <1>1, <2>1 DEF Among
<1>3. ASSUME NEW x, Among(q, x) PROVE Among(u, x)
  <2>1. PICK i \in 1..Len(q) : q[i] = x
    BY <1>3 DEF Among
  <2>2. i \in 1..Len(u) /\ u[i] = x
    BY <1>1, <2>1
  <2> QED BY <2>2 DEF Among
<1> QED BY <1>1, <1>2, <1>3 DEF u

LEMMA AppendInOrder ==
  ASSUME NEW q \in Seq(Request), NEW r \in Request, NEW c, NEW n \in Nat, NEW m \in Nat,
         InOrder(q, c, n), n <= m, r.client = c => n <= r.id /\ r.id < m
  PROVE  InOrder(Append(q, r), c, m)
<1> DEFINE u == Append(q, r)
<1>1. /\ u \in Seq(Request) /\ Len(u) = Len(q) + 1 /\ Len(q) \in Nat
      /\ \A i \in 1..Len(q) : u[i] = q[i]
      /\ u[Len(q) + 1] = r
  BY AppendProperties
<1>2. r.id \in Nat /\ \A i \in 1..Len(q) : q[i].id \in Nat
  <2>1. \A i \in 1..Len(q) : q[i] \in Request
    BY ElementOfSeq
  <2> QED BY <2>1 DEF Request
<1> HIDE DEF u
<1>3. ASSUME NEW i \in 1..Len(u) PROVE i \in 1..Len(q) \/ i = Len(q) + 1
  BY <1>1
<1>4. \A i \in 1..Len(q) : q[i].client = c => q[i].id < n
  BY DEF InOrder
<1>5. \A i, j \in 1..Len(q) :
        i < j /\ q[i].client = c /\ q[j].client = c => q[i].id < q[j].id
  BY DEF InOrder
<1>6. ASSUME NEW i \in 1..Len(u), u[i].client = c PROVE u[i].id < m
  <2>1. CASE i \in 1..Len(q)
    BY <1>1, <1>2, <1>4, <1>6, <2>1
  <2>2. CASE i = Len(q) + 1
    BY <1>1, <1>6, <2>2
  <2> QED BY <1>3, <2>1, <2>2
<1>7. ASSUME NEW i \in 1..Len(u), NEW j \in 1..Len(u), i < j,
             u[i].client = c, u[j].client = c
      PROVE  u[i].id < u[j].id
  <2>1. i \in 1..Len(q)
    BY <1>1, <1>7
  <2>2. CASE j \in 1..Len(q)
    BY <1>1, <1>5, <1>7, <2>1, <2>2
  <2>3. CASE j = Len(q) + 1
    <3>1. u[i].id < n /\ u[i].id \in Nat
      BY <1>1, <1>2, <1>4, <1>7, <2>1
    <3>2. u[j].id >= n
      BY <1>1, <1>7, <2>3
    <3> QED BY <1>1, <1>2, <2>3, <3>1, <3>2
  <2> QED BY <1>3, <2>2, <2>3
<1>8. InOrder(u, c, m)
  BY <1>6, <1>7 DEF InOrder
<1> QED BY <1>8 DEF u

(* No request lies between the cursor and the one it jumps to.               *)
LEMMA JumpIsNext ==
  ASSUME NEW in \in Ingress, NEW cursor \in Nat, NEW j \in DOMAIN in.requests,
         j >= cursor, j <= Jump(in, cursor)
  PROVE  j = Jump(in, cursor)
<1> DEFINE D == DOMAIN in.requests
           first == CHOOSE i \in D : \A k \in D : i <= k
<1>1. D \in SUBSET Nat /\ j \in D
  BY EntriesAre DEF Ingress
<1>2. Jump(in, cursor) = IF first > cursor THEN first ELSE cursor
  BY DEF Jump
<1>3. first \in D /\ \A k \in D : first <= k
  <2> HIDE DEF D
  <2>1. \E i \in D : \A k \in D : i <= k
    BY <1>1, LeastNat
  <2> QED BY <2>1
<1>4. first <= j /\ first \in Nat /\ j \in Nat
  BY <1>1, <1>3
<1> HIDE DEF first
<1> QED BY <1>2, <1>4

(* The log grows, and with it what the servers executed. *)
Grows ==
  /\ Len(log) <= Len(log') /\ \A p \in 1..Len(log) : log'[p] = log[p]
  /\ \A s \in Server : executed[s] <= executed'[s] /\ executed'[s] <= Len(log')

LEMMA PlaceKept ==
  ASSUME TypeOK, TypeOK', Grows
  PROVE  /\ \A c : \A id : \A p : Place(c, id, p) => Place(c, id, p)'
         /\ \A c : \A id : \A s \in Server :
              (\E p \in 1..executed[s] : Place(c, id, p)) =>
                 \E p \in 1..executed'[s] : Place(c, id, p)'
<1>1. Len(log) \in Nat /\ Len(log') \in Nat
  BY DEF TypeOK, ServerTypes
<1>2. ASSUME NEW c, NEW id, NEW p, Place(c, id, p) PROVE Place(c, id, p)'
  BY <1>1, <1>2 DEF Place, Grows
<1>3. ASSUME NEW c, NEW id, NEW s \in Server, NEW p \in 1..executed[s], Place(c, id, p)
      PROVE  p \in 1..executed'[s] /\ Place(c, id, p)'
  <2>1. executed[s] \in Nat /\ executed'[s] \in Nat /\ executed[s] <= executed'[s]
    BY DEF TypeOK, ServerTypes, Grows
  <2> QED BY <1>2, <1>3, <2>1
<1> QED BY <1>2, <1>3

LEMMA AnswerersFinite ==
  ASSUME Assumption, NEW S \in SUBSET Server
  PROVE  IsFiniteSet(S) /\ Cardinality(S) \in Nat
BY FS_Subset, FS_CardinalityType DEF Assumption

LEMMA MoreServers ==
  ASSUME Assumption, NEW T \in SUBSET Server, NEW S \in SUBSET T
  PROVE  Cardinality(S) <= Cardinality(T) /\ Cardinality(S) \in Nat
         /\ Cardinality(T) \in Nat
BY AnswerersFinite, FS_Subset, FS_CardinalityType

LEMMA ClientGrows ==
  ASSUME Assumption, TypeOK, TypeOK', ClientInv, Grows,
         UNCHANGED <<next_request, waiting, next_response, answers>>,
         \A s \in Server, c \in Client : ResponsesOK(s, c)'
  PROVE  ClientInv'
<1>1. ExecutedInLog'
  BY DEF Grows, ExecutedInLog
<1>2. ASSUME NEW c \in Client PROVE WaitingOK(c)'
  <2>1. WaitingOK(c)
    BY DEF ClientInv
  <2>2. ASSUME NEW id \in DOMAIN waiting[c]
        PROVE  Len(waiting[c][id]) <= Cardinality(Answerers(c, id)')
    <3>1. Len(waiting[c][id]) <= Cardinality(Answerers(c, id))
      BY <2>1, <2>2 DEF WaitingOK
    <3>2. waiting[c][id] \in Seq(Nat)
      BY <2>2, WaitingAre DEF TypeOK, ClientTypes
    <3> DEFINE old == Answerers(c, id)
               new == Answerers(c, id)'
    <3>3. old \subseteq new /\ new \subseteq Server
      BY PlaceKept DEF Answerers
    <3> HIDE DEF old, new
    <3>4. Cardinality(old) <= Cardinality(new) /\ Cardinality(old) \in Nat
          /\ Cardinality(new) \in Nat
      BY <3>3, MoreServers
    <3>5. Len(waiting[c][id]) <= Cardinality(old) /\ Len(waiting[c][id]) \in Nat
      BY <3>1, <3>2 DEF old
    <3>6. Len(waiting[c][id]) <= Cardinality(new)
      BY <3>4, <3>5
    <3> QED BY <3>6 DEF new
  <2>3. \A id \in DOMAIN waiting[c] :
           /\ id < next_request[c]
           /\ \A i \in 1..Len(waiting[c][id]) : Place(c, id, waiting[c][id][i])'
    BY <2>1, PlaceKept DEF WaitingOK
  <2> QED BY <2>2, <2>3 DEF WaitingOK
<1>3. ASSUME NEW c \in Client PROVE AnswersOK(c)'
  <2>1. AnswersOK(c)
    BY DEF ClientInv
  <2>2. ASSUME NEW i \in 1..Len(answers[c])
        PROVE  Cardinality({s \in Server : executed'[s] >= answers[c][i].result}) >= Quorum
    <3> DEFINE a == answers[c][i].result
               old == {s \in Server : executed[s] >= a}
               new == {s \in Server : executed'[s] >= a}
    <3>1. Cardinality(old) >= Quorum
      BY <2>1, <2>2 DEF AnswersOK
    <3>2. a \in Nat
      <4>1. answers[c] \in Seq(Result)
        BY DEF TypeOK, ClientTypes
      <4>2. answers[c][i] \in Result
        BY <4>1, ElementOfSeq
      <4> QED BY <4>2 DEF Result
    <3> HIDE DEF a
    <3>3. old \subseteq new /\ new \subseteq Server
      BY <3>2 DEF Grows, TypeOK, ServerTypes
    <3> HIDE DEF old, new
    <3>4. Cardinality(old) <= Cardinality(new) /\ Cardinality(old) \in Nat
          /\ Cardinality(new) \in Nat
      BY <3>3, MoreServers
    <3>5. Quorum \in Int
      <4>1. Cardinality(Server) \in Nat
        BY AnswerersFinite
      <4> QED BY <4>1 DEF Quorum
    <3>6. Cardinality(new) >= Quorum
      BY <3>1, <3>4, <3>5
    <3> QED BY <3>6 DEF new, a
  <2>3. \A i \in 1..Len(answers[c]) :
          /\ Place(c, answers[c][i].id, answers[c][i].result)'
          /\ answers[c][i].id < next_request[c]
          /\ \A id \in DOMAIN waiting[c] : answers[c][i].id < id
          /\ \A j \in 1..Len(answers[c]) : i < j => answers[c][i].id < answers[c][j].id
    BY <2>1, PlaceKept DEF AnswersOK
  <2> QED BY <2>2, <2>3 DEF AnswersOK, Quorum
<1> QED BY <1>1, <1>2, <1>3 DEF ClientInv

LEMMA ResponsesGrow ==
  ASSUME TypeOK, TypeOK', Grows, NEW s \in Server, NEW c \in Client, ResponsesOK(s, c),
         to_client'[s][c] = to_client[s][c], next_response'[c][s] = next_response[c][s]
  PROVE  ResponsesOK(s, c)'
<1>1. ASSUME NEW i \in 1..Len(to_client[s][c])
      PROVE  to_client[s][c][i].result <= executed'[s]
  <2> DEFINE q == to_client[s][c]
  <2>1. q \in Seq(Result) /\ q[i].result <= executed[s]
    BY DEF TypeOK, LinkTypes, ResponsesOK
  <2>2. q[i] \in Result
    <3> HIDE DEF q
    <3>1. i \in 1..Len(q)
      BY <1>1 DEF q
    <3> QED BY <2>1, <3>1
  <2>3. q[i].result \in Nat
    BY <2>2 DEF Result
  <2>4. executed[s] \in Nat /\ executed'[s] \in Nat /\ executed[s] <= executed'[s]
    BY DEF TypeOK, ServerTypes, Grows
  <2> QED BY <2>1, <2>3, <2>4
<1>2. \A i \in 1..Len(to_client[s][c]) :
        /\ Place(c, to_client[s][c][i].id, to_client[s][c][i].result)'
        /\ next_response[c][s] <= to_client[s][c][i].id
  BY PlaceKept DEF ResponsesOK
<1>3. \A i, j \in 1..Len(to_client[s][c]) :
        i < j => to_client[s][c][i].id < to_client[s][c][j].id
  BY DEF ResponsesOK
<1>4. next_response[c][s] = 0 \/
        \E p \in 1..executed'[s] : Place(c, next_response[c][s] - 1, p)'
  BY PlaceKept DEF ResponsesOK
<1> QED BY <1>1, <1>2, <1>3, <1>4 DEF ResponsesOK
LEMMA PollReceivedKeeps ==
  ASSUME Assumption, Inv, NEW s \in Server, NEW c \in Client, PollReceived(s, c)
  PROVE  Inv'
<1> DEFINE in == ingress[s][c]
           id == Jump(in, in.received)
           r == Req(c, id, in.requests[id].value)
           q == accepted[s]
           new == [in EXCEPT !.received = id + 1]
<1>1. /\ DOMAIN in.requests # {} /\ id \in DOMAIN in.requests
      /\ ingress' = [ingress EXCEPT ![s][c].received = id + 1]
      /\ accepted' = [accepted EXCEPT ![s] = Append(q, r)]
      /\ UNCHANGED <<path, client_vars, to_server, to_client, link_vars,
                     verify_vars, connected, log, executed, blames>>
  BY DEF PollReceived
<1>2. /\ in \in Ingress /\ IngressOK(s, c, in, accepted)
      /\ ingress \in [Server -> [Client -> Ingress]]
      /\ accepted \in [Server -> Seq(Request)] /\ q \in Seq(Request)
  <2>1. /\ in \in Ingress /\ ingress \in [Server -> [Client -> Ingress]]
        /\ accepted \in [Server -> Seq(Request)] /\ q \in Seq(Request)
    BY DEF Inv, TypeOK, ServerTypes
  <2>2. IngressOK(s, c, in, accepted)
    BY DEF Inv, ServerInv, IngressKept
  <2> QED BY <2>1, <2>2
<1>3. ingress' = [ingress EXCEPT ![s][c] = new]
  BY <1>1, <1>2
<1>4. /\ in.requests \in [DOMAIN in.requests -> EntryRecord]
      /\ DOMAIN in.requests \in SUBSET Nat /\ in.received \in Nat /\ in.min \in Nat
  <2> HIDE DEF in
  <2> QED BY <1>2, EntriesAre DEF Ingress
<1>5. id \in Nat /\ id >= in.received
      /\ \A j \in DOMAIN in.requests : j >= in.received /\ j <= id => j = id
  <2> HIDE DEF in
  <2> QED BY <1>1, <1>2, <1>4, JumpProperties, JumpIsNext
<1>6. r \in Request /\ r.client = c /\ r.id = id
  <2>1. in.requests[id] \in EntryRecord
    BY <1>1, <1>4
  <2>2. in.requests[id].value \in Values
    BY <2>1 DEF EntryRecord
  <2> QED BY <1>5, <2>2 DEF Req, Request
<1>7. q \in Seq(Request) /\ Append(q, r) \in Seq(Request) /\ Among(Append(q, r), r)
      /\ \A x : Among(q, x) => Among(Append(q, r), x)
  <2> HIDE DEF q, r
  <2> QED BY <1>2, <1>6, AppendAmong
<1>8. /\ accepted' \in [Server -> Seq(Request)] /\ accepted'[s] = Append(q, r)
      /\ \A t \in Server : t # s => accepted'[t] = accepted[t]
  <2> DEFINE u == Append(q, r)
  <2>1. u \in Seq(Request) /\ accepted' = [accepted EXCEPT ![s] = u]
    BY <1>1, <1>7
  <2> HIDE DEF u
  <2>2. /\ accepted' \in [Server -> Seq(Request)] /\ accepted'[s] = u
        /\ \A t \in Server : t # s => accepted'[t] = accepted[t]
    BY <1>2, <2>1
  <2> QED BY <2>2 DEF u
<1>9. \A f \in Server : \A x : Among(accepted[f], x) => Among(accepted'[f], x)
  <2> TAKE f \in Server
  <2>1. CASE f = s
    BY <1>7, <1>8, <2>1
  <2>2. CASE f # s
    BY <1>8, <2>2
  <2> QED BY <2>1, <2>2
<1>10. IngressOK(s, c, in, accepted')
  <2> HIDE DEF in
  <2> QED BY <1>2, <1>9, IngressGrows
<1>11. Among(accepted'[s], r)
  BY <1>7, <1>8
<1>12. id <= in.min /\ in.min \in Nat
  BY <1>1, <1>2, <1>4 DEF IngressOK
<1> HIDE DEF id, q
<1>13. r = Req(c, id, in.requests[id].value)
  OBVIOUS
<1> HIDE DEF r, in
<1>14. /\ new \in Ingress /\ new.requests = in.requests /\ new.min = in.min
       /\ new.buffered = in.buffered /\ new.received = id + 1
       /\ new.proposable = in.proposable
  <2>1. id + 1 \in Nat
    BY <1>5
  <2> QED BY <1>2, <2>1 DEF Ingress
<1> HIDE DEF new
<1>15. IngressOK(s, c, new, accepted')
  <2>1. \A j \in DOMAIN in.requests :
          j < id + 1 => Among(accepted'[s], Req(c, j, in.requests[j].value))
    <3> TAKE j \in DOMAIN in.requests
    <3>1. CASE j < in.received
      BY <1>10, <3>1 DEF IngressOK
    <3>2. CASE j = id
      BY <1>11, <1>13, <3>2
    <3>3. CASE j >= in.received /\ j # id
      <4>1. ~(j < id + 1)
        BY <1>4, <1>5, <3>3
      <4> QED BY <4>1
    <3>4. j \in Nat /\ in.received \in Nat
      BY <1>4
    <3> QED BY <3>1, <3>2, <3>3, <3>4
  <2>2. id + 1 <= in.min + 1
    BY <1>5, <1>12
  <2>3. /\ in.min \in DOMAIN in.requests
        /\ \A j \in DOMAIN in.requests : j <= in.min
        /\ \A j \in DOMAIN in.requests : \A f \in in.requests[j].echoes :
             Among(accepted'[f], Req(c, j, in.requests[j].value))
        /\ \A f \in Server : \A i \in 1..Len(in.buffered[f]) :
             in.buffered[f][i].client = c /\ Among(accepted'[f], in.buffered[f][i])
    BY <1>1, <1>10 DEF IngressOK
  <2> QED BY <1>1, <1>14, <2>1, <2>2, <2>3 DEF IngressOK
<1>16. /\ ingress' \in [Server -> [Client -> Ingress]] /\ ingress'[s][c] = new
       /\ \A t \in Server, d \in Client : t # s \/ d # c => ingress'[t][d] = ingress[t][d]
  BY <1>2, <1>3, <1>14, IngressSet
<1>17. TypeOK'
  <2>1. ClientTypes'
    BY <1>1 DEF Inv, TypeOK, ClientTypes, client_vars
  <2>2. LinkTypes'
    BY <1>1 DEF Inv, TypeOK, LinkTypes, link_vars
  <2>3. ServerTypes'
    BY <1>1, <1>8, <1>16 DEF Inv, TypeOK, ServerTypes, verify_vars
  <2> QED BY <1>1, <2>1, <2>2, <2>3 DEF Inv, TypeOK
<1>18. IngressKept'
  <2>1. ASSUME NEW t \in Server, NEW d \in Client
        PROVE  IngressOK(t, d, ingress'[t][d], accepted')
    <3>1. CASE t = s /\ d = c
      BY <1>15, <1>16, <3>1
    <3>2. CASE t # s \/ d # c
      <4>1. IngressOK(t, d, ingress[t][d], accepted) /\ ingress[t][d] \in Ingress
        BY <1>2 DEF Inv, ServerInv, IngressKept
      <4>2. IngressOK(t, d, ingress[t][d], accepted')
        BY <1>9, <4>1, IngressGrows
      <4> QED BY <1>16, <3>2, <4>2
    <3> QED BY <3>1, <3>2
  <2> QED BY <2>1 DEF IngressKept
<1>19. EchoesAccepted'
  <2>1. echo_link' = echo_link
    BY <1>1 DEF link_vars
  <2>2. ASSUME NEW t \in Server, NEW i \in 1..Len(echo_link[t][Leader])
        PROVE  Among(accepted'[t], echo_link[t][Leader][i])
    BY <1>9 DEF Inv, ServerInv, EchoesAccepted
  <2> QED BY <2>1, <2>2 DEF EchoesAccepted
<1>20. Ordered'
  <2>1. ASSUME NEW d \in Client, NEW t \in Server
        PROVE  InOrder(accepted'[t], d, ingress'[t][d].received)
    <3>1. InOrder(accepted[t], d, ingress[t][d].received)
      BY DEF Inv, ServerInv, Ordered
    <3>2. CASE t # s
      BY <1>8, <1>16, <3>1, <3>2
    <3>3. CASE t = s /\ d = c
      <4>1. InOrder(q, c, in.received) /\ in.received <= id + 1
            /\ in.received <= r.id /\ r.id < id + 1 /\ id + 1 \in Nat
        BY <1>4, <1>5, <1>6, <3>1, <3>3 DEF q, in
      <4>2. InOrder(Append(q, r), c, id + 1)
        <5> DEFINE m == id + 1
        <5>1. /\ InOrder(q, c, in.received) /\ in.received <= m
              /\ in.received <= r.id /\ r.id < m /\ m \in Nat
          BY <4>1
        <5> HIDE DEF m
        <5>2. InOrder(Append(q, r), c, m)
          BY <1>2, <1>4, <1>6, <5>1, AppendInOrder
        <5> QED BY <5>2 DEF m
      <4> QED BY <1>8, <1>14, <1>16, <3>3, <4>2
    <3>4. CASE t = s /\ d # c
      <4> DEFINE n == ingress[s][d].received
      <4>1. n \in Nat /\ ingress'[t][d].received = n
        BY <1>2, <1>16, <3>4 DEF Ingress
      <4>2. InOrder(q, d, n) /\ r.client # d
        BY <1>6, <3>1, <3>4 DEF q
      <4> HIDE DEF n
      <4>3. n <= n
        BY <4>1
      <4>4. InOrder(Append(q, r), d, n)
        BY <1>6, <1>7, <4>1, <4>2, <4>3, AppendInOrder
      <4> QED BY <1>8, <3>4, <4>1, <4>4
    <3> QED BY <3>2, <3>3, <3>4
  <2>2. ASSUME NEW d \in Client
        PROVE  InOrder(log', d, ingress'[Leader][d].proposable)
    <3>1. InOrder(log, d, ingress[Leader][d].proposable) /\ log' = log
      BY <1>1 DEF Inv, ServerInv, Ordered
    <3>2. ingress'[Leader][d].proposable = ingress[Leader][d].proposable
      <4>1. CASE s = Leader /\ d = c
        BY <1>14, <1>16, <4>1 DEF in
      <4>2. CASE s # Leader \/ d # c
        BY <1>16, <4>2, LeaderServes
      <4> QED BY <4>1, <4>2
    <3> QED BY <3>1, <3>2
  <2> QED BY <2>1, <2>2 DEF Ordered, InOrder
<1>21. FastAccepted'
  <2>1. log' = log /\ path' = path
    BY <1>1
  <2>2. ASSUME path = "fast", NEW i \in 1..Len(log), NEW t \in Server
        PROVE  Among(accepted'[t], log[i])
    BY <1>9, <2>2 DEF Inv, ServerInv, FastAccepted
  <2> QED BY <2>1, <2>2 DEF FastAccepted
<1>22. ServerInv'
  BY <1>18, <1>19, <1>20, <1>21 DEF ServerInv
<1>23. ClientInv'
  BY <1>1, ClientSame DEF Inv, client_vars
<1>24. CreditsOK'
  BY <1>1, CreditsSame DEF Inv
<1> QED BY <1>17, <1>22, <1>23, <1>24 DEF Inv

LEMMA PollProposableKeeps ==
  ASSUME Assumption, Inv, NEW c \in Client, PollProposable(c)
  PROVE  Inv'
<1> DEFINE in == ingress[Leader][c]
           id == Jump(in, in.proposable)
           e == in.requests[id]
           r == Req(c, id, e.value)
           new == [in EXCEPT !.proposable = id + 1]
<1>1. /\ DOMAIN in.requests # {} /\ id < in.received /\ id \in DOMAIN in.requests
      /\ Proposable(e)
      /\ ingress' = [ingress EXCEPT ![Leader][c].proposable = id + 1]
      /\ log' = Append(log, r)
      /\ UNCHANGED <<path, client_vars, to_server, to_client, link_vars,
                     verify_vars, connected, accepted, executed, blames>>
  BY DEF PollProposable, Propose
<1>2. /\ Leader \in Server /\ in \in Ingress /\ IngressOK(Leader, c, in, accepted)
      /\ ingress \in [Server -> [Client -> Ingress]]
      /\ log \in Seq(Request)
  <2>1. Leader \in Server
    BY LeaderServes
  <2>2. /\ in \in Ingress /\ ingress \in [Server -> [Client -> Ingress]]
        /\ log \in Seq(Request)
    BY <2>1 DEF Inv, TypeOK, ServerTypes
  <2>3. IngressOK(Leader, c, in, accepted)
    BY <2>1 DEF Inv, ServerInv, IngressKept
  <2> QED BY <2>1, <2>2, <2>3
<1>3. ingress' = [ingress EXCEPT ![Leader][c] = new]
  BY <1>1, <1>2
<1>4. /\ in.requests \in [DOMAIN in.requests -> EntryRecord]
      /\ DOMAIN in.requests \in SUBSET Nat /\ in.proposable \in Nat
  <2> HIDE DEF in
  <2> QED BY <1>2, EntriesAre DEF Ingress
<1>5. id \in Nat /\ id >= in.proposable
  <2> HIDE DEF in
  <2> QED BY <1>1, <1>2, <1>4, JumpProperties
<1>6. r \in Request /\ r.client = c /\ r.id = id
  <2>1. e \in EntryRecord
    BY <1>1, <1>4
  <2>2. e.value \in Values
    BY <2>1 DEF EntryRecord
  <2> HIDE DEF e
  <2> QED BY <1>5, <2>2 DEF Req, Request
<1>7. Among(accepted[Leader], r)
  BY <1>1, <1>2 DEF IngressOK
<1>8. path = "fast" => \A s \in Server : Among(accepted[s], r)
  <2> SUFFICES ASSUME path = "fast", NEW s \in Server PROVE Among(accepted[s], r)
    OBVIOUS
  <2>1. e.echoes = Follower
    BY <1>1 DEF Proposable
  <2>2. \A f \in e.echoes : Among(accepted[f], r)
    BY <1>1, <1>2 DEF IngressOK
  <2> QED BY <1>7, <2>1, <2>2 DEF Follower
<1> HIDE DEF id, r, in
<1>9. /\ new \in Ingress /\ new.requests = in.requests /\ new.min = in.min
      /\ new.buffered = in.buffered /\ new.received = in.received
      /\ new.proposable = id + 1
  <2>1. id + 1 \in Nat
    BY <1>5
  <2> QED BY <1>2, <2>1 DEF Ingress
<1> HIDE DEF new
<1>10. IngressOK(Leader, c, new, accepted)
  BY <1>2, <1>9 DEF IngressOK
<1>11. /\ ingress' \in [Server -> [Client -> Ingress]] /\ ingress'[Leader][c] = new
       /\ \A t \in Server, d \in Client :
            t # Leader \/ d # c => ingress'[t][d] = ingress[t][d]
  BY <1>2, <1>3, <1>9, IngressSet
<1>12. /\ log' \in Seq(Request) /\ Len(log') = Len(log) + 1 /\ Len(log) \in Nat
       /\ \A i \in 1..Len(log) : log'[i] = log[i]
       /\ log'[Len(log) + 1] = r
  BY <1>1, <1>2, <1>6, AppendProperties
<1>13. TypeOK'
  <2>1. ClientTypes'
    BY <1>1 DEF Inv, TypeOK, ClientTypes, client_vars
  <2>2. LinkTypes'
    BY <1>1 DEF Inv, TypeOK, LinkTypes, link_vars
  <2>3. ServerTypes'
    BY <1>1, <1>11, <1>12 DEF Inv, TypeOK, ServerTypes, verify_vars
  <2> QED BY <1>1, <2>1, <2>2, <2>3 DEF Inv, TypeOK
<1>14. IngressKept'
  <2>1. ASSUME NEW t \in Server, NEW d \in Client
        PROVE  IngressOK(t, d, ingress'[t][d], accepted)
    <3>1. CASE t = Leader /\ d = c
      BY <1>10, <1>11, <3>1
    <3>2. CASE t # Leader \/ d # c
      BY <1>11, <3>2 DEF Inv, ServerInv, IngressKept
    <3> QED BY <3>1, <3>2
  <2>2. accepted' = accepted
    BY <1>1
  <2> QED BY <2>1, <2>2 DEF IngressKept
<1>15. EchoesAccepted'
  BY <1>1 DEF Inv, ServerInv, EchoesAccepted, link_vars
<1>16. Ordered'
  <2>1. ASSUME NEW d \in Client, NEW t \in Server
        PROVE  InOrder(accepted'[t], d, ingress'[t][d].received)
    <3>1. InOrder(accepted[t], d, ingress[t][d].received) /\ accepted' = accepted
      BY <1>1 DEF Inv, ServerInv, Ordered
    <3>2. ingress'[t][d].received = ingress[t][d].received
      <4>1. CASE t = Leader /\ d = c
        BY <1>9, <1>11, <4>1 DEF in
      <4>2. CASE t # Leader \/ d # c
        BY <1>11, <4>2
      <4> QED BY <4>1, <4>2
    <3> QED BY <3>1, <3>2
  <2>2. ASSUME NEW d \in Client
        PROVE  InOrder(log', d, ingress'[Leader][d].proposable)
    <3>1. InOrder(log, d, ingress[Leader][d].proposable)
      BY DEF Inv, ServerInv, Ordered
    <3>2. CASE d = c
      <4> DEFINE m == id + 1
      <4>1. /\ InOrder(log, c, in.proposable) /\ in.proposable <= m
            /\ in.proposable <= r.id /\ r.id < m /\ m \in Nat
        BY <1>4, <1>5, <1>6, <3>1, <3>2 DEF in
      <4> HIDE DEF m
      <4>2. InOrder(Append(log, r), c, m)
        BY <1>2, <1>4, <1>6, <4>1, AppendInOrder
      <4>3. ingress'[Leader][d].proposable = m /\ log' = Append(log, r)
        BY <1>1, <1>9, <1>11, <3>2 DEF m
      <4> QED BY <3>2, <4>2, <4>3
    <3>3. CASE d # c
      <4> DEFINE n == ingress[Leader][d].proposable
      <4>1. n \in Nat /\ ingress'[Leader][d].proposable = n
        BY <1>2, <1>11, <3>3 DEF Ingress
      <4>2. InOrder(log, d, n) /\ r.client # d
        BY <1>6, <3>1, <3>3
      <4> HIDE DEF n
      <4>3. n <= n
        BY <4>1
      <4>4. InOrder(Append(log, r), d, n)
        BY <1>2, <1>6, <4>1, <4>2, <4>3, AppendInOrder
      <4> QED BY <1>1, <4>1, <4>4
    <3> QED BY <3>2, <3>3
  <2> QED BY <2>1, <2>2 DEF Ordered, InOrder
<1>17. FastAccepted'
  <2>1. accepted' = accepted /\ path' = path
    BY <1>1
  <2>2. ASSUME path = "fast", NEW i \in 1..Len(log'), NEW t \in Server
        PROVE  Among(accepted[t], log'[i])
    <3>1. i \in 1..Len(log) \/ i = Len(log) + 1
      BY <1>12
    <3>2. CASE i \in 1..Len(log)
      BY <1>12, <2>2, <3>2 DEF Inv, ServerInv, FastAccepted
    <3>3. CASE i = Len(log) + 1
      BY <1>8, <1>12, <2>2, <3>3
    <3> QED BY <3>1, <3>2, <3>3
  <2> QED BY <2>1, <2>2 DEF FastAccepted
<1>18. ServerInv'
  BY <1>14, <1>15, <1>16, <1>17 DEF ServerInv
<1>19. ClientInv'
  <2>1. Grows
    <3>1. executed' = executed /\ \A s \in Server : executed[s] \in Nat /\ executed[s] <= Len(log)
      BY <1>1 DEF Inv, TypeOK, ServerTypes, ClientInv, ExecutedInLog
    <3> QED BY <1>12, <3>1 DEF Grows
  <2>2. \A s \in Server, d \in Client : ResponsesOK(s, d)'
    <3> TAKE s \in Server, d \in Client
    <3>1. ResponsesOK(s, d) /\ TypeOK
      BY DEF Inv, ClientInv
    <3>2. to_client'[s][d] = to_client[s][d] /\ next_response'[d][s] = next_response[d][s]
      BY <1>1 DEF client_vars
    <3> QED BY <1>13, <2>1, <3>1, <3>2, ResponsesGrow
  <2>3. UNCHANGED <<next_request, waiting, next_response, answers>>
    BY <1>1 DEF client_vars
  <2>4. TypeOK /\ ClientInv
    BY DEF Inv
  <2> QED BY <1>13, <2>1, <2>2, <2>3, <2>4, ClientGrows
<1>20. CreditsOK'
  BY <1>1, CreditsSame DEF Inv
<1> QED BY <1>13, <1>18, <1>19, <1>20 DEF Inv
-----------------------------------------------------------------------------
(* The clients *)

LEMMA PlacesInOrder ==
  ASSUME Assumption, TypeOK, ServerInv, NEW c \in Client, NEW i, NEW j, NEW p, NEW q,
         Place(c, i, p), Place(c, j, q)
  PROVE  /\ p < q => i < j
         /\ i = j => p = q
         /\ i \in Nat /\ p \in Nat
<1>1. InOrder(log, c, ingress[Leader][c].proposable)
  BY DEF ServerInv, Ordered
<1>2. /\ p \in 1..Len(log) /\ q \in 1..Len(log)
      /\ log[p].client = c /\ log[q].client = c /\ log[p].id = i /\ log[q].id = j
  BY DEF Place
<1>3. p < q => i < j
  BY <1>1, <1>2 DEF InOrder
<1>4. q < p => j < i
  BY <1>1, <1>2 DEF InOrder
<1>5. i \in Nat /\ j \in Nat
  <2>1. log[p] \in Request /\ log[q] \in Request
    BY <1>2, ElementOfSeq DEF TypeOK, ServerTypes
  <2> QED BY <1>2, <2>1 DEF Request
<1>6. p \in Nat /\ q \in Nat
  BY <1>2
<1> QED BY <1>3, <1>4, <1>5, <1>6

LEMMA SamePlace ==
  ASSUME Assumption, TypeOK, ServerInv, NEW c \in Client, NEW i, NEW p, NEW q,
         Place(c, i, p), Place(c, i, q)
  PROVE  p = q
<1>1. /\ ~(p < q) /\ ~(q < p)
  <2>1. i \in Nat
    BY PlacesInOrder
  <2>2. p < q => i < i
    BY PlacesInOrder
  <2>3. q < p => i < i
    BY PlacesInOrder
  <2> QED BY <2>1, <2>2, <2>3
<1>2. p \in Nat /\ q \in Nat
  BY DEF Place
<1> QED BY <1>1, <1>2

(* The response to the next request in the log is the newest on the link.    *)
LEMMA NewestResponse ==
  ASSUME Assumption, TypeOK, ServerInv, NEW s \in Server, NEW c \in Client,
         ResponsesOK(s, c), NEW id, Place(c, id, executed[s] + 1)
  PROVE  /\ \A i \in 1..Len(to_client[s][c]) : to_client[s][c][i].id < id
         /\ next_response[c][s] <= id
<1>1. executed[s] \in Nat /\ next_response[c][s] \in Nat
  BY DEF TypeOK, ServerTypes, ClientTypes
<1>2. ASSUME NEW i \in 1..Len(to_client[s][c]) PROVE to_client[s][c][i].id < id
  <2> DEFINE x == to_client[s][c][i]
  <2>1. Place(c, x.id, x.result) /\ x.result <= executed[s]
    BY <1>2 DEF ResponsesOK
  <2> HIDE DEF x
  <2>2. x.result \in Nat
    BY <2>1 DEF Place
  <2>3. x.result < executed[s] + 1
    BY <1>1, <2>1, <2>2
  <2>4. x.id < id
    BY <2>1, <2>3, PlacesInOrder
  <2> QED BY <2>4 DEF x
<1>3. next_response[c][s] <= id
  <2> DEFINE n == next_response[c][s]
  <2>1. id \in Nat
    <3> DEFINE k == executed[s] + 1
    <3>1. k \in 1..Len(log) /\ log[k].id = id
      BY DEF Place
    <3> HIDE DEF k
    <3>2. log[k] \in Request
      BY <3>1, ElementOfSeq DEF TypeOK, ServerTypes
    <3> QED BY <3>1, <3>2 DEF Request
  <2>2. CASE n = 0
    BY <2>1, <2>2
  <2>3. CASE n # 0
    <3>1. PICK p \in 1..executed[s] : Place(c, n - 1, p)
      BY <2>3 DEF ResponsesOK
    <3>2. p < executed[s] + 1
      BY <1>1
    <3> DEFINE m == n - 1
    <3>3. Place(c, m, p)
      BY <3>1
    <3> HIDE DEF m
    <3>4. m < id
      BY <3>2, <3>3, PlacesInOrder
    <3> QED BY <1>1, <2>1, <3>4 DEF m
  <2> QED BY <2>2, <2>3
<1> QED BY <1>2, <1>3

LEMMA ExecuteKeeps ==
  ASSUME Assumption, Inv, NEW s \in Server, Execute(s)
  PROVE  Inv'
<1>0. PICK n, r, c, q, x, u :
        /\ n = executed[s] + 1 /\ r = log[n] /\ c = r.client
        /\ q = to_client[s][c] /\ x = Response(r.id, n) /\ u = Send(q, x, Window)
  OBVIOUS
<1> DEFINE new == [ingress[s][c] EXCEPT !.below = r.id + Window + 1]
           Answers == c \in connected[s]
<1>1. /\ executed[s] < Len(log) /\ executed' = [executed EXCEPT ![s] = executed[s] + 1]
      /\ IF Answers
         THEN /\ ingress' = [ingress EXCEPT ![s][c].below = r.id + Window + 1]
              /\ to_client' = IF s = Mute THEN to_client
                              ELSE [to_client EXCEPT ![s][c] = u]
         ELSE UNCHANGED <<ingress, to_client>>
      /\ UNCHANGED <<path, client_vars, to_server, link_vars, verify_vars, connected,
                     accepted, log, blames>>
  BY <1>0 DEF Execute
<1>2. /\ log \in Seq(Request) /\ executed \in [Server -> Nat]
      /\ ingress \in [Server -> [Client -> Ingress]]
      /\ to_client \in [Server -> [Client -> Seq(Result)]]
      /\ Window \in Nat \ {0}
  BY DEF Inv, TypeOK, ServerTypes, LinkTypes, Assumption
<1>3. n \in 1..Len(log) /\ n \in Nat
  BY <1>0, <1>1, <1>2
<1>4. r \in Request
  BY <1>0, <1>2, <1>3, ElementOfSeq
<1>5. c \in Client /\ r.id \in Nat
  BY <1>0, <1>4 DEF Request
<1>6. Place(c, r.id, n)
  BY <1>0, <1>3 DEF Place
<1>7. /\ executed' \in [Server -> Nat] /\ executed'[s] = n
      /\ \A t \in Server : t # s => executed'[t] = executed[t]
  BY <1>0, <1>1, <1>2
<1>8. q \in Seq(Result) /\ x \in Result /\ x.id = r.id /\ x.result = n
  BY <1>0, <1>2, <1>3, <1>5 DEF Response, Result
<1>9. /\ \A i \in 1..Len(q) : q[i].id < r.id
      /\ next_response[c][s] <= r.id
  <2>1. ResponsesOK(s, c) /\ TypeOK /\ ServerInv
    BY <1>5 DEF Inv, ClientInv
  <2> DEFINE id == r.id
  <2>2. Place(c, id, executed[s] + 1)
    BY <1>0, <1>6
  <2> HIDE DEF id
  <2>3. /\ \A i \in 1..Len(to_client[s][c]) : to_client[s][c][i].id < id
        /\ next_response[c][s] <= id
    BY <1>5, <2>1, <2>2, NewestResponse
  <2> QED BY <1>0, <2>3 DEF id
<1>10. ResponsesOK(s, c)
  BY <1>5 DEF Inv, ClientInv
<1>11. /\ u \in Seq(Result)
       /\ \E d \in {0, 1} :
            /\ d <= Len(q) /\ Len(u) = Len(q) + 1 - d
            /\ \A i \in 1..(Len(q) - d) : u[i] = q[i + d]
            /\ u[Len(q) + 1 - d] = x
  <2> DEFINE w == Send(q, x, Window)
  <2>1. /\ w \in Seq(Result)
        /\ \E d \in {0, 1} :
             /\ d <= Len(q) /\ Len(w) = Len(q) + 1 - d
             /\ \A i \in 1..(Len(q) - d) : w[i] = q[i + d]
             /\ w[Len(q) + 1 - d] = x
    BY <1>2, <1>8, SendProperties
  <2>2. u = w
    BY <1>0
  <2> HIDE DEF w
  <2> QED BY <2>1, <2>2
<1> HIDE DEF Answers
<1>12. new \in Ingress /\ new.requests = ingress[s][c].requests
       /\ new.min = ingress[s][c].min /\ new.buffered = ingress[s][c].buffered
       /\ new.received = ingress[s][c].received
       /\ new.proposable = ingress[s][c].proposable
  <2> DEFINE in == ingress[s][c]
             b == r.id + Window + 1
  <2>1. in \in Ingress /\ b \in Nat /\ new = [in EXCEPT !.below = b]
    BY <1>2, <1>5
  <2> HIDE DEF in, b, new
  <2>2. /\ new \in Ingress /\ new.requests = in.requests
        /\ new.min = in.min /\ new.buffered = in.buffered
        /\ new.received = in.received /\ new.proposable = in.proposable
    BY <2>1 DEF Ingress
  <2> QED BY <2>2 DEF in
<1>13. /\ ingress' \in [Server -> [Client -> Ingress]]
       /\ ingress'[s][c] \in {new, ingress[s][c]}
       /\ \A t \in Server, d \in Client : t # s \/ d # c => ingress'[t][d] = ingress[t][d]
  <2>1. CASE Answers
    <3>1. ingress' = [ingress EXCEPT ![s][c] = new]
      BY <1>1, <1>2, <1>5, <2>1
    <3> HIDE DEF new
    <3> QED BY <1>2, <1>5, <1>12, <3>1, IngressSet
  <2>2. CASE ~Answers
    BY <1>1, <1>2, <2>2
  <2> QED BY <2>1, <2>2
<1> HIDE DEF new
<1>14. /\ to_client' \in [Server -> [Client -> Seq(Result)]]
       /\ to_client'[s][c] \in {u, q}
       /\ \A t \in Server, d \in Client :
            t # s \/ d # c => to_client'[t][d] = to_client[t][d]
  <2>1. CASE Answers /\ s # Mute
    <3>1. to_client' = [to_client EXCEPT ![s][c] = u]
      BY <1>1, <2>1
    <3> QED BY <1>2, <1>5, <1>11, <3>1
  <2>2. CASE ~(Answers /\ s # Mute)
    <3>1. to_client' = to_client
      BY <1>1, <2>2
    <3> QED BY <1>0, <1>2, <3>1
  <2> QED BY <2>1, <2>2
<1>15. UNCHANGED <<path, client_vars, to_server, link_vars, verify_vars, connected,
                   accepted, log>>
  BY <1>1
<1>16. TypeOK'
  <2>1. ClientTypes'
    BY <1>15 DEF Inv, TypeOK, ClientTypes, client_vars
  <2>2. LinkTypes'
    BY <1>14, <1>15 DEF Inv, TypeOK, LinkTypes, link_vars
  <2>3. ServerTypes'
    BY <1>7, <1>13, <1>15 DEF Inv, TypeOK, ServerTypes, verify_vars
  <2> QED BY <1>15, <2>1, <2>2, <2>3 DEF Inv, TypeOK
<1>17. ServerInv'
  <2>1. ASSUME NEW t \in Server, NEW d \in Client
        PROVE  /\ IngressOK(t, d, ingress'[t][d], accepted)
               /\ ingress'[t][d].received = ingress[t][d].received
               /\ ingress'[t][d].proposable = ingress[t][d].proposable
    <3>1. IngressOK(t, d, ingress[t][d], accepted)
      BY DEF Inv, ServerInv, IngressKept
    <3>2. CASE t = s /\ d = c
      <4>1. IngressOK(t, d, new, accepted)
        BY <1>12, <3>1, <3>2 DEF IngressOK
      <4> QED BY <1>12, <1>13, <3>1, <3>2, <4>1
    <3>3. CASE t # s \/ d # c
      BY <1>13, <3>1, <3>3
    <3> QED BY <3>2, <3>3
  <2>2. UNCHANGED <<path, accepted, log, echo_link>>
    BY <1>15 DEF link_vars
  <2> QED BY <2>1, <2>2, ServerFrame DEF Inv
<1>18. Grows
  <2>1. log' = log /\ Len(log) \in Nat
    BY <1>2, <1>15
  <2>2. ASSUME NEW t \in Server PROVE executed[t] <= executed'[t] /\ executed'[t] <= Len(log')
    <3>1. executed[t] \in Nat /\ executed[t] <= Len(log)
      BY <1>2 DEF Inv, ClientInv, ExecutedInLog
    <3>2. CASE t = s
      BY <1>0, <1>3, <1>7, <2>1, <3>1, <3>2
    <3>3. CASE t # s
      BY <1>7, <2>1, <3>1, <3>3
    <3> QED BY <3>2, <3>3
  <2> QED BY <2>1, <2>2 DEF Grows
<1>19. ASSUME NEW t \in Server, NEW d \in Client PROVE ResponsesOK(t, d)'
  <2>1. ResponsesOK(t, d) /\ TypeOK
    BY DEF Inv, ClientInv
  <2>2. next_response'[d][t] = next_response[d][t]
    BY <1>15 DEF client_vars
  <2>3. CASE to_client'[t][d] = to_client[t][d]
    BY <1>16, <1>18, <2>1, <2>2, <2>3, ResponsesGrow
  <2>4. CASE to_client'[t][d] # to_client[t][d]
    <3>1. t = s /\ d = c /\ to_client'[s][c] = u
      BY <1>0, <1>14, <2>4
    <3>2. PICK z \in {0, 1} :
            /\ z <= Len(q) /\ Len(u) = Len(q) + 1 - z
            /\ \A i \in 1..(Len(q) - z) : u[i] = q[i + z]
            /\ u[Len(q) + 1 - z] = x
      BY <1>11
    <3>3. Len(q) \in Nat
      BY <1>8
    <3>4. ASSUME NEW i \in 1..Len(u)
          PROVE  \/ i \in 1..(Len(q) - z) /\ i + z \in 1..Len(q) /\ u[i] = q[i + z]
                 \/ i = Len(q) + 1 - z /\ u[i] = x
      <4>1. i \in 1..(Len(q) - z) \/ i = Len(q) + 1 - z
        BY <3>2, <3>3
      <4>2. CASE i \in 1..(Len(q) - z)
        <5>1. i + z \in 1..Len(q)
          BY <3>2, <3>3, <4>2
        <5> QED BY <3>2, <4>2, <5>1
      <4>3. CASE i = Len(q) + 1 - z
        BY <3>2, <4>3
      <4> QED BY <4>1, <4>2, <4>3
    <3>5. /\ \A i \in 1..Len(q) :
               /\ Place(c, q[i].id, q[i].result) /\ q[i].result <= executed[s]
               /\ next_response[c][s] <= q[i].id
          /\ \A i, j \in 1..Len(q) : i < j => q[i].id < q[j].id
          /\ next_response[c][s] = 0 \/
               \E p \in 1..executed[s] : Place(c, next_response[c][s] - 1, p)
      <4>1. q = to_client[s][c]
        BY <1>0
      <4> QED BY <1>10, <4>1 DEF ResponsesOK
    <3>6. \A id, p \in Nat : Place(c, id, p) => Place(c, id, p)'
      BY <1>16, <1>18, <2>1, PlaceKept
    <3>7. \A i \in 1..Len(q) : q[i].id \in Nat /\ q[i].result \in Nat
      <4>1. \A i \in 1..Len(q) : q[i] \in Result
        BY <1>8, ElementOfSeq
      <4> QED BY <4>1 DEF Result
    <3>8. executed[s] \in Nat /\ executed'[s] = executed[s] + 1
      BY <1>0, <1>2, <1>7
    <3>9. \A i \in 1..Len(u) :
            /\ Place(c, u[i].id, u[i].result)' /\ u[i].result <= executed'[s]
            /\ next_response[c][s] <= u[i].id
      <4> TAKE i \in 1..Len(u)
      <4>1. CASE i + z \in 1..Len(q) /\ u[i] = q[i + z]
        <5>1. Place(c, u[i].id, u[i].result)'
          BY <3>5, <3>6, <3>7, <4>1
        <5> QED BY <3>5, <3>7, <3>8, <4>1, <5>1
      <4>2. CASE u[i] = x
        <5>1. Place(c, r.id, n)'
          BY <1>3, <1>5, <1>6, <3>6
        <5>2. n <= executed'[s]
          BY <1>0, <3>8
        <5> QED BY <1>8, <1>9, <4>2, <5>1, <5>2
      <4> QED BY <3>4, <4>1, <4>2
    <3>10. \A i, j \in 1..Len(u) : i < j => u[i].id < u[j].id
      <4> SUFFICES ASSUME NEW i \in 1..Len(u), NEW j \in 1..Len(u), i < j
                   PROVE  u[i].id < u[j].id
        OBVIOUS
      <4>1. i + z \in 1..Len(q) /\ u[i] = q[i + z]
        BY <3>2, <3>3, <3>4
      <4>2. CASE j + z \in 1..Len(q) /\ u[j] = q[j + z]
        <5>1. i + z < j + z
          BY <3>2
        <5> QED BY <3>5, <4>1, <4>2, <5>1
      <4>3. CASE u[j] = x
        BY <1>8, <1>9, <4>1, <4>3
      <4> QED BY <3>4, <4>2, <4>3
    <3>11. next_response[c][s] = 0 \/
             \E p \in 1..executed'[s] : Place(c, next_response[c][s] - 1, p)'
      <4>1. CASE next_response[c][s] = 0
        BY <4>1
      <4>2. CASE next_response[c][s] # 0
        <5>1. PICK p \in 1..executed[s] : Place(c, next_response[c][s] - 1, p)
          BY <3>5, <4>2
        <5>2. Place(c, next_response[c][s] - 1, p)'
          <6> DEFINE m == next_response[c][s] - 1
          <6>1. PICK k : k = m
            OBVIOUS
          <6>2. Place(c, k, p)'
            BY <1>16, <1>18, <2>1, <5>1, <6>1, PlaceKept
          <6> QED BY <2>2, <3>1, <6>1, <6>2 DEF Place
        <5>3. p \in 1..executed'[s]
          BY <3>8
        <5> QED BY <5>2, <5>3
      <4> QED BY <4>1, <4>2
    <3> QED BY <2>2, <3>1, <3>9, <3>10, <3>11 DEF ResponsesOK
  <2> QED BY <2>3, <2>4
<1>20. ClientInv'
  <2>1. UNCHANGED <<next_request, waiting, next_response, answers>>
    BY <1>15 DEF client_vars
  <2>2. TypeOK /\ ClientInv
    BY DEF Inv
  <2> QED BY <1>16, <1>18, <1>19, <2>1, <2>2, ClientGrows
<1>21. CreditsOK'
  BY <1>15, CreditsSame DEF Inv
<1> QED BY <1>16, <1>17, <1>20, <1>21 DEF Inv
(* A new request has no response yet, and comes after all those answered. *)
LEMMA PostKeeps ==
  ASSUME Assumption, Inv, NEW c \in Client, Post(c)
  PROVE  Inv'
<1>1. TypeOK'
  BY PostTypes DEF Inv
<1>2. ServerInv'
  BY ServerSame DEF Inv, Post, link_vars, smr_vars
<1>3. CreditsOK'
  BY CreditsSame DEF Inv, Post
<1>4. UNCHANGED <<next_response, answers, to_client, log, executed>>
  BY DEF Post, smr_vars
<1>5. PICK n, w :
        /\ n = next_request[c] /\ w = WithKey(waiting[c], n, << >>)
        /\ next_request' = [next_request EXCEPT ![c] = n + 1]
        /\ waiting' = [waiting EXCEPT ![c] = w]
  BY DEF Post
<1>6. /\ next_request \in [Client -> Nat] /\ waiting \in [Client -> Waiting] /\ n \in Nat
  BY <1>5 DEF Inv, TypeOK, ClientTypes
<1>7. /\ n \in DOMAIN w /\ w[n] = << >>
      /\ \A i \in DOMAIN w : i # n => i \in DOMAIN waiting[c] /\ w[i] = waiting[c][i]
  <2>1. PICK m : m = waiting[c]
    OBVIOUS
  <2>2. w = WithKey(m, n, << >>)
    BY <1>5, <2>1
  <2>3. /\ n \in DOMAIN w /\ w[n] = << >>
        /\ \A i \in DOMAIN w : i # n => i \in DOMAIN m /\ w[i] = m[i]
    BY <2>2, WithKeyProperties
  <2> QED BY <2>1, <2>3
<1>8. /\ next_request'[c] = n + 1 /\ waiting'[c] = w
      /\ \A d \in Client : d # c => /\ next_request'[d] = next_request[d]
                                    /\ waiting'[d] = waiting[d]
  BY <1>5, <1>6
<1>9. ExecutedInLog' /\ \A s \in Server, d \in Client : ResponsesOK(s, d)'
  <2>1. ExecutedInLog'
    BY <1>4 DEF Inv, ClientInv, ExecutedInLog
  <2>2. \A d : \A id : \A p : Place(d, id, p)' = Place(d, id, p)
    BY <1>4 DEF Place
  <2>3. ASSUME NEW s \in Server, NEW d \in Client PROVE ResponsesOK(s, d)'
    <3>1. ResponsesOK(s, d)
      BY DEF Inv, ClientInv
    <3> QED BY <1>4, <2>2, <3>1 DEF ResponsesOK
  <2> QED BY <2>1, <2>3
<1>10. \A d : \A id : \A p : Place(d, id, p)' = Place(d, id, p)
  BY <1>4 DEF Place
<1>11. \A d : \A id : Answerers(d, id)' = Answerers(d, id)
  BY <1>4, <1>10 DEF Answerers
<1>12. ASSUME NEW d \in Client PROVE WaitingOK(d)'
  <2>1. WaitingOK(d)
    BY DEF Inv, ClientInv
  <2>2. CASE d # c
    BY <1>8, <1>10, <1>11, <2>1, <2>2 DEF WaitingOK
  <2>3. CASE d = c
    <3>1. ASSUME NEW id \in DOMAIN w
          PROVE  /\ id < n + 1
                 /\ \A i \in 1..Len(w[id]) : Place(c, id, w[id][i])
                 /\ Len(w[id]) <= Cardinality(Answerers(c, id))
      <4>1. CASE id = n
        <5>1. Cardinality(Answerers(c, id)) \in Nat
          <6>1. Answerers(c, id) \subseteq Server
            BY DEF Answerers
          <6> QED BY <6>1, AnswerersFinite
        <5> QED BY <1>6, <1>7, <4>1, <5>1
      <4>2. CASE id # n
        <5>1. id \in DOMAIN waiting[c] /\ w[id] = waiting[c][id]
          BY <1>7, <4>2
        <5>2. id \in Nat
          BY <1>6, <5>1, WaitingAre
        <5>3. id < n
          BY <1>5, <2>1, <2>3, <5>1 DEF WaitingOK
        <5> QED BY <1>6, <2>1, <2>3, <5>1, <5>2, <5>3 DEF WaitingOK
      <4> QED BY <4>1, <4>2
    <3> QED BY <1>8, <1>10, <1>11, <2>3, <3>1 DEF WaitingOK
  <2> QED BY <2>2, <2>3
<1>13. ASSUME NEW d \in Client PROVE AnswersOK(d)'
  <2>1. AnswersOK(d)
    BY DEF Inv, ClientInv
  <2>2. CASE d # c
    BY <1>4, <1>8, <1>10, <2>1, <2>2 DEF AnswersOK
  <2>3. CASE d = c
    <3>1. ASSUME NEW i \in 1..Len(answers[c])
          PROVE  /\ answers[c][i].id < n + 1
                 /\ \A id \in DOMAIN w : answers[c][i].id < id
      <4>1. /\ answers[c][i].id < n
            /\ \A id \in DOMAIN waiting[c] : answers[c][i].id < id
        BY <1>5, <2>1, <2>3 DEF AnswersOK
      <4>2. answers[c][i].id \in Nat
        <5>1. answers[c] \in Seq(Result)
          BY DEF Inv, TypeOK, ClientTypes
        <5>2. answers[c][i] \in Result
          BY <5>1, ElementOfSeq
        <5> QED BY <5>2 DEF Result
      <4> QED BY <1>6, <1>7, <4>1, <4>2
    <3>2. answers' = answers /\ executed' = executed
      BY <1>4
    <3>3. ASSUME NEW i \in 1..Len(answers[c])
          PROVE  /\ Place(c, answers[c][i].id, answers[c][i].result)'
                 /\ Cardinality({s \in Server : executed'[s] >= answers[c][i].result})
                      >= Quorum
                 /\ \A j \in 1..Len(answers[c]) :
                      i < j => answers[c][i].id < answers[c][j].id
      <4>1. /\ Place(c, answers[c][i].id, answers[c][i].result)
            /\ Cardinality({s \in Server : executed[s] >= answers[c][i].result})
                 >= Quorum
            /\ \A j \in 1..Len(answers[c]) :
                 i < j => answers[c][i].id < answers[c][j].id
        BY <2>1, <2>3 DEF AnswersOK
      <4>2. Place(c, answers[c][i].id, answers[c][i].result)'
        BY <1>10, <3>2, <4>1
      <4> QED BY <3>2, <4>1, <4>2
    <3>4. /\ next_request'[c] = n + 1 /\ DOMAIN waiting'[c] = DOMAIN w
      BY <1>8
    <3> QED BY <2>3, <3>1, <3>2, <3>3, <3>4 DEF AnswersOK
  <2> QED BY <2>2, <2>3
<1>14. ClientInv'
  BY <1>9, <1>12, <1>13 DEF ClientInv
<1> QED BY <1>1, <1>2, <1>3, <1>14 DEF Inv

LEMMA SignKeeps ==
  ASSUME Assumption, Inv, NEW c \in Client, Sign(c)
  PROVE  Inv'
<1>1. TypeOK'
  BY SignTypes DEF Inv
<1>2. ServerInv'
  BY ServerSame DEF Inv, Sign, link_vars, smr_vars
<1>3. ClientInv'
  BY ClientSame DEF Inv, Sign, smr_vars
<1>4. CreditsOK'
  BY CreditsSame DEF Inv, Sign
<1> QED BY <1>1, <1>2, <1>3, <1>4 DEF Inv
(* One more server answered. *)
LEMMA OneMoreServer ==
  ASSUME Assumption, NEW T \in SUBSET Server, NEW S \in SUBSET T, NEW s \in T, s \notin S
  PROVE  Cardinality(S) + 1 <= Cardinality(T) /\ Cardinality(S) \in Nat
         /\ Cardinality(T) \in Nat
<1>1. IsFiniteSet(S) /\ Cardinality(S) \in Nat
  BY AnswerersFinite
<1>2. Cardinality(S \cup {s}) = Cardinality(S) + 1
  BY <1>1, FS_AddElement
<1>3. Cardinality(S \cup {s}) <= Cardinality(T) /\ Cardinality(T) \in Nat
  <2>1. S \cup {s} \subseteq T
    OBVIOUS
  <2> QED BY <2>1, MoreServers
<1> QED BY <1>1, <1>2, <1>3

(* A response that is polled is the first of its server to this request. *)
LEMMA PollResponseKeeps ==
  ASSUME Assumption, Inv, NEW c \in Client, NEW s \in Server, PollResponse(c, s)
  PROVE  Inv'
<1>1. PICK q, r, t : q = to_client[s][c] /\ r = Head(q) /\ t = Tail(q)
  OBVIOUS
<1>2. /\ q # << >>
      /\ next_response' = [next_response EXCEPT ![c][s] = r.id + 1]
      /\ waiting' = IF r.id \in DOMAIN waiting[c]
                    THEN [waiting EXCEPT ![c][r.id] = Append(@, r.result)]
                    ELSE waiting
      /\ to_client' = [to_client EXCEPT ![s][c] = t]
      /\ UNCHANGED <<path, next_request, answers, signing, to_server, link_vars,
                     ingress, verify_vars, connected, smr_vars, blames>>
  BY <1>1 DEF PollResponse
<1>3. /\ to_client \in [Server -> [Client -> Seq(Result)]]
      /\ next_response \in [Client -> [Server -> Nat]]
      /\ waiting \in [Client -> Waiting] /\ executed \in [Server -> Nat]
  BY DEF Inv, TypeOK, ClientTypes, LinkTypes, ServerTypes
<1>4. /\ r \in Result /\ r = q[1] /\ q \in Seq(Result) /\ Len(q) \in Nat \ {0}
      /\ t \in Seq(Result) /\ Len(t) = Len(q) - 1
      /\ \A i \in 1..(Len(q) - 1) : t[i] = q[i + 1]
  <2>1. q \in Seq(Result)
    BY <1>1, <1>3
  <2> QED BY <1>1, <1>2, <2>1, TailProperties
<1>5. r.id \in Nat /\ r.result \in Nat
  BY <1>4 DEF Result
<1>6. /\ \A i \in 1..Len(q) :
           /\ Place(c, q[i].id, q[i].result) /\ q[i].result <= executed[s]
           /\ next_response[c][s] <= q[i].id
      /\ \A i, j \in 1..Len(q) : i < j => q[i].id < q[j].id
  <2>1. ResponsesOK(s, c)
    BY DEF Inv, ClientInv
  <2> QED BY <1>1, <2>1 DEF ResponsesOK
<1>7. /\ Place(c, r.id, r.result) /\ r.result \in 1..executed[s]
      /\ next_response[c][s] <= r.id
  <2>1. 1 \in 1..Len(q)
    BY <1>4
  <2>2. /\ Place(c, r.id, r.result) /\ r.result <= executed[s]
        /\ next_response[c][s] <= r.id
    BY <1>4, <1>6, <2>1
  <2>3. r.result >= 1
    BY <2>2 DEF Place
  <2> QED BY <1>3, <1>5, <2>2, <2>3
<1>8. /\ next_response' \in [Client -> [Server -> Nat]]
      /\ next_response'[c][s] = r.id + 1
      /\ \A d \in Client, u \in Server :
           d # c \/ u # s => next_response'[d][u] = next_response[d][u]
  BY <1>2, <1>3, <1>5
<1>9. /\ to_client' \in [Server -> [Client -> Seq(Result)]]
      /\ to_client'[s][c] = t
      /\ \A d \in Client, u \in Server :
           d # c \/ u # s => to_client'[u][d] = to_client[u][d]
  BY <1>2, <1>3, <1>4
<1>10. PICK m, new : m = waiting[c] /\ new = waiting'[c]
  OBVIOUS
<1>11. /\ DOMAIN m \in SUBSET Nat /\ m \in [DOMAIN m -> Seq(Nat)]
  BY <1>3, <1>10, WaitingAre
<1>12. /\ new \in Waiting /\ DOMAIN new = DOMAIN m
       /\ \A id \in DOMAIN m :
            new[id] = IF id = r.id THEN Append(m[id], r.result) ELSE m[id]
       /\ waiting' = [waiting EXCEPT ![c] = new]
  <2>1. CASE r.id \in DOMAIN m
    <3>1. PICK id : id = r.id
      OBVIOUS
    <3>2. PICK e : e = Append(m[id], r.result)
      OBVIOUS
    <3>3. e \in Seq(Nat)
      BY <1>5, <1>11, <2>1, <3>1, <3>2
    <3>4. waiting' = [waiting EXCEPT ![c][id] = e]
      BY <1>2, <1>10, <2>1, <3>1, <3>2
    <3>5. new = [m EXCEPT ![id] = e]
      BY <1>3, <1>10, <3>4
    <3>6. DOMAIN new = DOMAIN m /\ new \in [DOMAIN m -> Seq(Nat)]
          /\ new[id] = e /\ \A k \in DOMAIN m : k # id => new[k] = m[k]
      BY <1>11, <2>1, <3>1, <3>3, <3>5
    <3>7. new \in Waiting
      BY <1>11, <3>6, WaitingAre
    <3>8. waiting' = [waiting EXCEPT ![c] = new]
      BY <1>3, <1>10, <3>4, <3>5
    <3> QED BY <3>1, <3>2, <3>6, <3>7, <3>8
  <2>2. CASE r.id \notin DOMAIN m
    <3>1. waiting' = waiting
      BY <1>2, <1>10, <2>2
    <3>2. new = m /\ new \in Waiting
      BY <1>3, <1>10, <3>1
    <3>3. waiting' = [waiting EXCEPT ![c] = new]
      BY <1>3, <1>10, <3>1
    <3> QED BY <2>2, <3>2, <3>3
  <2> QED BY <2>1, <2>2
<1>13. /\ waiting' \in [Client -> Waiting]
       /\ \A d \in Client : d # c => waiting'[d] = waiting[d]
  BY <1>3, <1>12
<1>14. TypeOK'
  <2>1. ClientTypes'
    BY <1>2, <1>8, <1>13 DEF Inv, TypeOK, ClientTypes
  <2>2. LinkTypes'
    BY <1>2, <1>9 DEF Inv, TypeOK, LinkTypes, link_vars
  <2>3. ServerTypes'
    BY <1>2 DEF Inv, TypeOK, ServerTypes, verify_vars, smr_vars
  <2> QED BY <1>2, <2>1, <2>2, <2>3 DEF Inv, TypeOK
<1>15. ServerInv'
  BY <1>2, ServerSame DEF Inv, link_vars, smr_vars
<1>16. CreditsOK'
  BY <1>2, CreditsSame DEF Inv
<1>17. log' = log /\ executed' = executed /\ next_request' = next_request
       /\ answers' = answers
  BY <1>2 DEF smr_vars
<1>18. \A d : \A id : \A p : Place(d, id, p)' = Place(d, id, p)
  BY <1>17 DEF Place
<1>19. ExecutedInLog'
  BY <1>17 DEF Inv, ClientInv, ExecutedInLog
<1>20. ASSUME NEW u \in Server, NEW d \in Client PROVE ResponsesOK(u, d)'
  <2>1. ResponsesOK(u, d)
    BY DEF Inv, ClientInv
  <2>2. CASE u # s \/ d # c
    BY <1>8, <1>9, <1>17, <1>18, <2>1, <2>2 DEF ResponsesOK
  <2>3. CASE u = s /\ d = c
    <3>1. ASSUME NEW i \in 1..Len(t)
          PROVE  /\ i + 1 \in 1..Len(q) /\ t[i] = q[i + 1] /\ r.id < t[i].id
                 /\ t[i].id \in Nat
      <4>1. i + 1 \in 1..Len(q) /\ 1 \in 1..Len(q) /\ 1 < i + 1 /\ t[i] = q[i + 1]
        BY <1>4
      <4>2. q[1].id < q[i + 1].id
        BY <1>6, <4>1
      <4>3. t[i] \in Result
        BY <1>4, ElementOfSeq
      <4> QED BY <1>4, <4>1, <4>2, <4>3 DEF Result
    <3>2. \A i \in 1..Len(t) :
            /\ Place(c, t[i].id, t[i].result) /\ t[i].result <= executed[s]
            /\ r.id + 1 <= t[i].id
      <4> TAKE i \in 1..Len(t)
      <4>1. PICK j, x : j = i + 1 /\ x = q[j]
        OBVIOUS
      <4>2. j \in 1..Len(q) /\ t[i] = x /\ r.id < x.id /\ x.id \in Nat
        BY <3>1, <4>1
      <4>3. Place(c, x.id, x.result) /\ x.result <= executed[s]
        BY <1>6, <4>1, <4>2
      <4>4. r.id + 1 <= x.id
        BY <1>5, <4>2
      <4> QED BY <4>2, <4>3, <4>4
    <3>3. \A i, j \in 1..Len(t) : i < j => t[i].id < t[j].id
      <4> SUFFICES ASSUME NEW i \in 1..Len(t), NEW j \in 1..Len(t), i < j
                   PROVE  t[i].id < t[j].id
        OBVIOUS
      <4>1. i + 1 < j + 1
        OBVIOUS
      <4> QED BY <1>6, <3>1, <4>1
    <3>4. \E p \in 1..executed'[s] : Place(c, next_response[c][s] - 1, p)'
      <4>1. PICK p, id : p = r.result /\ id = r.id
        OBVIOUS
      <4>2. p \in 1..executed'[s] /\ Place(c, id, p)'
        BY <1>7, <1>17, <1>18, <4>1
      <4>3. next_response'[c][s] - 1 = id
        BY <1>5, <1>8, <4>1
      <4> QED BY <4>2, <4>3 DEF Place
    <3> QED BY <1>8, <1>9, <1>17, <1>18, <2>3, <3>2, <3>3, <3>4 DEF ResponsesOK
  <2> QED BY <2>2, <2>3
<1>21. ASSUME NEW d \in Client, NEW id \in Nat
       PROVE  Answerers(d, id) \subseteq Answerers(d, id)' /\ Answerers(d, id)' \subseteq Server
  <2>1. \A u \in Server : next_response[d][u] > id => next_response'[d][u] > id
    <3> TAKE u \in Server
    <3>1. CASE d # c \/ u # s
      BY <1>8, <3>1
    <3>2. CASE d = c /\ u = s
      BY <1>3, <1>5, <1>7, <1>8, <3>2
    <3> QED BY <3>1, <3>2
  <2> QED BY <1>17, <1>18, <2>1 DEF Answerers
<1>22. s \in Answerers(c, r.id)' /\ s \notin Answerers(c, r.id)
  <2>1. s \notin Answerers(c, r.id)
    BY <1>3, <1>5, <1>7 DEF Answerers
  <2>2. next_response'[c][s] > r.id
    BY <1>5, <1>8
  <2>3. \E p \in 1..executed'[s] : Place(c, r.id, p)'
    BY <1>7, <1>17, <1>18
  <2> QED BY <1>5, <2>1, <2>2, <2>3 DEF Answerers
<1>23. ASSUME NEW d \in Client PROVE WaitingOK(d)'
  <2>1. WaitingOK(d)
    BY DEF Inv, ClientInv
  <2>2. ASSUME NEW id \in DOMAIN waiting[d]
        PROVE  /\ id \in Nat /\ waiting[d][id] \in Seq(Nat)
               /\ Len(waiting[d][id]) \in Nat
               /\ Len(waiting[d][id]) <= Cardinality(Answerers(d, id))
               /\ Cardinality(Answerers(d, id)) \in Nat
               /\ Cardinality(Answerers(d, id)') \in Nat
               /\ Cardinality(Answerers(d, id)) <= Cardinality(Answerers(d, id)')
    <3>1. id \in Nat /\ waiting[d][id] \in Seq(Nat)
      BY <1>3, <2>2, WaitingAre
    <3>2. Len(waiting[d][id]) <= Cardinality(Answerers(d, id))
      BY <2>1 DEF WaitingOK
    <3>3. PICK old, more : old = Answerers(d, id) /\ more = Answerers(d, id)'
      OBVIOUS
    <3>4. old \subseteq more /\ more \subseteq Server
      BY <1>21, <3>1, <3>3
    <3>5. /\ Cardinality(old) <= Cardinality(more) /\ Cardinality(old) \in Nat
          /\ Cardinality(more) \in Nat
      BY <3>4, MoreServers
    <3> QED BY <3>1, <3>2, <3>3, <3>5
  <2>3. CASE d # c
    <3>1. waiting'[d] = waiting[d]
      BY <1>13, <2>3
    <3>2. \A id \in DOMAIN waiting[d] :
            /\ id < next_request[d]
            /\ \A i \in 1..Len(waiting[d][id]) : Place(d, id, waiting[d][id][i])
      BY <2>1 DEF WaitingOK
    <3>3. \A id \in DOMAIN waiting[d] :
            Len(waiting[d][id]) <= Cardinality(Answerers(d, id)')
      BY <2>2
    <3> QED BY <1>17, <1>18, <3>1, <3>2, <3>3 DEF WaitingOK
  <2>4. CASE d = c
    <3>1. ASSUME NEW id \in DOMAIN new
          PROVE  /\ id < next_request[c]
                 /\ \A i \in 1..Len(new[id]) : Place(c, id, new[id][i])
                 /\ Len(new[id]) <= Cardinality(Answerers(c, id)')
      <4>1. id \in DOMAIN m
        BY <1>12
      <4>2. /\ id < next_request[c]
            /\ \A i \in 1..Len(m[id]) : Place(c, id, m[id][i])
        BY <1>10, <2>1, <2>4, <4>1 DEF WaitingOK
      <4>3. CASE id # r.id
        <5>1. new[id] = m[id]
          BY <1>12, <4>1, <4>3
        <5>2. Len(m[id]) <= Cardinality(Answerers(c, id)')
          BY <1>10, <2>2, <2>4, <4>1
        <5> QED BY <4>2, <5>1, <5>2
      <4>4. CASE id = r.id
        <5>1. PICK g, e : g = m[id] /\ e = r.result
          OBVIOUS
        <5>2. new[id] = Append(g, e) /\ g \in Seq(Nat) /\ e \in Nat
          BY <1>5, <1>11, <1>12, <4>1, <4>4, <5>1
        <5>3. /\ Len(Append(g, e)) = Len(g) + 1 /\ Len(g) \in Nat
              /\ Append(g, e)[Len(g) + 1] = e
              /\ \A i \in 1..Len(g) : Append(g, e)[i] = g[i]
          BY <5>2, AppendProperties
        <5>4. \A i \in 1..Len(new[id]) : i \in 1..Len(g) \/ i = Len(g) + 1
          BY <5>2, <5>3
        <5>5. Place(c, id, e)
          BY <1>7, <4>4, <5>1
        <5>6. \A i \in 1..Len(new[id]) : Place(c, id, new[id][i])
          BY <4>2, <5>1, <5>2, <5>3, <5>4, <5>5
        <5>7. PICK old, more : old = Answerers(c, id) /\ more = Answerers(c, id)'
          OBVIOUS
        <5>8. old \subseteq more /\ more \subseteq Server /\ s \in more /\ s \notin old
          BY <1>5, <1>21, <1>22, <4>4, <5>7
        <5>9. Cardinality(old) + 1 <= Cardinality(more) /\ Cardinality(old) \in Nat
              /\ Cardinality(more) \in Nat
          BY <5>8, OneMoreServer
        <5>10. Len(g) <= Cardinality(old)
          BY <1>10, <2>2, <2>4, <4>1, <5>1, <5>7
        <5>11. Len(new[id]) <= Cardinality(more)
          BY <5>2, <5>3, <5>9, <5>10
        <5> QED BY <4>2, <5>6, <5>7, <5>11
      <4> QED BY <4>3, <4>4
    <3> QED BY <1>10, <1>17, <1>18, <2>4, <3>1 DEF WaitingOK
  <2> QED BY <2>3, <2>4
<1>24. ASSUME NEW d \in Client PROVE AnswersOK(d)'
  <2>1. AnswersOK(d)
    BY DEF Inv, ClientInv
  <2>2. DOMAIN waiting'[d] = DOMAIN waiting[d]
    BY <1>10, <1>12, <1>13
  <2> QED BY <1>17, <1>18, <2>1, <2>2 DEF AnswersOK
<1>25. ClientInv'
  BY <1>19, <1>20, <1>23, <1>24 DEF ClientInv
<1> QED BY <1>14, <1>15, <1>16, <1>25 DEF Inv
LEMMA QuorumIsPositive == Assumption => Quorum \in Nat \ {0}
<1> SUFFICES ASSUME Assumption PROVE Quorum \in Nat \ {0}
  OBVIOUS
<1>1. PICK n : n = Cardinality(Server) /\ n \in Nat
  BY AnswerersFinite
<1>2. n \div 2 \in Nat
  BY <1>1
<1> QED BY <1>1, <1>2 DEF Quorum

(* Those that answered executed the log up to the place of the request.      *)
LEMMA AnswerersExecuted ==
  ASSUME Assumption, TypeOK, ServerInv, NEW c \in Client, NEW id, NEW a, Place(c, id, a),
         Cardinality(Answerers(c, id)) >= Quorum
  PROVE  Cardinality({s \in Server : executed[s] >= a}) >= Quorum
<1> DEFINE old == Answerers(c, id)
           all == {s \in Server : executed[s] >= a}
<1>1. ASSUME NEW s \in old PROVE s \in all
  <2>1. s \in Server /\ \E p \in 1..executed[s] : Place(c, id, p)
    BY DEF Answerers
  <2>2. PICK p \in 1..executed[s] : Place(c, id, p)
    BY <2>1
  <2>3. p = a
    BY <2>2, SamePlace
  <2>4. executed[s] \in Nat
    BY <2>1 DEF TypeOK, ServerTypes
  <2> QED BY <2>1, <2>2, <2>3, <2>4
<1>2. old \subseteq all /\ all \subseteq Server
  BY <1>1
<1>3. Cardinality(old) >= Quorum
  OBVIOUS
<1> HIDE DEF old, all
<1>4. /\ Cardinality(old) <= Cardinality(all) /\ Cardinality(old) \in Nat
      /\ Cardinality(all) \in Nat
  BY <1>2, MoreServers
<1>5. Cardinality(all) >= Quorum
  BY <1>3, <1>4, QuorumIsPositive
<1> QED BY <1>5 DEF all

(* What poll returns when the responses to the oldest request agree.         *)
LEMMA AgreedAnswer ==
  ASSUME Assumption, Inv, NEW c \in Client, NEW id \in DOMAIN waiting[c], NEW a,
         \A k \in DOMAIN waiting[c] : id <= k,
         Enough(waiting[c][id]), a = waiting[c][id][1],
         answers' = [answers EXCEPT ![c] = Append(answers[c], Response(id, a))],
         waiting' = [waiting EXCEPT ![c] =
                      [i \in DOMAIN waiting[c] \ {id} |-> waiting[c][i]]],
         UNCHANGED <<next_request, next_response, signing, to_client, log, executed>>
  PROVE  ClientTypes' /\ ClientInv'
<1>1. PICK m, new : m = waiting[c] /\ new = [i \in DOMAIN m \ {id} |-> m[i]]
  OBVIOUS
<1>2. waiting \in [Client -> Waiting] /\ answers \in [Client -> Seq(Result)]
  BY DEF Inv, TypeOK, ClientTypes
<1>3. DOMAIN m \in SUBSET Nat /\ m \in [DOMAIN m -> Seq(Nat)] /\ id \in DOMAIN m
  BY <1>1, <1>2, WaitingAre
<1>4. PICK g : g = m[id] /\ g \in Seq(Nat) /\ Len(g) \in Nat
  BY <1>3
<1>5. Len(g) >= Quorum /\ 1 \in 1..Len(g) /\ a = g[1]
  BY <1>1, <1>4, QuorumIsPositive DEF Enough
<1>6. a \in Nat /\ id \in Nat
  BY <1>3, <1>4, <1>5
<1>7. /\ DOMAIN new = DOMAIN m \ {id} /\ \A k \in DOMAIN new : new[k] = m[k]
      /\ new \in Waiting
  <2>1. DOMAIN new = DOMAIN m \ {id} /\ \A k \in DOMAIN new : new[k] = m[k]
    BY <1>1
  <2>2. new \in [DOMAIN new -> Seq(Nat)] /\ DOMAIN new \in SUBSET Nat
    BY <1>1, <1>3
  <2> QED BY <2>1, <2>2, WaitingAre
<1>8. /\ waiting' = [waiting EXCEPT ![c] = new] /\ waiting' \in [Client -> Waiting]
      /\ waiting'[c] = new
      /\ \A d \in Client : d # c => waiting'[d] = waiting[d]
  BY <1>1, <1>2, <1>7
<1>9. PICK x, q, u : x = Response(id, a) /\ q = answers[c] /\ u = Append(q, x)
  OBVIOUS
<1>10. x \in Result /\ x.id = id /\ x.result = a
  BY <1>6, <1>9 DEF Response, Result
<1>11. /\ q \in Seq(Result) /\ u \in Seq(Result) /\ Len(u) = Len(q) + 1 /\ Len(q) \in Nat
       /\ u[Len(q) + 1] = x /\ \A i \in 1..Len(q) : u[i] = q[i]
  <2>1. q \in Seq(Result)
    BY <1>2, <1>9
  <2> QED BY <1>9, <1>10, <2>1, AppendProperties
<1>12. /\ answers' \in [Client -> Seq(Result)] /\ answers'[c] = u
       /\ \A d \in Client : d # c => answers'[d] = answers[d]
  BY <1>2, <1>9, <1>11
<1>13. ClientTypes'
  BY <1>8, <1>12 DEF Inv, TypeOK, ClientTypes
<1>14. \A d : \A k : \A p : Place(d, k, p)' = Place(d, k, p)
  BY DEF Place
<1>15. \A d : \A k : Answerers(d, k)' = Answerers(d, k)
  BY <1>14 DEF Answerers
<1>16. ExecutedInLog'
  BY DEF Inv, ClientInv, ExecutedInLog
<1>17. ASSUME NEW s \in Server, NEW d \in Client PROVE ResponsesOK(s, d)'
  <2>1. ResponsesOK(s, d)
    BY DEF Inv, ClientInv
  <2> QED BY <1>14, <2>1 DEF ResponsesOK
<1>18. ASSUME NEW d \in Client PROVE WaitingOK(d)'
  <2>1. WaitingOK(d)
    BY DEF Inv, ClientInv
  <2>2. CASE d # c
    BY <1>8, <1>14, <1>15, <2>1, <2>2 DEF WaitingOK
  <2>3. CASE d = c
    <3>1. \A k \in DOMAIN new : k \in DOMAIN waiting[c] /\ new[k] = waiting[c][k]
      BY <1>1, <1>7
    <3> QED BY <1>8, <1>14, <1>15, <2>1, <2>3, <3>1 DEF WaitingOK
  <2> QED BY <2>2, <2>3
<1>19. /\ Place(c, id, a) /\ id < next_request[c]
       /\ Cardinality({s \in Server : executed[s] >= a}) >= Quorum
  <2>1. WaitingOK(c)
    BY DEF Inv, ClientInv
  <2>2. /\ Place(c, id, a) /\ id < next_request[c]
        /\ Len(g) <= Cardinality(Answerers(c, id))
    BY <1>1, <1>4, <1>5, <2>1 DEF WaitingOK
  <2>3. Cardinality(Answerers(c, id)) >= Quorum
    <3>1. Cardinality(Answerers(c, id)) \in Nat
      <4>1. Answerers(c, id) \subseteq Server
        BY DEF Answerers
      <4> QED BY <4>1, AnswerersFinite
    <3> QED BY <1>4, <1>5, <2>2, <3>1, QuorumIsPositive
  <2>4. TypeOK /\ ServerInv
    BY DEF Inv
  <2>5. Cardinality({s \in Server : executed[s] >= a}) >= Quorum
    BY <2>2, <2>3, <2>4, AnswerersExecuted
  <2> QED BY <2>2, <2>5
<1>20. ASSUME NEW d \in Client PROVE AnswersOK(d)'
  <2>1. AnswersOK(d)
    BY DEF Inv, ClientInv
  <2>2. CASE d # c
    <3>1. \A i \in 1..Len(answers[d]) :
            Cardinality({s \in Server : executed[s] >= answers[d][i].result}) >= Quorum
      BY <2>1 DEF AnswersOK
    <3>2. executed' = executed /\ answers'[d] = answers[d] /\ waiting'[d] = waiting[d]
      BY <1>8, <1>12, <2>2
    <3>3. \A i \in 1..Len(answers'[d]) :
            Cardinality({s \in Server : executed'[s] >= answers'[d][i].result}) >= Quorum
      BY <3>1, <3>2
    <3>4. \A i \in 1..Len(answers'[d]) :
            /\ Place(d, answers[d][i].id, answers[d][i].result)'
            /\ answers'[d][i].id < next_request[d]
            /\ \A k \in DOMAIN waiting'[d] : answers'[d][i].id < k
            /\ \A j \in 1..Len(answers'[d]) : i < j => answers'[d][i].id < answers'[d][j].id
      BY <1>14, <2>1, <3>2 DEF AnswersOK
    <3> QED BY <3>3, <3>4 DEF AnswersOK, Quorum
  <2>3. CASE d = c
    <3>1. ASSUME NEW i \in 1..Len(q)
          PROVE  /\ Place(c, q[i].id, q[i].result)
                 /\ Cardinality({s \in Server : executed[s] >= q[i].result}) >= Quorum
                 /\ q[i].id < next_request[c] /\ q[i].id < id
                 /\ \A k \in DOMAIN new : q[i].id < k
                 /\ \A j \in 1..Len(q) : i < j => q[i].id < q[j].id
      BY <1>1, <1>3, <1>7, <1>9, <2>1, <2>3 DEF AnswersOK
    <3>2. \A k \in DOMAIN new : id < k
      BY <1>1, <1>3, <1>7
    <3>3. \A i \in 1..Len(u) :
            \/ i \in 1..Len(q) /\ u[i] = q[i]
            \/ i = Len(q) + 1 /\ u[i] = x
      <4> TAKE i \in 1..Len(u)
      <4>1. i \in 1..Len(q) \/ i = Len(q) + 1
        BY <1>11
      <4>2. CASE i \in 1..Len(q)
        BY <1>11, <4>2
      <4>3. CASE i = Len(q) + 1
        <5>1. u[i] = x
          BY <1>11, <4>3
        <5> QED BY <4>3, <5>1
      <4> QED BY <4>1, <4>2, <4>3
    <3>4. ASSUME NEW i \in 1..Len(u)
          PROVE  /\ Place(c, u[i].id, u[i].result)
                 /\ Cardinality({s \in Server : executed[s] >= u[i].result}) >= Quorum
                 /\ u[i].id < next_request[c]
                 /\ \A k \in DOMAIN new : u[i].id < k
                 /\ \A j \in 1..Len(u) : i < j => u[i].id < u[j].id
      <4>1. CASE i \in 1..Len(q) /\ u[i] = q[i]
        <5>1. ASSUME NEW j \in 1..Len(u), i < j PROVE u[i].id < u[j].id
          <6>1. CASE j \in 1..Len(q) /\ u[j] = q[j]
            BY <3>1, <4>1, <5>1, <6>1
          <6>2. CASE u[j] = x
            BY <1>10, <3>1, <4>1, <6>2
          <6> QED BY <3>3, <6>1, <6>2
        <5> QED BY <3>1, <4>1, <5>1
      <4>2. CASE i = Len(q) + 1 /\ u[i] = x
        <5>1. \A j \in 1..Len(u) : ~(i < j)
          BY <1>11, <4>2
        <5> QED BY <1>10, <1>19, <3>2, <4>2, <5>1
      <4> QED BY <3>3, <4>1, <4>2
    <3>5. executed' = executed /\ answers'[c] = u /\ waiting'[c] = new
      BY <1>8, <1>12
    <3>6. \A i \in 1..Len(answers'[c]) :
            Cardinality({s \in Server : executed'[s] >= answers'[c][i].result}) >= Quorum
      BY <3>4, <3>5
    <3>7. \A i \in 1..Len(answers'[c]) :
            /\ Place(c, answers[c][i].id, answers[c][i].result)'
            /\ answers'[c][i].id < next_request[c]
            /\ \A k \in DOMAIN waiting'[c] : answers'[c][i].id < k
            /\ \A j \in 1..Len(answers'[c]) : i < j => answers'[c][i].id < answers'[c][j].id
      BY <1>14, <3>4, <3>5
    <3> QED BY <2>3, <3>6, <3>7 DEF AnswersOK, Quorum
  <2> QED BY <2>2, <2>3
<1> QED BY <1>13, <1>16, <1>17, <1>18, <1>20 DEF ClientInv

LEMMA PollAnswerKeeps ==
  ASSUME Assumption, Inv, NEW c \in Client, PollAnswer(c)
  PROVE  Inv'
<1> DEFINE id == CHOOSE i \in DOMAIN waiting[c] : \A j \in DOMAIN waiting[c] : i <= j
           a == waiting[c][id][1]
<1>1. /\ DOMAIN waiting[c] # {} /\ Enough(waiting[c][id])
      /\ IF Identical(waiting[c][id])
         THEN /\ answers' = [answers EXCEPT ![c] = Append(answers[c], Response(id, a))]
              /\ waiting' = [waiting EXCEPT ![c] =
                              [i \in DOMAIN waiting[c] \ {id} |-> waiting[c][i]]]
         ELSE UNCHANGED <<answers, waiting>>
      /\ UNCHANGED <<path, next_request, next_response, signing, to_server,
                     to_client, link_vars, ingress, verify_vars, connected, smr_vars>>
  <2>1. waiting \in [Client -> Waiting] /\ answers \in [Client -> Seq(Result)]
    BY DEF Inv, TypeOK, ClientTypes
  <2> DEFINE responses == waiting[c][id]
  <2>2. /\ DOMAIN waiting[c] # {} /\ Enough(responses)
        /\ IF Identical(responses)
           THEN /\ answers' = [answers EXCEPT ![c] =
                     Append(@, Response(id, responses[1]))]
                /\ waiting' = [waiting EXCEPT ![c] =
                     [i \in DOMAIN @ \ {id} |-> @[i]]]
                /\ UNCHANGED blames
           ELSE /\ blames' = blames \cup {"responses did not match"}
                /\ UNCHANGED <<answers, waiting>>
        /\ UNCHANGED <<path, next_request, next_response, signing, to_server,
                       to_client, link_vars, ingress, verify_vars, connected, smr_vars>>
    BY Zenon DEF PollAnswer
  <2> HIDE DEF id
  <2> QED BY <2>2, Zenon
<1>2. id \in DOMAIN waiting[c] /\ \A k \in DOMAIN waiting[c] : id <= k
  <2>1. DOMAIN waiting[c] \in SUBSET Nat
    BY WaitingAre DEF Inv, TypeOK, ClientTypes
  <2>2. \E i \in DOMAIN waiting[c] : \A j \in DOMAIN waiting[c] : i <= j
    BY <1>1, <2>1, LeastNat
  <2> QED BY <2>2
<1> HIDE DEF id
<1>3. ClientTypes' /\ ClientInv'
  <2>1. CASE Identical(waiting[c][id])
    BY <1>1, <1>2, <2>1, AgreedAnswer DEF smr_vars
  <2>2. CASE ~Identical(waiting[c][id])
    <3>1. UNCHANGED <<next_request, waiting, next_response, answers, signing,
                      to_client, log, executed>>
      BY <1>1, <2>2 DEF smr_vars
    <3>2. ClientInv'
      BY <3>1, ClientSame DEF Inv
    <3> QED BY <3>1, <3>2 DEF Inv, TypeOK, ClientTypes
  <2> QED BY <2>1, <2>2
<1>4. LinkTypes'
  BY <1>1 DEF Inv, TypeOK, LinkTypes, link_vars
<1>5. ServerTypes'
  BY <1>1 DEF Inv, TypeOK, ServerTypes, verify_vars, smr_vars
<1>6. ServerInv'
  BY <1>1, ServerSame DEF Inv, link_vars, smr_vars
<1>7. CreditsOK'
  BY <1>1, CreditsSame DEF Inv
<1> QED BY <1>1, <1>3, <1>4, <1>5, <1>6, <1>7 DEF Inv, TypeOK
-----------------------------------------------------------------------------
(* The RPC layer *)

LEMMA InitKeeps == Assumption /\ Init => Inv
<1> SUFFICES ASSUME Assumption, Init PROVE Inv
  OBVIOUS
<1>1. TypeOK
  BY InitTypes
<1>2. /\ log = << >> /\ \A c \in Client : answers[c] = << >> /\ waiting[c] = NoRequests
      /\ \A s \in Server : /\ accepted[s] = << >> /\ executed[s] = 0
                           /\ \A c \in Client : /\ to_client[s][c] = << >>
                                                /\ next_response[c][s] = 0
                                                /\ ingress[s][c] = NewClient
                           /\ \A t \in Server : /\ echo_link[s][t] = << >>
                                                /\ ack_link[s][t] = << >>
                                                /\ outstanding[s][t] = 0
  BY DEF Init, ClientInit
<1>3. \A i : i \notin 1..Len(<< >>)
  OBVIOUS
<1>4. DOMAIN NoRequests = {}
  BY DEF NoRequests
<1>5. Len(<< >>) = 0
  OBVIOUS
<1>6. IngressKept
  <2> SUFFICES ASSUME NEW s \in Server, NEW c \in Client
               PROVE  IngressOK(s, c, ingress[s][c], accepted)
    BY DEF IngressKept
  <2>1. /\ ingress[s][c].requests = NoRequests /\ ingress[s][c].received = 0
        /\ \A f \in Server : ingress[s][c].buffered[f] = << >>
    BY <1>2 DEF NewClient
  <2> QED BY <1>3, <1>4, <2>1 DEF IngressOK
<1>7. EchoesAccepted
  BY <1>2, <1>3, LeaderServes DEF EchoesAccepted
<1>8. Ordered
  BY <1>2, <1>3 DEF Ordered, InOrder
<1>9. FastAccepted
  BY <1>2, <1>3 DEF FastAccepted
<1>10. ExecutedInLog
  BY <1>2, <1>5 DEF ExecutedInLog
<1>11. \A s \in Server, c \in Client : ResponsesOK(s, c)
  BY <1>2, <1>3 DEF ResponsesOK
<1>12. \A c \in Client : WaitingOK(c) /\ AnswersOK(c)
  BY <1>2, <1>3, <1>4 DEF WaitingOK, AnswersOK
<1>13. CreditsOK
  <2> SUFFICES ASSUME NEW s \in Server, NEW t \in Server
               PROVE  /\ outstanding[s][t] = Len(echo_link[s][t]) + SumOf(ack_link[t][s])
                      /\ outstanding[s][t] <= ServerWindow
                      /\ \A i \in 1..Len(ack_link[t][s]) : ack_link[t][s][i] >= 1
    BY DEF CreditsOK, CreditsBalance
  <2>1. outstanding[s][t] = 0 /\ Len(echo_link[s][t]) = 0
    BY <1>2, <1>5
  <2>2. SumOf(ack_link[t][s]) = 0
    <3>1. ack_link[t][s] = << >>
      BY <1>2
    <3> QED BY <3>1, SumOfNone
  <2>3. \A i \in 1..Len(ack_link[t][s]) : ack_link[t][s][i] >= 1
    BY <1>2, <1>3
  <2>4. 0 <= ServerWindow
    BY DEF Assumption
  <2> QED BY <2>1, <2>2, <2>3, <2>4
<1> QED BY <1>1, <1>6, <1>7, <1>8, <1>9, <1>10, <1>11, <1>12, <1>13
      DEF Inv, ServerInv, ClientInv

LEMMA ClientStep ==
  ASSUME Assumption, Inv, NEW c \in Client,
         Post(c) \/ Sign(c) \/ PollAnswer(c) \/ PollProposable(c)
  PROVE  Inv'
<1>1. CASE Post(c)
  BY <1>1, PostKeeps
<1>2. CASE Sign(c)
  BY <1>2, SignKeeps
<1>3. CASE PollAnswer(c)
  BY <1>3, PollAnswerKeeps
<1>4. CASE PollProposable(c)
  BY <1>4, PollProposableKeeps
<1> QED BY <1>1, <1>2, <1>3, <1>4

LEMMA RequestStep ==
  ASSUME Assumption, Inv, NEW s \in Server, NEW c \in Client,
         \/ PollResponse(c, s) \/ PollReceived(s, c)
         \/ PollClientRequest(s, c) \/ PollClientSignedRequest(s, c)
         \/ Verify(s, c) \/ PollVerifiedSignature(s, c)
         \/ echoToLeader(s, c) \/ echoToFollower(s, c)
  PROVE  Inv'
<1>1. CASE PollResponse(c, s)
  BY <1>1, PollResponseKeeps
<1>2. CASE PollReceived(s, c)
  BY <1>2, PollReceivedKeeps
<1>3. CASE PollClientRequest(s, c)
  BY <1>3, PollClientRequestKeeps
<1>4. CASE PollClientSignedRequest(s, c)
  BY <1>4, PollClientSignedRequestKeeps
<1>5. CASE Verify(s, c)
  BY <1>5, VerifyKeeps
<1>6. CASE PollVerifiedSignature(s, c)
  BY <1>6, PollVerifiedSignatureKeeps
<1>7. CASE echoToLeader(s, c)
  BY <1>7, LeaderServes, RelayKeeps DEF echoToLeader
<1>8. CASE echoToFollower(s, c)
  BY <1>8, LeaderServes, RelayKeeps DEF echoToFollower, Follower
<1> QED BY <1>1, <1>2, <1>3, <1>4, <1>5, <1>6, <1>7, <1>8

LEMMA NextKeeps == Assumption /\ Inv /\ [Next]_vars => Inv'
<1> SUFFICES ASSUME Assumption, Inv, [Next]_vars PROVE Inv'
  OBVIOUS
<1>1. ASSUME NEW c \in Client,
             Post(c) \/ Sign(c) \/ PollAnswer(c) \/ PollProposable(c)
      PROVE  Inv'
  BY <1>1, ClientStep
<1>2. ASSUME NEW s \in Server, NEW c \in Client,
             \/ PollResponse(c, s) \/ PollReceived(s, c)
             \/ PollClientRequest(s, c) \/ PollClientSignedRequest(s, c)
             \/ Verify(s, c) \/ PollVerifiedSignature(s, c)
             \/ echoToLeader(s, c) \/ echoToFollower(s, c)
      PROVE  Inv'
  BY <1>2, RequestStep
<1>3. ASSUME NEW s \in Server, NEW t \in Server, PollAck(s, t) PROVE Inv'
  BY <1>3, PollAckKeeps
<1>4. ASSUME NEW s \in Server,
             Execute(s) \/ pollFollowerEchoes(s) \/ pollLeaderSignedEchoes(s)
      PROVE  Inv'
  <2>1. CASE Execute(s)
    BY <2>1, ExecuteKeeps
  <2>2. CASE pollFollowerEchoes(s)
    BY <2>2, PollFollowerEchoesKeeps
  <2>3. CASE pollLeaderSignedEchoes(s)
    BY <2>3, PollLeaderSignedEchoesKeeps
  <2> QED BY <1>4, <2>1, <2>2, <2>3
<1>5. CASE UNCHANGED vars
  <2>1. TypeOK'
    BY <1>5 DEF Inv, TypeOK, ClientTypes, LinkTypes, ServerTypes, vars, client_vars,
                link_vars, verify_vars, smr_vars
  <2>2. ServerInv'
    BY <1>5, ServerSame DEF Inv, vars, link_vars, smr_vars
  <2>3. ClientInv'
    BY <1>5, ClientSame DEF Inv, vars, client_vars, smr_vars
  <2>4. CreditsOK'
    BY <1>5, CreditsSame DEF Inv, vars
  <2> QED BY <2>1, <2>2, <2>3, <2>4 DEF Inv
<1> QED BY <1>1, <1>2, <1>3, <1>4, <1>5 DEF Next

LEMMA InvHolds == Assumption => (Spec => []Inv)
<1> SUFFICES ASSUME Assumption PROVE Spec => []Inv
  OBVIOUS
<1>1. Init => Inv
  BY InitKeeps
<1>2. Inv /\ [Next]_vars => Inv'
  BY NextKeeps
<1> QED BY <1>1, <1>2, PTL DEF Spec

(* What a server counts as outstanding towards another is exactly what is on *)
(* the link and what is acknowledged on the way back, and never more than    *)
(* the window, so neither link overwrites a message.                         *)
THEOREM CreditsAreExact == Assumption => (Spec => []CreditsBalance)
<1> SUFFICES ASSUME Assumption PROVE Spec => []CreditsBalance
  OBVIOUS
<1>1. Inv => CreditsBalance
  BY DEF Inv, CreditsOK
<1> QED BY <1>1, InvHolds, PTL

(* Whatever the order in which requests, echoes and verified signatures come *)
(* in, a server accepts, and the leader proposes, the requests of a client   *)
(* in increasing order and none twice.                                       *)
THEOREM RequestsAreOrdered == Assumption => (Spec => []OrderedOnce)
<1> SUFFICES ASSUME Assumption PROVE Spec => []OrderedOnce
  OBVIOUS
<1>1. ASSUME Inv PROVE OrderedOnce
  <2> SUFFICES ASSUME NEW q \in {log} \cup {accepted[s] : s \in Server},
                      NEW i \in DOMAIN q, NEW j \in DOMAIN q,
                      i < j /\ q[i].client = q[j].client
               PROVE  q[i].id < q[j].id
    BY DEF OrderedOnce
  <2>1. q \in Seq(Request) /\ \A c \in Client : \E n : InOrder(q, c, n)
    BY <1>1 DEF Inv, TypeOK, ServerTypes, ServerInv, Ordered
  <2>2. i \in 1..Len(q) /\ j \in 1..Len(q) /\ q[i] \in Request
    BY <2>1
  <2>3. q[i].client \in Client
    BY <2>2 DEF Request
  <2>4. PICK n : InOrder(q, q[i].client, n)
    BY <2>1, <2>3
  <2> QED BY <2>2, <2>4 DEF InOrder
<1> QED BY <1>1, InvHolds, PTL

(* On the fast path the leader proposes only what every server received from *)
(* the client itself and accepted, wherever the echoes were buffered.        *)
THEOREM FastProposalsAreAccepted == Assumption => (Spec => []ProposedIsAcceptedByAll)
<1> SUFFICES ASSUME Assumption PROVE Spec => []ProposedIsAcceptedByAll
  OBVIOUS
<1>1. ASSUME Inv PROVE ProposedIsAcceptedByAll
  <2> SUFFICES ASSUME path = "fast", NEW i \in DOMAIN log, NEW s \in Server
               PROVE  \E j \in DOMAIN accepted[s] : accepted[s][j] = log[i]
    BY DEF ProposedIsAcceptedByAll
  <2>1. i \in 1..Len(log) /\ accepted[s] \in Seq(Request)
    BY <1>1 DEF Inv, TypeOK, ServerTypes
  <2>2. Among(accepted[s], log[i])
    BY <1>1, <2>1 DEF Inv, ServerInv, FastAccepted
  <2> QED BY <2>1, <2>2 DEF Among
<1> QED BY <1>1, InvHolds, PTL

(* A client gets the answers of its requests in increasing order, each the   *)
(* result of that request, executed by a majority.                           *)
THEOREM ResultsAreAnswered == Assumption => (Spec => []AnswersAreResults)
<1> SUFFICES ASSUME Assumption PROVE Spec => []AnswersAreResults
  OBVIOUS
<1>1. ASSUME Inv PROVE AnswersAreResults
  <2> SUFFICES ASSUME NEW c \in Client, NEW i \in DOMAIN answers[c]
               PROVE  LET a == answers[c][i] IN
                      /\ log[a.result].client = c /\ log[a.result].id = a.id
                      /\ Cardinality({s \in Server : executed[s] >= a.result}) >= Quorum
                      /\ \A j \in DOMAIN answers[c] : i < j => a.id < answers[c][j].id
    BY DEF AnswersAreResults
  <2>1. answers[c] \in Seq(Result)
    BY <1>1 DEF Inv, TypeOK, ClientTypes
  <2>2. i \in 1..Len(answers[c]) /\ DOMAIN answers[c] = 1..Len(answers[c])
    BY <2>1
  <2>3. /\ Place(c, answers[c][i].id, answers[c][i].result)
        /\ Cardinality({s \in Server : executed[s] >= answers[c][i].result}) >= Quorum
        /\ \A j \in 1..Len(answers[c]) : i < j => answers[c][i].id < answers[c][j].id
    BY <1>1, <2>2 DEF Inv, ClientInv, AnswersOK
  <2> QED BY <2>2, <2>3 DEF Place
<1> QED BY <1>1, InvHolds, PTL
=============================================================================
