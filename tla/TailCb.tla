--------------------------------- MODULE TailCb -------------------------------
(***************************************************************************)
(* Consistent tail broadcast (src/ubft/src/tail-cb): one Broadcaster and   *)
(* its Receivers.  A receiver delivers a message when every other receiver *)
(* echoed it (fast path), or when it wrote the broadcaster's signature to  *)
(* its register and found no other signature in anyone's (slow path).      *)
(*                                                                         *)
(* Links are those of TailLink: increasing, and skipping only what is at   *)
(* least TailSize sends old.  Registers are those of RegularRegister: a    *)
(* read returns an incarnation that is not older than the last write that  *)
(* had completed when it started.  A signature is the value it signs.      *)
(* One process may be faulty, the broadcaster or a receiver: its links     *)
(* and registers are memory it may fill with anything: of the signatures   *)
(* of a correct broadcaster it has those that were sent to it, and may     *)
(* replay them.  The slow path is on; its steps may be arbitrarily late.   *)
(***************************************************************************)
EXTENDS Integers, FiniteSets, Sequences, FiniteSetsExt, SequencesExt

CONSTANTS
  Receiver,   \* the receivers of this broadcaster
  Broadcaster,\* not one of them
  Payload,
  TailSize,
  Garbage,    \* what a faulty receiver echoes or writes instead of a payload
  MaxIndex,   \* bound: indices broadcast are 0..MaxIndex - 1
  MaxMessages, MaxSignatures, MaxEchoes
              \* bounds: what is polled on each link from a faulty process

VARIABLES
  faulty,        \* the faulty process, or None
  next_index,    \* of the broadcaster
  to_sign,       \* indices whose signature is still being computed
  messages, signatures, echoes,   \* links: what was sent, what was consumed
  msg_tail,      \* receiver -> the messages it keeps, by index
  latest_polled, \* receiver -> one more than the last index delivered
  buffered_echoes,
  verifying,     \* receiver -> signature checks in the thread pool
  registers,     \* receiver, slot -> incarnations written, and completed
  outstanding_writes, outstanding_reads,
  dead,          \* receivers that threw, by the cause
  discarded,     \* history: indices of the signatures a receiver discarded
  delivered      \* history: index -> value, by receiver

links == <<messages, signatures, echoes>>
slow == <<verifying, registers, outstanding_writes, outstanding_reads>>
vars == <<faulty, next_index, to_sign, links, msg_tail, latest_polled,
          buffered_echoes, slow, dead, discarded, delivered>>

None == "none"
Replayed == "replayed"  \* a message of the broadcaster with its signature, as
                        \* a faulty receiver writes it under another index
Idle == -1
Index == 0..(MaxIndex - 1)
RegisterIndex == 0..(TailSize - 1)
Others(r) == Receiver \ {r}
Correct == Receiver \ {faulty}

\* tail_cb::Message and SignatureMessage; a signature is the value it signs.
Message(i, v) == [index |-> i, value |-> v]
SignatureMessage(i, v) == [index |-> i, value |-> v]

EmptyLink == [sent |-> << >>, seen |-> 0]
Empty == [i \in {} |-> None]   \* a map without entries

Init ==
  /\ faulty \in {None, Broadcaster} \cup Receiver
  /\ next_index = 0 /\ to_sign = {}
  /\ messages = [r \in Receiver |-> EmptyLink]
  /\ signatures = [r \in Receiver |-> EmptyLink]
  /\ echoes = [r \in Receiver |-> [q \in Others(r) |-> EmptyLink]]
  /\ msg_tail = [r \in Receiver |-> Empty]
  /\ latest_polled = [r \in Receiver |-> 0]
  /\ buffered_echoes = [r \in Receiver |-> [q \in Others(r) |-> << >>]]
  /\ verifying = [r \in Receiver |-> {}]
  /\ registers = [r \in Receiver |-> [s \in RegisterIndex |->
                    [log |-> <<[inc |-> 0, value |-> None]>>, done |-> 1]]]
  /\ outstanding_writes = [r \in Receiver |-> [s \in RegisterIndex |-> Idle]]
  /\ outstanding_reads = [r \in Receiver |-> Empty]
  /\ dead = [r \in Receiver |-> None]
  /\ discarded = [r \in Receiver |-> {}]
  /\ delivered = [r \in Receiver |-> [i \in Index |-> None]]

(* tail_p2p: send() on a link, and what poll() may return next, with its    *)
(* position.  The link of a faulty process yields anything.                 *)
SendOn(l, m) == [l EXCEPT !.sent = Append(@, m)]
Readable(l) ==
  {p \in (l.seen + 1)..Len(l.sent) :
     \A skipped \in (l.seen + 1)..(p - 1) : skipped + TailSize <= Len(l.sent)}
Arriving(l, from, values, bound) ==
  IF from = faulty
  THEN {[at |-> l.seen + 1, msg |-> m] :
          m \in {x \in [index : Index, value : values] : l.seen < bound}}
  ELSE {[at |-> p, msg |-> l.sent[p]] : p \in Readable(l)}

-----------------------------------------------------------------------------
(* A correct broadcaster sends the same value to everyone.                  *)

Broadcast ==
  /\ faulty # Broadcaster /\ next_index < MaxIndex
  /\ \E v \in Payload :
       messages' = [r \in Receiver |->
                     SendOn(messages[r], Message(next_index, v))]
  /\ next_index' = next_index + 1
  /\ to_sign' = to_sign \cup {next_index}
  /\ UNCHANGED <<faulty, signatures, echoes, msg_tail, latest_polled,
                 buffered_echoes, slow, dead, discarded, delivered>>

\* The value a correct broadcaster sent under an index.
SentValue(i) ==
  LET r == CHOOSE r \in Receiver : TRUE
  IN  messages[r].sent[i + 1].value

(* A worker finishes a signature, in any order, and pollSignatures sends it *)
(* if its message is still in the tail.                                     *)
Sign(i) ==
  /\ i \in to_sign
  /\ to_sign' = to_sign \ {i}
  /\ signatures' = IF next_index - i > TailSize THEN signatures
       ELSE [r \in Receiver |->
              SendOn(signatures[r], SignatureMessage(i, SentValue(i)))]
  /\ UNCHANGED <<faulty, next_index, messages, echoes, msg_tail, latest_polled,
                 buffered_echoes, slow, dead, discarded, delivered>>

-----------------------------------------------------------------------------
(* A receiver's map of messages.                                            *)

Kept(r) == DOMAIN msg_tail[r]
Put(map, i, d) == [j \in DOMAIN map \cup {i} |-> IF j = i THEN d ELSE map[j]]
Drop(map, i) == [j \in DOMAIN map \ {i} |-> map[j]]
NewData(v) == [value |-> v, echoes |-> {}, match |-> TRUE, signature |-> None,
               checked |-> 0]

\* MessageData::echoed
echoed(d, q, v) == [d EXCEPT !.echoes = @ \cup {q}, !.match = @ /\ v = d.value]

Running(r) == r \in Correct /\ dead[r] = None
Throw(r, cause) == dead' = [dead EXCEPT ![r] = cause]

-----------------------------------------------------------------------------
(* pollBroadcasterMessage, handleMessage                                    *)

Repeated_Mutant(r, i) == i \in Kept(r) \/ latest_polled[r] >= i
\* The same index again, delivered or not; the broadcaster must be faulty.
Repeated(r, i) == i \in Kept(r) \/ latest_polled[r] > i
\* An index that was skipped comes too late.
OutOfOrder(r, i) == \E k \in Kept(r) : k >= i

\* Echoes that arrived before their message, once message i is there: those
\* at the front of the buffer that are older are dropped.
Pending(buffer, i) ==
  LET later == {k \in 1..Len(buffer) : buffer[k].index >= i}
  IN  IF later = {} THEN << >> ELSE SubSeq(buffer, Min(later), Len(buffer))
Replays(buffer, i) == Pending(buffer, i) # << >> /\ Head(Pending(buffer, i)).index = i

Accept(r, m) ==
  LET early == {q \in Others(r) : Replays(buffered_echoes[r][q], m.index)}
      data == [NewData(m.value) EXCEPT
                 !.echoes = early,
                 !.match = \A q \in early :
                   Head(Pending(buffered_echoes[r][q], m.index)).value = m.value]
      all == Put(msg_tail[r], m.index, data)
  IN  /\ msg_tail' = [msg_tail EXCEPT ![r] =
           IF Cardinality(DOMAIN all) > TailSize THEN Drop(all, Min(DOMAIN all))
           ELSE all]
      /\ buffered_echoes' = [buffered_echoes EXCEPT ![r] =
           [q \in Others(r) |-> LET b == Pending(buffered_echoes[r][q], m.index)
                                IN  IF q \in early THEN Tail(b) ELSE b]]
      /\ echoes' = [o \in Receiver |-> IF o = r THEN echoes[o]
                     ELSE [echoes[o] EXCEPT ![r] = SendOn(@, m)]]

PollMessage(r) ==
  /\ Running(r)
  /\ \E a \in Arriving(messages[r], Broadcaster, Payload, MaxMessages) :
       LET m == a.msg IN
       /\ messages' = [messages EXCEPT ![r].seen = a.at]
       /\ \/ /\ Repeated(r, m.index)
             /\ Throw(r, "broadcaster")
             /\ UNCHANGED <<msg_tail, buffered_echoes, echoes>>
          \/ /\ ~Repeated(r, m.index) /\ OutOfOrder(r, m.index)
             /\ UNCHANGED <<msg_tail, buffered_echoes, echoes, dead>>
          \/ /\ ~Repeated(r, m.index) /\ ~OutOfOrder(r, m.index)
             /\ Accept(r, m)
             /\ UNCHANGED dead
  /\ UNCHANGED <<faulty, next_index, to_sign, signatures, latest_polled, slow,
                 discarded, delivered>>

-----------------------------------------------------------------------------
(* pollEchoes, handleEcho                                                   *)

Useless(r, i) == latest_polled[r] > i + 1 \/ \A k \in Kept(r) : k > i

handleEcho(r, q, e) ==
  LET buffer == buffered_echoes[r][q]
      longer == Append(buffer, e)
  IN
  \/ /\ Useless(r, e.index)
     /\ UNCHANGED <<msg_tail, buffered_echoes, dead>>
  \/ /\ ~Useless(r, e.index) /\ e.index \in Kept(r)
     /\ IF q \in msg_tail[r][e.index].echoes THEN Throw(r, "receiver")
        ELSE UNCHANGED dead
     /\ msg_tail' = [msg_tail EXCEPT ![r][e.index] = echoed(@, q, e.value)]
     /\ UNCHANGED buffered_echoes
  \/ /\ ~Useless(r, e.index) /\ e.index \notin Kept(r)
     /\ IF buffer # << >> /\ Last(buffer).index > e.index
        THEN Throw(r, "receiver") /\ UNCHANGED buffered_echoes
        ELSE /\ buffered_echoes' = [buffered_echoes EXCEPT ![r][q] =
                  IF Len(longer) > TailSize THEN Tail(longer) ELSE longer]
             /\ UNCHANGED dead
     /\ UNCHANGED msg_tail

PollEcho(r, q) ==
  /\ Running(r) /\ Kept(r) # {}
  /\ \E a \in Arriving(echoes[r][q], q, Payload \cup {Garbage}, MaxEchoes) :
       /\ echoes' = [echoes EXCEPT ![r][q].seen = a.at]
       /\ handleEcho(r, q, a.msg)
  /\ UNCHANGED <<faulty, next_index, to_sign, messages, signatures,
                 latest_polled, slow, discarded, delivered>>

-----------------------------------------------------------------------------
(* The slow path: pollBroadcasterSignature, pollSignatureVerifications,     *)
(* pollWriteCompletions, pollReadCompletions.                               *)

handleSignature(r, s) ==
  \/ /\ s.index \notin Kept(r)
     /\ discarded' = [discarded EXCEPT ![r] = @ \cup {s.index}]
     /\ UNCHANGED <<msg_tail, verifying, dead>>
  \/ /\ s.index \in Kept(r) /\ msg_tail[r][s.index].signature # None
     /\ Throw(r, "broadcaster")
     /\ UNCHANGED <<msg_tail, verifying, discarded>>
  \/ /\ s.index \in Kept(r) /\ msg_tail[r][s.index].signature = None
     /\ msg_tail' = [msg_tail EXCEPT ![r][s.index].signature = s.value]
     /\ verifying' = [verifying EXCEPT ![r] = @ \cup
          {[index |-> s.index, origin |-> "broadcaster",
            ok |-> s.value = msg_tail[r][s.index].value]}]
     /\ UNCHANGED <<dead, discarded>>

PollSignature(r) ==
  /\ Running(r) /\ Kept(r) # {}
  /\ \E a \in Arriving(signatures[r], Broadcaster, Payload \cup {Garbage},
                       MaxSignatures) :
       /\ signatures' = [signatures EXCEPT ![r].seen = a.at]
       /\ handleSignature(r, a.msg)
  /\ UNCHANGED <<faulty, next_index, to_sign, messages, echoes, latest_polled,
                 buffered_echoes, registers, outstanding_writes,
                 outstanding_reads, delivered>>

Incarnation(i) == i \div TailSize + 1

\* The verified signature goes to our register, if the register is free.
WriteRegister(r, i) ==
  LET s == i % TailSize
      reg == registers[r][s]
      free == outstanding_writes[r][s] = Idle /\ Incarnation(i) > Last(reg.log).inc
  IN  /\ IF free THEN UNCHANGED dead ELSE Throw(r, "recycled")
      /\ registers' = IF ~free THEN registers ELSE [registers EXCEPT ![r][s].log =
           Append(@, [inc |-> Incarnation(i), value |-> msg_tail[r][i].signature])]
      /\ outstanding_writes' = IF ~free THEN outstanding_writes
                               ELSE [outstanding_writes EXCEPT ![r][s] = i]

\* A worker finished a check, in any order.
PollVerification(r) ==
  /\ Running(r) /\ Kept(r) # {}
  /\ \E t \in verifying[r] :
       /\ verifying' = [verifying EXCEPT ![r] = @ \ {t}]
       /\ \/ /\ t.index \notin Kept(r)
             /\ UNCHANGED <<msg_tail, registers, outstanding_writes, dead>>
          \/ /\ t.index \in Kept(r) /\ t.origin = "broadcaster" /\ t.ok
             /\ WriteRegister(r, t.index)
             /\ UNCHANGED msg_tail
          \/ /\ t.index \in Kept(r) /\ t.ok = (t.origin = "register")
             /\ Throw(r, IF t.ok THEN "equivocation" ELSE "broadcaster")
             /\ UNCHANGED <<msg_tail, registers, outstanding_writes>>
          \/ /\ t.index \in Kept(r) /\ t.origin = "register" /\ ~t.ok
             /\ msg_tail' = [msg_tail EXCEPT ![r][t.index].checked = @ + 1]
             /\ UNCHANGED <<registers, outstanding_writes, dead>>
  /\ UNCHANGED <<faulty, next_index, to_sign, links, latest_polled,
                 buffered_echoes, outstanding_reads, discarded, delivered>>

\* A write completed: read everyone else's register.
PollWrite(r, s) ==
  /\ Running(r) /\ Kept(r) # {}
  /\ outstanding_writes[r][s] # Idle
  /\ LET i == outstanding_writes[r][s]
         floors == [q \in Others(r) |-> registers[q][s].done]
     IN  outstanding_reads' = IF i \notin Kept(r) THEN outstanding_reads
           ELSE [outstanding_reads EXCEPT ![r] = Put(@, i, floors)]
  /\ registers' = [registers EXCEPT ![r][s].done = Len(registers[r][s].log)]
  /\ outstanding_writes' = [outstanding_writes EXCEPT ![r][s] = Idle]
  /\ UNCHANGED <<faulty, next_index, to_sign, links, msg_tail, latest_polled,
                 buffered_echoes, verifying, dead, discarded, delivered>>

(* One pass over the reads of message i, D of which return entries k.  The   *)
(* handles are reset in a copy: reads that complete in different passes     *)
(* leave the entry behind for ever (0 marks them).  A faulty receiver shows *)
(* what is not signed, or what the broadcaster signed for another index:    *)
(* registers hold a hash and its signature, which are verified together.    *)
(* The signature of i itself is as good as an old incarnation.              *)
Results(q, i, floor) ==
  LET log == registers[q][i % TailSize].log
      signed == signatures[q].sent
      others == {k \in 1..Len(signed) : signed[k].index # i}
  IN  IF q = faulty
      THEN [inc : {0, Incarnation(i), Incarnation(i) + 1},
            value : IF others = {} THEN {Garbage} ELSE {Garbage, Replayed}]
      ELSE {log[k] : k \in floor..Len(log)}
Safe(r, i, x) == x.inc < Incarnation(i) \/ x.value = msg_tail[r][i].signature

PollReads(r, i) ==
  /\ Running(r) /\ Kept(r) # {}
  /\ i \in DOMAIN outstanding_reads[r]
  /\ LET floors == outstanding_reads[r][i]
         waiting == {q \in Others(r) : floors[q] # 0}
     IN  \E D \in (SUBSET waiting) \ {{}} :
         \E x \in [D -> UNION {Results(q, i, floors[q]) : q \in D}] :
           /\ \A q \in D : x[q] \in Results(q, i, floors[q])
           /\ LET safe == {q \in D : i \in Kept(r) /\ Safe(r, i, x[q])}
                  unsafe == IF i \in Kept(r) THEN D \ safe ELSE {}
              IN  /\ IF \E q \in D : x[q].inc > Incarnation(i)
                     THEN Throw(r, "recycled") ELSE UNCHANGED dead
                  /\ msg_tail' = IF safe = {} THEN msg_tail ELSE
                       [msg_tail EXCEPT ![r][i].checked = @ + Cardinality(safe)]
                  /\ verifying' = [verifying EXCEPT ![r] = @ \cup
                       {[index |-> i, origin |-> "register",
                         ok |-> x[q].value # Garbage] : q \in unsafe}]
           /\ outstanding_reads' = [outstanding_reads EXCEPT ![r] =
                IF D = Others(r) THEN Drop(@, i)
                ELSE [@ EXCEPT ![i] = [q \in Others(r) |-> IF q \in D THEN 0
                                                           ELSE floors[q]]]]
  /\ UNCHANGED <<faulty, next_index, to_sign, links, latest_polled,
                 buffered_echoes, registers, outstanding_writes, discarded, delivered>>

-----------------------------------------------------------------------------
(* poll: only the oldest message, by either path.                           *)

pollable_Mutant(d, r) ==
  d.echoes = Others(r) \/ d.checked = Cardinality(Others(r))
pollable(d, r) ==
  \/ d.echoes = Others(r) /\ d.match
  \/ d.checked = Cardinality(Others(r))

Poll(r) ==
  /\ Running(r) /\ Kept(r) # {}
  /\ LET i == Min(Kept(r)) IN
     /\ pollable(msg_tail[r][i], r)
     /\ latest_polled' = [latest_polled EXCEPT ![r] = i + 1]
     /\ delivered' = [delivered EXCEPT ![r][i] = msg_tail[r][i].value]
     /\ msg_tail' = [msg_tail EXCEPT ![r] = Drop(@, i)]
  /\ UNCHANGED <<faulty, next_index, to_sign, links, buffered_echoes, slow,
                 dead, discarded>>

Next ==
  \/ Broadcast
  \/ \E i \in Index : Sign(i)
  \/ \E r \in Receiver :
       \/ PollMessage(r) \/ PollSignature(r) \/ PollVerification(r) \/ Poll(r)
       \/ \E q \in Others(r) : PollEcho(r, q)
       \/ \E s \in RegisterIndex : PollWrite(r, s)
       \/ \E i \in Index : PollReads(r, i)

Spec == Init /\ [][Next]_vars

-----------------------------------------------------------------------------
(* Correct receivers implement consistent broadcast, whoever is faulty: no  *)
(* two of them poll different values under one index, by whichever path.    *)
Delivered(i) == {delivered[r][i] : r \in Correct} \ {None}

Cb == INSTANCE ConsistentBroadcast WITH
  chosen <- [i \in Index |-> Delivered(i)],
  last <- latest_polled

ImplementsBroadcast == Cb!Spec

(* A receiver blames the broadcaster for repeated or badly signed messages, *)
(* or another receiver for its echoes, only if that process is faulty, and  *)
(* finds an equivocation only if someone is (the throws of receiver.hpp).   *)
AlarmsAreReal ==
  \A r \in Correct : /\ dead[r] = "broadcaster" => faulty = Broadcaster
                     /\ dead[r] = "receiver" => faulty \in Receiver
                     /\ dead[r] = "equivocation" => faulty # None

(* "In this case, a valid signature implies an equivocation."               *)
(* (receiver.hpp:423): whoever finds one is right to blame the broadcaster. *)
EquivocationIsReal ==
  \A r \in Correct : dead[r] = "equivocation" => faulty = Broadcaster

(* "If the associated message is not in the tail anymore, the signature is  *)
(* useless" (receiver.hpp:341): a signature is discarded only if its        *)
(* message has left the tail, never while it is still to come.              *)
DiscardedAreUseless ==
  \A r \in Receiver : Kept(r) \cap discarded[r] = {}
===============================================================================
