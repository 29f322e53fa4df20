------------------------- MODULE ReplicatedSwmrProofs -------------------------
(***************************************************************************)
(* The registers, of one host and replicated on several.                   *)
(*                                                                         *)
(* For an odd number of hosts, the replicated register is a regular        *)
(* register: every step of ReplicatedSwmr is one of RegularRegister or     *)
(* leaves its variables alone.                                             *)
(*                                                                         *)
(* A read is not compared with the hosts when it starts but, host by host, *)
(* when the host answers, and the hosts that have the last completed write *)
(* change meanwhile.  The invariant keeps for every pending read a set of  *)
(* hosts, half of them rounded up, whose answer, given or to come, cannot  *)
(* be older than the floor of the read.                                    *)
(*                                                                         *)
(* The register of one host (Swmr), for any cooldown, depth of the queue   *)
(* pairs, number of registers and of read buffers: a correct writer is     *)
(* never declared Byzantine, and a quick read misses no completed write.   *)
(* A read fetches the two subslots one after the other.  If the first does *)
(* not show the last write, then the second held it, and holds it until    *)
(* the cooldown after the write to the first is over (FetchSound): either  *)
(* the second fetch shows it, or the read lasted longer than the cooldown. *)
(***************************************************************************)
EXTENDS ReplicatedSwmr, FiniteSetTheorems, SequenceTheorems,
        WellFoundedInduction, TLAPS

CONSTANTS Register, Handle, WriteCooldown, WrDepth, MaxTime
VARIABLES now, registers, queued_writes, posted_writes, mem, buffer_pool,
          queued_reads, outstanding_reads, completed_reads, alarm, floor, slow
Sw == INSTANCE Swmr

(* Hosts are replicas of a system with 2f + 1 of them. *)
OddHosts == /\ IsFiniteSet(Host)
            /\ \E f \in Nat : Cardinality(Host) = 2 * f + 1
            /\ MaxJob \in Nat /\ MaxIncarnation \in Nat

-----------------------------------------------------------------------------
(* Where a read of one host is, and what a read's handle stands for. *)
Places == {"none", "queued", "posted", "answered", "completed", "released", "releasable"}
States == {"idle", "pending", "done"}

TypeOK ==
  /\ incarnation \in Nat /\ outstanding_write \in BOOLEAN
  /\ finished \in Nat /\ written \in SUBSET Nat
  /\ host \in [Host -> [content : Nat, to_write : Nat \cup {None},
                        scheduled : Nat \cup {None}, applied : BOOLEAN]]
  /\ job \in [Host -> [Job -> [at : Places, inc : Int]]]
  /\ next_handle \in Nat
  /\ result \in [Job -> [state : States, inc : Nat]]

(* One write at a time, with increasing incarnations. *)
WritesOrdered ==
  /\ incarnation \in written /\ finished \in written
  /\ \A w \in written : w <= incarnation
  /\ ~outstanding_write => finished = incarnation

(* A sub-writer ends up with the last write, whatever it skips. *)
Catching(w, W, last) ==
  /\ w.content \in W
  /\ w.scheduled # None => w.scheduled \in W /\ w.content <= w.scheduled
  /\ w.applied => w.content = w.scheduled
  /\ IF w.to_write # None THEN w.to_write = last
     ELSE IF w.scheduled # None THEN w.scheduled = last
     ELSE w.content = last
Catch == \A h \in Host : Catching(host[h], written, incarnation)

(* The completed write is on enough hosts. *)
Having(n) == {h \in Host : host[h].content >= n}
FinishedHeld == Cardinality(Having(finished)) >= Majority

Answered(r) == r.at \in {"answered", "completed"}
AnswersWritten ==
  \A h \in Host, j \in Job : Answered(job[h][j]) => job[h][j].inc \in written

(* The hosts whose answer to read j is not older than its floor. *)
Covering(j) ==
  {h \in Host : /\ host[h].content >= result[j].inc
                /\ Answered(job[h][j]) => job[h][j].inc >= result[j].inc}

ReadsCovered ==
  \A j \in Job : /\ result[j].state = "pending" => Cardinality(Covering(j)) >= Majority
                 /\ j >= next_handle => /\ result[j].state = "idle"
                                        /\ \A h \in Host : job[h][j].at = "none"

Inv == TypeOK /\ WritesOrdered /\ Catch /\ FinishedHeld /\ AnswersWritten /\ ReadsCovered

-----------------------------------------------------------------------------
LEMMA MajorityFacts ==
  ASSUME OddHosts
  PROVE  /\ Cardinality(Host) \in Nat /\ Majority \in Nat
         /\ Majority > 0 /\ Majority <= Cardinality(Host)
         /\ Cardinality(Host) < 2 * Majority
<1>1. PICK f \in Nat : Cardinality(Host) = 2 * f + 1
  BY DEF OddHosts
<1>2. Majority = f + 1
  BY <1>1 DEF Majority
<1> QED BY <1>1, <1>2

(* A larger set of hosts still holds enough. *)
LEMMA MajorityGrows ==
  ASSUME OddHosts, NEW S \in SUBSET Host, NEW T \in SUBSET Host, S \subseteq T,
         Cardinality(S) >= Majority
  PROVE  Cardinality(T) >= Majority
<1>1. IsFiniteSet(S) /\ IsFiniteSet(T)
  BY FS_Subset DEF OddHosts
<1>2. Cardinality(S) <= Cardinality(T)
  BY <1>1, FS_Subset
<1>3. Cardinality(S) \in Nat /\ Cardinality(T) \in Nat /\ Majority \in Nat
  BY <1>1, FS_CardinalityType, MajorityFacts
<1> QED BY <1>2, <1>3

LEMMA MajoritiesMeet ==
  ASSUME OddHosts, NEW S \in SUBSET Host, NEW T \in SUBSET Host,
         Cardinality(S) >= Majority, Cardinality(T) >= Majority
  PROVE  S \cap T # {}
<1>1. IsFiniteSet(S) /\ IsFiniteSet(T)
  BY FS_Subset DEF OddHosts
<1>2. Cardinality(S) \in Nat /\ Cardinality(T) \in Nat
  BY <1>1, FS_CardinalityType
<1>3. Cardinality(S) + Cardinality(T) > Cardinality(Host)
  BY <1>2, MajorityFacts
<1> QED BY <1>3, FS_MajoritiesIntersect DEF OddHosts

(* A bounded set of naturals has a largest element. *)
LEMMA BoundedMax ==
  ASSUME NEW S \in SUBSET Nat, S # {}, NEW b \in Nat, \A n \in S : n <= b
  PROVE  Max(S) \in S /\ \A m \in S : Max(S) >= m
<1> DEFINE R == {x \in Nat \X Nat : x[1] < x[2]}
           T == {b - n : n \in S}
<1>1. IsWellFoundedOn(R, Nat)
  BY NatLessThanWellFounded DEF OpToRel
<1>2. T \in SUBSET Nat /\ T # {}
  <2>1. \A n \in S : b - n \in Nat
    OBVIOUS
  <2> QED BY <2>1
<1>3. PICK t \in T : \A u \in T : <<u, t>> \notin R
  <2> HIDE DEF R, T
  <2> QED BY <1>1, <1>2, WFMin
<1>4. PICK n \in S : t = b - n
  OBVIOUS
<1>5. ASSUME NEW m \in S PROVE n >= m
  <2>1. b - m \in T
    OBVIOUS
  <2>2. b - m \in Nat /\ t \in Nat /\ m \in Nat /\ n \in Nat
    BY <1>2, <2>1
  <2>3. ~(b - m < t)
    <3>1. <<b - m, t>> \notin R
      BY <1>3, <2>1
    <3> QED BY <2>2, <3>1
  <2> QED BY <1>4, <2>2, <2>3
<1> HIDE DEF R, T
<1>6. \E x \in S : \A y \in S : x >= y
  BY <1>5
<1> QED BY <1>6 DEF Max

-----------------------------------------------------------------------------
LEMMA InitInv == ASSUME OddHosts, Init PROVE Inv
<1>1. TypeOK
  <2>1. /\ incarnation \in Nat /\ finished \in Nat
        /\ written \in SUBSET Nat /\ next_handle \in Nat
    BY DEF Init
  <2>6. outstanding_write \in BOOLEAN
    BY DEF Init
  <2>2. host \in [Host -> [content : Nat, to_write : Nat \cup {None},
                          scheduled : Nat \cup {None}, applied : BOOLEAN]]
    BY DEF Init
  <2>3. None \in Int
    BY DEF None
  <2>4. job \in [Host -> [Job -> [at : Places, inc : Int]]]
    BY <2>3 DEF Init, Places
  <2>5. result \in [Job -> [state : States, inc : Nat]]
    BY DEF Init, States
  <2> QED BY <2>1, <2>2, <2>4, <2>5, <2>6 DEF TypeOK
<1>2. WritesOrdered
  BY DEF Init, WritesOrdered
<1>3. Catch
  BY DEF Init, Catch, Catching, None
<1>4. Having(finished) = Host
  BY DEF Init, Having
<1>5. FinishedHeld
  BY <1>4, MajorityFacts DEF FinishedHeld
<1>6. AnswersWritten /\ ReadsCovered
  BY DEF Init, AnswersWritten, ReadsCovered, Answered
<1> QED BY <1>1, <1>2, <1>3, <1>5, <1>6 DEF Inv

(* What pushToWriter and pushToReader do. *)
LEMMA PushToWriter ==
  ASSUME NEW w \in [content : Nat, to_write : Nat \cup {None},
                    scheduled : Nat \cup {None}, applied : BOOLEAN]
  PROVE  /\ pushToWriter(w) \in [content : Nat, to_write : Nat \cup {None},
                                 scheduled : Nat \cup {None}, applied : BOOLEAN]
         /\ pushToWriter(w).content = w.content
         /\ \/ pushToWriter(w) = w
            \/ /\ w.to_write # None /\ w.scheduled = None
               /\ pushToWriter(w).scheduled = w.to_write
               /\ pushToWriter(w).to_write = None
               /\ ~pushToWriter(w).applied
BY DEF pushToWriter

(* No step but Answer makes a read answered or changes an answer. *)
Calm(old, new) ==
  /\ new.at \in Places /\ new.inc \in Int
  /\ Answered(new) => Answered(old) /\ new.inc = old.inc

LEMMA PushToReader ==
  ASSUME NEW js \in [Job -> [at : Places, inc : Int]]
  PROVE  /\ pushToReader(js) \in [Job -> [at : Places, inc : Int]]
         /\ \A j \in Job : /\ Calm(js[j], pushToReader(js)[j])
                           /\ js[j].at = "none" => pushToReader(js)[j].at = "none"
<1> DEFINE queued == {j \in Job : js[j].at = "queued"}
           go == {j \in queued : Cardinality({k \in queued : k < j}) < Buffers - Held(js)}
<1>1. pushToReader(js) =
        [j \in Job |-> IF j \in go THEN [js[j] EXCEPT !.at = "posted"] ELSE js[j]]
  BY DEF pushToReader
<1>3. \A j \in go : js[j].at = "queued"
  OBVIOUS
<1> HIDE DEF go, queued
<1>2. ASSUME NEW j \in Job
      PROVE  /\ pushToReader(js)[j] \in [at : Places, inc : Int]
             /\ Calm(js[j], pushToReader(js)[j])
             /\ js[j].at = "none" => pushToReader(js)[j].at = "none"
  <2>1. js[j] \in [at : Places, inc : Int]
    OBVIOUS
  <2>2. \/ pushToReader(js)[j] = js[j]
        \/ js[j].at = "queued" /\ pushToReader(js)[j] = [js[j] EXCEPT !.at = "posted"]
    BY <1>1, <1>3
  <2>3. js[j].at \in Places /\ js[j].inc \in Int
    BY <2>1
  <2>4. CASE pushToReader(js)[j] = js[j]
    BY <2>1, <2>3, <2>4 DEF Calm
  <2>5. CASE js[j].at = "queued" /\ pushToReader(js)[j] = [js[j] EXCEPT !.at = "posted"]
    <3>1. /\ pushToReader(js)[j] \in [at : Places, inc : Int]
          /\ pushToReader(js)[j].at = "posted"
      BY <2>1, <2>5 DEF Places
    <3>2. pushToReader(js)[j].inc \in Int
      BY <3>1
    <3> QED BY <2>5, <3>1, <3>2 DEF Calm, Answered
  <2> QED BY <2>2, <2>4, <2>5
<1> QED BY <1>1, <1>2

(* Steps that change neither hosts nor results leave reads calm. *)
LEMMA CalmReads ==
  ASSUME OddHosts, Inv,
         UNCHANGED <<wvars, host>>,
         job' \in [Host -> [Job -> [at : Places, inc : Int]]],
         \A h \in Host, j \in Job :
            /\ Calm(job[h][j], job'[h][j])
            /\ j >= next_handle' /\ job[h][j].at = "none" => job'[h][j].at = "none",
         next_handle' \in Nat, next_handle' >= next_handle,
         result' \in [Job -> [state : States, inc : Nat]],
         \A j \in Job : \/ result'[j] = result[j] /\ j < next_handle
                        \/ result'[j].state # "pending" /\ j < next_handle
                        \/ result'[j] = result[j] /\ j >= next_handle
                        \/ /\ j = next_handle /\ next_handle' > next_handle
                           /\ result'[j].inc = finished
  PROVE  Inv'
<1>1. TypeOK'
  BY DEF Inv, TypeOK, wvars
<1>2. WritesOrdered' /\ Catch' /\ FinishedHeld'
  BY DEF Inv, WritesOrdered, Catch, Catching, FinishedHeld, Having, wvars
<1>3. AnswersWritten'
  BY DEF Inv, AnswersWritten, Calm, wvars
<1>4. ASSUME NEW j \in Job
      PROVE  /\ result'[j].state = "pending" => Cardinality(Covering(j)') >= Majority
             /\ j >= next_handle' => /\ result'[j].state = "idle"
                                     /\ \A h \in Host : job'[h][j].at = "none"
  <2>1. j \in Int /\ next_handle \in Nat /\ next_handle' \in Nat
    BY DEF Inv, TypeOK, Job, OddHosts
  <2>2. ASSUME j >= next_handle'
        PROVE  result'[j].state = "idle" /\ \A h \in Host : job'[h][j].at = "none"
    <3>1. j >= next_handle /\ ~(j = next_handle /\ next_handle' > next_handle) /\ ~(j < next_handle)
      BY <2>1, <2>2
    <3>2. result'[j] = result[j]
      BY <3>1
    <3> QED BY <2>2, <3>1, <3>2 DEF Inv, ReadsCovered
  <2>3. ASSUME result'[j].state = "pending" PROVE Cardinality(Covering(j)') >= Majority
    <3>1. CASE result'[j] = result[j]
      <4>1. Covering(j) \subseteq Covering(j)'
        BY <3>1 DEF Covering, Calm
      <4>2. Cardinality(Covering(j)) >= Majority
        BY <2>3, <3>1 DEF Inv, ReadsCovered
      <4>3. Covering(j) \subseteq Host /\ Covering(j)' \subseteq Host
        BY DEF Covering
      <4> QED BY <4>1, <4>2, <4>3, MajorityGrows
    <3>2. CASE j = next_handle /\ result'[j].inc = finished
      <4>1. \A h \in Host : ~Answered(job[h][j])
        BY <2>1, <3>2 DEF Inv, ReadsCovered, Answered
      <4>2. Having(finished) \subseteq Covering(j)'
        BY <3>2, <4>1 DEF Having, Covering, Calm
      <4>3. Having(finished) \subseteq Host /\ Covering(j)' \subseteq Host
        BY DEF Covering, Having
      <4> QED BY <4>2, <4>3, MajorityGrows DEF Inv, FinishedHeld
    <3> QED BY <2>3, <3>1, <3>2
  <2> QED BY <2>2, <2>3
<1>5. ReadsCovered'
  BY <1>4 DEF ReadsCovered
<1> QED BY <1>1, <1>2, <1>3, <1>5 DEF Inv

(* Steps of the writer change no read, and no content to an older one. *)
LEMMA WriterSteps ==
  ASSUME OddHosts, Inv, UNCHANGED <<job, next_handle, result>>,
         TypeOK', WritesOrdered', Catch',
         written \subseteq written',
         \A h \in Host : host'[h].content >= host[h].content,
         FinishedHeld' \/ finished' = finished
  PROVE  Inv'
<1>1. ASSUME NEW h \in Host, NEW n \in Nat, host[h].content >= n
      PROVE  host'[h].content >= n
  <2>1. host[h].content \in Nat /\ host'[h].content \in Nat
    BY DEF Inv, TypeOK
  <2>2. host'[h].content >= host[h].content
    OBVIOUS
  <2> QED BY <1>1, <2>1, <2>2
<1>2. FinishedHeld'
  <2>1. CASE finished' = finished
    <3>1. finished \in Nat
      BY DEF Inv, TypeOK
    <3>2. Having(finished) \subseteq Having(finished)'
      BY <1>1, <2>1, <3>1 DEF Having
    <3>3. Having(finished) \subseteq Host /\ Having(finished)' \subseteq Host
      BY DEF Having
    <3> QED BY <3>2, <3>3, MajorityGrows DEF Inv, FinishedHeld
  <2> QED BY <2>1
<1>3. AnswersWritten'
  BY DEF Inv, AnswersWritten
<1>4. ASSUME NEW j \in Job, result[j].state = "pending"
      PROVE  Cardinality(Covering(j)') >= Majority
  <2>1. result[j].inc \in Nat
    BY DEF Inv, TypeOK
  <2>2. Covering(j) \subseteq Covering(j)'
    BY <1>1, <2>1 DEF Covering
  <2>3. Covering(j) \subseteq Host /\ Covering(j)' \subseteq Host
    BY DEF Covering
  <2> QED BY <1>4, <2>2, <2>3, MajorityGrows DEF Inv, ReadsCovered
<1>5. ReadsCovered'
  BY <1>4 DEF Inv, ReadsCovered
<1> QED BY <1>2, <1>3, <1>5 DEF Inv
Writer == [content : Nat, to_write : Nat \cup {None},
           scheduled : Nat \cup {None}, applied : BOOLEAN]

LEMMA HostType == ASSUME Inv, NEW h \in Host PROVE host[h] \in Writer
BY DEF Inv, TypeOK, Writer

LEMMA IncarnationFacts ==
  ASSUME Inv
  PROVE  /\ incarnation \in Nat /\ finished \in Nat /\ finished <= incarnation
         /\ \A w \in written : w \in Nat /\ w <= incarnation
BY DEF Inv, TypeOK, WritesOrdered

LEMMA WriteInv ==
  ASSUME OddHosts, Inv, NEW inc \in 1 .. MaxIncarnation, Write(inc)
  PROVE  Inv'
<1>1. /\ inc \in Nat /\ inc > incarnation /\ incarnation' = inc
      /\ outstanding_write' = TRUE /\ written' = written \cup {inc} /\ finished' = finished
      /\ UNCHANGED <<job, next_handle, result>>
      /\ host' = [h \in Host |-> pushToWriter([host[h] EXCEPT !.to_write = inc])]
  BY DEF Write, OddHosts
<1>2. ASSUME NEW h \in Host
      PROVE  /\ host'[h] \in Writer /\ host'[h].content = host[h].content
             /\ Catching(host'[h], written', incarnation')
  <2>1. PICK w \in Writer : w = [host[h] EXCEPT !.to_write = inc]
    BY <1>1, HostType DEF Writer
  <2>2. host'[h] = pushToWriter(w)
    BY <1>1, <2>1
  <2>3. /\ w.to_write = inc /\ w.scheduled = host[h].scheduled
        /\ w.content = host[h].content /\ (w.applied <=> host[h].applied)
    BY <2>1, HostType DEF Writer
  <2>4. Catching(host[h], written, incarnation) /\ host[h] \in Writer
    BY HostType DEF Inv, Catch
  <2>5. inc # None
    BY <1>1 DEF None
  <2>6. host'[h] \in Writer /\ host'[h].content = w.content
    BY <2>1, <2>2, PushToWriter DEF Writer
  <2>7. CASE host'[h] = w
    BY <1>1, <2>3, <2>4, <2>5, <2>6, <2>7 DEF Catching
  <2>8. CASE /\ w.scheduled = None /\ host'[h].scheduled = w.to_write
             /\ host'[h].to_write = None /\ ~host'[h].applied
    <3>1. w.content \in written /\ w.content <= inc
      <4>1. w.content \in written
        BY <2>3, <2>4 DEF Catching
      <4>2. w.content \in Nat /\ w.content <= incarnation /\ incarnation \in Nat
        BY <4>1, IncarnationFacts
      <4> QED BY <1>1, <4>1, <4>2
    <3> QED BY <1>1, <2>3, <2>5, <2>6, <2>8, <3>1 DEF Catching
  <2>9. \/ host'[h] = w
        \/ /\ w.scheduled = None /\ host'[h].scheduled = w.to_write
           /\ host'[h].to_write = None /\ ~host'[h].applied
    BY <2>1, <2>2, PushToWriter DEF Writer
  <2> QED BY <2>3, <2>6, <2>7, <2>8, <2>9
<1>3. host' \in [Host -> Writer]
  BY <1>1, <1>2
<1>4. TypeOK'
  <2>1. written' \in SUBSET Nat
    BY <1>1 DEF Inv, TypeOK
  <2> QED BY <1>1, <1>3, <2>1 DEF Inv, TypeOK, Writer
<1>5. WritesOrdered'
  <2>1. ASSUME NEW w \in written' PROVE w <= inc
    BY <1>1, IncarnationFacts
  <2>2. finished \in written
    BY DEF Inv, WritesOrdered
  <2> QED BY <1>1, <2>1, <2>2 DEF WritesOrdered
<1>6. Catch'
  BY <1>2 DEF Catch
<1>7. \A h \in Host : host'[h].content >= host[h].content
  BY <1>2, HostType DEF Writer
<1> QED BY <1>1, <1>4, <1>5, <1>6, <1>7, WriterSteps

LEMMA WriterTickInv == ASSUME OddHosts, Inv, WriterTick PROVE Inv'
<1>1. /\ UNCHANGED <<incarnation, outstanding_write, finished, written>>
      /\ UNCHANGED <<job, next_handle, result>>
      /\ host' = [h \in Host |->
           pushToWriter(IF host[h].applied
                        THEN [host[h] EXCEPT !.scheduled = None, !.applied = FALSE]
                        ELSE host[h])]
  BY DEF WriterTick, wvars
<1>2. ASSUME NEW h \in Host
      PROVE  /\ host'[h] \in Writer /\ host'[h].content = host[h].content
             /\ Catching(host'[h], written, incarnation)
  <2>1. Catching(host[h], written, incarnation) /\ host[h] \in Writer
    BY HostType DEF Inv, Catch
  <2>2. PICK w : w = IF host[h].applied
                     THEN [host[h] EXCEPT !.scheduled = None, !.applied = FALSE]
                     ELSE host[h]
    OBVIOUS
  <2>3. w \in Writer /\ w.content = host[h].content /\ w.to_write = host[h].to_write
    BY <2>1, <2>2 DEF Writer
  <2>4. \/ ~host[h].applied /\ w = host[h]
        \/ host[h].applied /\ w.scheduled = None /\ ~w.applied
    BY <2>1, <2>2 DEF Writer
  <2>5. Catching(w, written, incarnation)
    <3>1. CASE w = host[h]
      BY <2>1, <3>1
    <3>2. CASE host[h].applied /\ w.scheduled = None /\ ~w.applied
      BY <2>1, <2>3, <3>2 DEF Catching
    <3> QED BY <2>4, <3>1, <3>2
  <2>6. host'[h] = pushToWriter(w)
    BY <1>1, <2>2
  <2>7. host'[h] \in Writer /\ host'[h].content = w.content
    BY <2>3, <2>6, PushToWriter DEF Writer
  <2>8. \/ host'[h] = w
        \/ /\ w.to_write # None /\ w.scheduled = None /\ host'[h].scheduled = w.to_write
           /\ host'[h].to_write = None /\ ~host'[h].applied
    BY <2>3, <2>6, PushToWriter DEF Writer
  <2>9. CASE /\ w.to_write # None /\ w.scheduled = None /\ host'[h].scheduled = w.to_write
             /\ host'[h].to_write = None /\ ~host'[h].applied
    <3>1. w.to_write = incarnation /\ w.content \in written
      BY <2>5, <2>9 DEF Catching
    <3>2. incarnation \in written /\ w.content <= incarnation
      BY <3>1, IncarnationFacts DEF Inv, WritesOrdered
    <3>3. host'[h].scheduled = incarnation /\ incarnation # None
      BY <2>9, <3>1
    <3> QED BY <2>3, <2>7, <2>9, <3>1, <3>2, <3>3 DEF Catching
  <2> QED BY <2>3, <2>5, <2>7, <2>8, <2>9
<1>3. host' \in [Host -> Writer]
  BY <1>1, <1>2
<1>4. TypeOK'
  BY <1>1, <1>3 DEF Inv, TypeOK, Writer
<1>5. WritesOrdered' /\ Catch'
  BY <1>1, <1>2 DEF Inv, WritesOrdered, Catch, Catching
<1>6. \A h \in Host : host'[h].content >= host[h].content
  BY <1>2, HostType DEF Writer
<1> QED BY <1>1, <1>4, <1>5, <1>6, WriterSteps

(* The hosts whose sub-writer is idle have the last write. *)
LEMMA CompletedInv == ASSUME OddHosts, Inv, Completed PROVE Inv'
<1>1. /\ outstanding_write' = FALSE /\ finished' = incarnation
      /\ UNCHANGED <<incarnation, written, host, job, next_handle, result>>
      /\ Cardinality({h \in Host : host[h].to_write = None /\ host[h].scheduled = None})
           >= Majority
  BY DEF Completed
<1>2. TypeOK' /\ WritesOrdered' /\ Catch'
  BY <1>1 DEF Inv, TypeOK, WritesOrdered, Catch, Catching
<1>3. FinishedHeld'
  <2> DEFINE D == {h \in Host : host[h].to_write = None /\ host[h].scheduled = None}
  <2>1. \A h \in D : host[h].content = incarnation
    BY DEF Inv, Catch, Catching
  <2>2. D \subseteq Having(incarnation)
    BY <2>1, IncarnationFacts DEF Having
  <2>3. D \subseteq Host /\ Having(incarnation) \subseteq Host
    BY DEF Having
  <2>4. Cardinality(Having(incarnation)) >= Majority
    BY <1>1, <2>2, <2>3, MajorityGrows
  <2>5. Having(finished)' = Having(incarnation)
    BY <1>1 DEF Having
  <2> QED BY <2>4, <2>5 DEF FinishedHeld
<1>4. \A h \in Host : host'[h].content >= host[h].content
  BY <1>1, HostType DEF Writer
<1> QED BY <1>1, <1>2, <1>3, <1>4, WriterSteps

LEMMA ApplyInv == ASSUME OddHosts, Inv, NEW g \in Host, Apply(g) PROVE Inv'
<1>1. /\ host[g].scheduled # None /\ ~host[g].applied
      /\ host' = [host EXCEPT ![g].content = host[g].scheduled, ![g].applied = TRUE]
      /\ UNCHANGED <<incarnation, outstanding_write, finished, written>>
      /\ UNCHANGED <<job, next_handle, result>>
  BY DEF Apply, wvars
<1>2. ASSUME NEW h \in Host
      PROVE  /\ host'[h] \in Writer /\ host'[h].content >= host[h].content
             /\ Catching(host'[h], written, incarnation)
  <2>1. Catching(host[h], written, incarnation) /\ host[h] \in Writer
    BY HostType DEF Inv, Catch
  <2>2. CASE h # g
    <3>1. host'[h] = host[h]
      BY <1>1, <2>2 DEF Inv, TypeOK
    <3> QED BY <2>1, <3>1 DEF Writer
  <2>3. CASE h = g
    <3>1. host'[h] = [host[h] EXCEPT !.content = host[h].scheduled, !.applied = TRUE]
      BY <1>1, <2>3 DEF Inv, TypeOK
    <3>2. host[h].scheduled \in Nat
      BY <1>1, <2>1, <2>3 DEF Writer
    <3>3. /\ host'[h] \in Writer /\ host'[h].content = host[h].scheduled
          /\ host'[h].scheduled = host[h].scheduled
          /\ host'[h].to_write = host[h].to_write
      BY <2>1, <3>1, <3>2 DEF Writer
    <3>4. /\ host[h].scheduled \in written /\ host[h].content <= host[h].scheduled
          /\ IF host[h].to_write # None THEN host[h].to_write = incarnation
             ELSE host[h].scheduled = incarnation
      BY <1>1, <2>1, <2>3 DEF Catching
    <3>5. host[h].content \in Nat
      BY <2>1 DEF Writer
    <3>6. Catching(host'[h], written, incarnation)
      BY <1>1, <2>3, <3>2, <3>3, <3>4 DEF Catching
    <3> QED BY <3>2, <3>3, <3>4, <3>5, <3>6
  <2> QED BY <2>2, <2>3
<1>3. host' \in [Host -> Writer]
  BY <1>1, <1>2 DEF Inv, TypeOK, Writer
<1>4. TypeOK'
  BY <1>1, <1>3 DEF Inv, TypeOK, Writer
<1>5. WritesOrdered' /\ Catch'
  BY <1>1, <1>2 DEF Inv, WritesOrdered, Catch, Catching
<1> QED BY <1>1, <1>2, <1>4, <1>5, WriterSteps
-----------------------------------------------------------------------------
LEMMA ReadInv == ASSUME OddHosts, Inv, Read PROVE Inv'
<1>1. /\ next_handle \in Job /\ next_handle' = next_handle + 1
      /\ job' = [h \in Host |->
                   pushToReader([job[h] EXCEPT ![next_handle].at = "queued"])]
      /\ result' = [result EXCEPT ![next_handle] = [state |-> "pending", inc |-> finished]]
      /\ UNCHANGED <<wvars, host>>
  BY DEF Read
<1>2. ASSUME NEW h \in Host
      PROVE  /\ job'[h] \in [Job -> [at : Places, inc : Int]]
             /\ \A j \in Job :
                  /\ Calm(job[h][j], job'[h][j])
                  /\ j >= next_handle' /\ job[h][j].at = "none" => job'[h][j].at = "none"
  <2>1. job[h] \in [Job -> [at : Places, inc : Int]]
    BY DEF Inv, TypeOK
  <2>2. PICK js : js = [job[h] EXCEPT ![next_handle].at = "queued"]
    OBVIOUS
  <2>3. js \in [Job -> [at : Places, inc : Int]]
    BY <2>1, <2>2 DEF Places
  <2>4. ASSUME NEW j \in Job PROVE Answered(js[j]) => js[j] = job[h][j]
    <3>1. CASE j = next_handle
      BY <1>1, <2>1, <2>2, <3>1 DEF Answered
    <3>2. CASE j # next_handle
      BY <2>1, <2>2, <3>2
    <3> QED BY <3>1, <3>2
  <2>5. job'[h] = pushToReader(js)
    BY <1>1, <2>2
  <2>6. /\ job'[h] \in [Job -> [at : Places, inc : Int]]
        /\ \A j \in Job : /\ Calm(js[j], job'[h][j])
                          /\ js[j].at = "none" => job'[h][j].at = "none"
    BY <2>3, <2>5, PushToReader
  <2>7. ASSUME NEW j \in Job, j >= next_handle', job[h][j].at = "none"
        PROVE  js[j].at = "none"
    <3>1. j # next_handle
      BY <1>1, <2>7 DEF Inv, TypeOK
    <3> QED BY <2>1, <2>2, <2>7, <3>1
  <2> QED BY <2>4, <2>6, <2>7 DEF Calm
<1>3. job' \in [Host -> [Job -> [at : Places, inc : Int]]]
  BY <1>1, <1>2
<1>4. result' \in [Job -> [state : States, inc : Nat]]
  BY <1>1, IncarnationFacts DEF Inv, TypeOK, States
<1>5. ASSUME NEW j \in Job
      PROVE  \/ result'[j] = result[j]
             \/ j = next_handle /\ result'[j].inc = finished
  BY <1>1 DEF Inv, TypeOK
<1>6. /\ next_handle \in Nat /\ next_handle' \in Nat /\ next_handle' > next_handle
      /\ next_handle' >= next_handle
  BY <1>1 DEF Inv, TypeOK
<1>7. \A j \in Job : j < next_handle \/ j >= next_handle
  BY <1>6 DEF Job, OddHosts
<1> QED BY <1>1, <1>2, <1>3, <1>4, <1>5, <1>6, <1>7, CalmReads

LEMMA ReaderTickInv == ASSUME OddHosts, Inv, ReaderTick PROVE Inv'
<1> DEFINE Ticked(h) == [j \in Job |->
              CASE job[h][j].at = "answered" -> [job[h][j] EXCEPT !.at = "completed"]
                [] job[h][j].at = "releasable" -> [at |-> "none", inc |-> None]
                [] OTHER -> job[h][j]]
<1>1. /\ job' = [h \in Host |-> pushToReader(Ticked(h))]
      /\ UNCHANGED <<wvars, host, next_handle, result>>
  BY DEF ReaderTick
<1>2. ASSUME NEW h \in Host
      PROVE  /\ job'[h] \in [Job -> [at : Places, inc : Int]]
             /\ \A j \in Job :
                  /\ Calm(job[h][j], job'[h][j])
                  /\ j >= next_handle' /\ job[h][j].at = "none" => job'[h][j].at = "none"
  <2>1. job[h] \in [Job -> [at : Places, inc : Int]]
    BY DEF Inv, TypeOK
  <2>2. PICK js : js = Ticked(h)
    OBVIOUS
  <2>3. ASSUME NEW j \in Job
        PROVE  /\ js[j] \in [at : Places, inc : Int] /\ Calm(job[h][j], js[j])
               /\ job[h][j].at = "none" => js[j].at = "none"
    <3>1. job[h][j] \in [at : Places, inc : Int]
      BY <2>1
    <3>2. CASE job[h][j].at = "answered"
      <4>1. js[j] = [job[h][j] EXCEPT !.at = "completed"]
        BY <2>2, <3>2
      <4>2. /\ js[j] \in [at : Places, inc : Int]
            /\ js[j].at \in Places /\ js[j].inc \in Int /\ js[j].inc = job[h][j].inc
        BY <3>1, <4>1 DEF Places
      <4> QED BY <3>2, <4>2 DEF Calm, Answered
    <3>3. CASE job[h][j].at = "releasable"
      <4>1. js[j] = [at |-> "none", inc |-> None]
        BY <2>2, <3>3
      <4> QED BY <3>3, <4>1 DEF Calm, Answered, Places, None
    <3>4. CASE job[h][j].at # "answered" /\ job[h][j].at # "releasable"
      <4>1. js[j] = job[h][j]
        BY <2>2, <3>4
      <4> QED BY <3>1, <4>1 DEF Calm
    <3> QED BY <3>2, <3>3, <3>4
  <2>4. js \in [Job -> [at : Places, inc : Int]]
    BY <2>2, <2>3
  <2>5. job'[h] = pushToReader(js)
    BY <1>1, <2>2
  <2>6. /\ job'[h] \in [Job -> [at : Places, inc : Int]]
        /\ \A j \in Job : /\ Calm(js[j], job'[h][j])
                          /\ js[j].at = "none" => job'[h][j].at = "none"
    BY <2>4, <2>5, PushToReader
  <2> QED BY <2>3, <2>6 DEF Calm
<1> HIDE DEF Ticked
<1>3. job' \in [Host -> [Job -> [at : Places, inc : Int]]]
  BY <1>1, <1>2
<1>4. next_handle \in Nat /\ result \in [Job -> [state : States, inc : Nat]]
  BY DEF Inv, TypeOK
<1>5. \A j \in Job : j < next_handle \/ j >= next_handle
  BY <1>4 DEF Job, OddHosts
<1> QED BY <1>1, <1>2, <1>3, <1>4, <1>5, CalmReads

LEMMA Released == ASSUME NEW r \in [at : Places, inc : Int]
                  PROVE  release(r) \in [at : Places, inc : Int] /\ Calm(r, release(r))
<1>1. release(r).at \in {"released", "releasable", "none"} /\ release(r).inc = None
  BY DEF release
<1>2. release(r) = [at |-> release(r).at, inc |-> release(r).inc]
  BY DEF release
<1> QED BY <1>1, <1>2 DEF Calm, Answered, Places, None
(* Half of the hosts, rounded up, answered, and one of them is among those  *)
(* that cover the read: the highest answer was written, and not before the  *)
(* floor.                                                                   *)
LEMMA PollResult ==
  ASSUME OddHosts, Inv, NEW k \in Job, Poll(k)
  PROVE  \E n \in written :
           /\ n >= result[k].inc
           /\ result' = [result EXCEPT ![k] = [state |-> "done", inc |-> n]]
<1> DEFINE polled == {h \in Host : job[h][k].at = "completed"}
           S == {job[h][k].inc : h \in polled}
<1>1. /\ result[k].state = "pending" /\ Cardinality(polled) >= Majority
      /\ result' = [result EXCEPT ![k] = [state |-> "done", inc |-> Highest(S)]]
  BY DEF Poll
<1>2. \A h \in polled : Answered(job[h][k]) /\ job[h][k].inc \in written
  BY DEF Inv, AnswersWritten, Answered
<1>3. PICK h \in polled : h \in Covering(k)
  <2>1. Cardinality(Covering(k)) >= Majority
    BY <1>1 DEF Inv, ReadsCovered
  <2>2. polled \subseteq Host /\ Covering(k) \subseteq Host
    BY DEF Covering
  <2> HIDE DEF polled
  <2> QED BY <1>1, <2>1, <2>2, MajoritiesMeet
<1>4. job[h][k].inc \in S /\ job[h][k].inc >= result[k].inc
  BY <1>2, <1>3 DEF Covering
<1>5. S \in SUBSET Nat /\ S \subseteq written /\ \A m \in S : m <= incarnation
  BY <1>2, IncarnationFacts
<1> HIDE DEF S, polled
<1>6. Max(S) \in S /\ \A m \in S : Max(S) >= m
  BY <1>4, <1>5, BoundedMax, IncarnationFacts
<1>7. Max(S) \in written /\ Max(S) >= result[k].inc
  <2>1. Max(S) >= job[h][k].inc
    BY <1>4, <1>6
  <2>2. Max(S) \in Nat /\ job[h][k].inc \in Nat /\ result[k].inc \in Nat
    BY <1>4, <1>5, <1>6 DEF Inv, TypeOK
  <2> QED BY <1>4, <1>5, <1>6, <2>1, <2>2
<1> QED BY <1>1, <1>7 DEF Highest

LEMMA PollInv == ASSUME OddHosts, Inv, NEW k \in Job, Poll(k) PROVE Inv'
<1>1. /\ result[k].state = "pending"
      /\ job' = [h \in Host |-> [job[h] EXCEPT ![k] = release(@)]]
      /\ UNCHANGED <<wvars, host, next_handle>>
  BY DEF Poll
<1>2. PICK n \in written : result' = [result EXCEPT ![k] = [state |-> "done", inc |-> n]]
  BY PollResult
<1>6. next_handle \in Nat /\ \A j \in Job : j < next_handle \/ j >= next_handle
  BY DEF Inv, TypeOK, Job, OddHosts
<1>7. k < next_handle
  <2>1. ~(k >= next_handle)
    BY <1>1 DEF Inv, ReadsCovered
  <2> QED BY <1>6, <2>1
<1>3. ASSUME NEW h \in Host
      PROVE  /\ job'[h] \in [Job -> [at : Places, inc : Int]]
             /\ \A j \in Job :
                  /\ Calm(job[h][j], job'[h][j])
                  /\ j >= next_handle' /\ job[h][j].at = "none" => job'[h][j].at = "none"
  <2>1. job[h] \in [Job -> [at : Places, inc : Int]]
    BY DEF Inv, TypeOK
  <2>2. job'[h] = [job[h] EXCEPT ![k] = release(job[h][k])]
    BY <1>1
  <2>3. release(job[h][k]) \in [at : Places, inc : Int] /\ Calm(job[h][k], release(job[h][k]))
    BY <2>1, Released
  <2>4. job'[h] \in [Job -> [at : Places, inc : Int]]
    BY <2>1, <2>2, <2>3
  <2>5. ASSUME NEW j \in Job PROVE Calm(job[h][j], job'[h][j])
    <3>1. CASE j = k
      BY <2>1, <2>2, <2>3, <3>1
    <3>2. CASE j # k
      <4>1. job'[h][j] = job[h][j] /\ job[h][j] \in [at : Places, inc : Int]
        BY <2>1, <2>2, <3>2
      <4> QED BY <4>1 DEF Calm
    <3> QED BY <3>1, <3>2
  <2>6. ASSUME NEW j \in Job, j >= next_handle' PROVE job'[h][j] = job[h][j]
    <3>1. j # k
      BY <1>1, <1>7, <2>6 DEF Inv, TypeOK, Job, OddHosts
    <3> QED BY <2>1, <2>2, <3>1
  <2> QED BY <2>4, <2>5, <2>6
<1>4. job' \in [Host -> [Job -> [at : Places, inc : Int]]]
  BY <1>1, <1>3
<1>5. result' \in [Job -> [state : States, inc : Nat]]
  BY <1>2, IncarnationFacts DEF Inv, TypeOK, States
<1>8. ASSUME NEW j \in Job
      PROVE  \/ result'[j] = result[j]
             \/ result'[j].state # "pending" /\ j < next_handle
  BY <1>2, <1>7 DEF Inv, TypeOK
<1>9. next_handle' \in Nat /\ next_handle' >= next_handle
  BY <1>1, <1>6
<1> QED BY <1>1, <1>3, <1>4, <1>5, <1>6, <1>8, <1>9, CalmReads

LEMMA AnswerInv ==
  ASSUME OddHosts, Inv, NEW g \in Host, NEW k \in Job, Answer(g, k)
  PROVE  Inv'
<1>1. UNCHANGED <<incarnation, outstanding_write, finished, written, host, next_handle, result>>
  BY DEF Answer, wvars
<1>2. PICK v \in [at : Places, inc : Int] :
         /\ job' = [job EXCEPT ![g][k] = v]
         /\ job[g][k].at \in {"posted", "released"}
         /\ Answered(v) => job[g][k].at = "posted" /\ v.inc = host[g].content
  <2>1. job[g][k] \in [at : Places, inc : Int] /\ host[g].content \in Int
    BY DEF Inv, TypeOK
  <2>2. CASE /\ job[g][k].at = "posted"
             /\ job' = [job EXCEPT ![g][k] = [at |-> "answered", inc |-> host[g].content]]
    <3>1. [at |-> "answered", inc |-> host[g].content] \in [at : Places, inc : Int]
      BY <2>1 DEF Places
    <3> QED BY <2>2, <3>1
  <2>3. CASE job[g][k].at = "released" /\ job' = [job EXCEPT ![g][k].at = "releasable"]
    <3>1. PICK v : v = [job[g][k] EXCEPT !.at = "releasable"]
      OBVIOUS
    <3>2. v \in [at : Places, inc : Int] /\ v.at = "releasable"
      BY <2>1, <3>1 DEF Places
    <3>3. job' = [job EXCEPT ![g][k] = v]
      BY <2>3, <3>1
    <3> QED BY <2>3, <3>2, <3>3 DEF Answered
  <2> QED BY <2>2, <2>3 DEF Answer
<1>3. /\ job' \in [Host -> [Job -> [at : Places, inc : Int]]]
      /\ \A h \in Host, j \in Job :
           job'[h][j] = IF h = g /\ j = k THEN v ELSE job[h][j]
  BY <1>2 DEF Inv, TypeOK
<1>4. TypeOK'
  BY <1>1, <1>3 DEF Inv, TypeOK
<1>5. WritesOrdered' /\ Catch' /\ FinishedHeld'
  BY <1>1 DEF Inv, WritesOrdered, Catch, Catching, FinishedHeld, Having
<1>6. AnswersWritten'
  <2>1. host[g].content \in written
    BY DEF Inv, Catch, Catching
  <2> QED BY <1>1, <1>2, <1>3, <2>1 DEF Inv, AnswersWritten
<1>7. ASSUME NEW j \in Job
      PROVE  /\ result[j].state = "pending" => Cardinality(Covering(j)') >= Majority
             /\ j >= next_handle => /\ result[j].state = "idle"
                                    /\ \A h \in Host : job'[h][j].at = "none"
  <2>1. Covering(j) \subseteq Covering(j)'
    BY <1>1, <1>2, <1>3 DEF Covering
  <2>2. Covering(j) \subseteq Host /\ Covering(j)' \subseteq Host
    BY DEF Covering
  <2>3. result[j].state = "pending" => Cardinality(Covering(j)') >= Majority
    BY <2>1, <2>2, MajorityGrows DEF Inv, ReadsCovered
  <2>4. ASSUME j >= next_handle PROVE \A h \in Host : job'[h][j].at = "none"
    <3>1. \A h \in Host : job[h][j].at = "none"
      BY <2>4 DEF Inv, ReadsCovered
    <3>2. j # k
      BY <1>2, <3>1
    <3> QED BY <1>3, <3>1, <3>2
  <2> QED BY <2>3, <2>4 DEF Inv, ReadsCovered
<1>8. ReadsCovered'
  BY <1>1, <1>7 DEF ReadsCovered
<1> QED BY <1>4, <1>5, <1>6, <1>8 DEF Inv
LEMMA NextInv ==
  ASSUME OddHosts, Inv, [Next]_vars
  PROVE  Inv'
<1>1. CASE UNCHANGED vars
  <2>1. UNCHANGED <<incarnation, outstanding_write, finished, written, host, job,
                    next_handle, result>>
    BY <1>1 DEF vars, wvars
  <2> QED BY <2>1 DEF Inv, TypeOK, WritesOrdered, Catch, FinishedHeld, Having,
                      AnswersWritten, ReadsCovered, Covering
<1>2. CASE Next
  <2>1. CASE \E inc \in 1 .. MaxIncarnation : Write(inc)
    BY <2>1, WriteInv
  <2>2. CASE WriterTick \/ Completed \/ \E h \in Host : Apply(h)
    BY <2>2, WriterTickInv, CompletedInv, ApplyInv
  <2>3. CASE Read \/ ReaderTick
    BY <2>3, ReadInv, ReaderTickInv
  <2>4. CASE \E h \in Host, j \in Job : Answer(h, j)
    BY <2>4, AnswerInv
  <2>5. CASE \E j \in Job : Poll(j)
    BY <2>5, PollInv
  <2> QED BY <1>2, <2>1, <2>2, <2>3, <2>4, <2>5 DEF Next
<1> QED BY <1>1, <1>2

-----------------------------------------------------------------------------
(* Write, Completed, Read and Poll are the steps of a regular register.     *)
LEMMA StepIsRegular ==
  ASSUME OddHosts, Inv, [Next]_vars
  PROVE  [Regular!Next]_(Regular!vars)
<1> USE DEF Regular!vars
<1>1. CASE UNCHANGED vars
  BY <1>1 DEF vars, wvars
<1>2. ASSUME NEW inc \in 1 .. MaxIncarnation, Write(inc) PROVE Regular!Write
  <2>1. /\ ~outstanding_write /\ inc > incarnation /\ inc \in Int
        /\ written' = written \cup {inc}
        /\ UNCHANGED <<finished, result>>
    BY <1>2 DEF Write, OddHosts
  <2>2. finished = incarnation /\ \A w \in written : w <= finished
    BY <2>1 DEF Inv, WritesOrdered
  <2>3. inc \in written' /\ inc > finished
    BY <2>1, <2>2
  <2> QED BY <2>1, <2>2, <2>3 DEF Regular!Write
<1>3. ASSUME Completed PROVE Regular!Finish
  <2>1. finished' = incarnation /\ UNCHANGED <<written, result>>
    BY <1>3 DEF Completed
  <2> QED BY <2>1 DEF Inv, WritesOrdered, Regular!Finish
<1>4. ASSUME Read PROVE \E j \in Job : Regular!Begin(j)
  <2>1. /\ next_handle \in Job
        /\ result' = [result EXCEPT ![next_handle] = [state |-> "pending", inc |-> finished]]
        /\ UNCHANGED <<written, finished>>
    BY <1>4 DEF Read, wvars
  <2>2. result[next_handle].state = "idle"
    <3>1. next_handle >= next_handle
      BY DEF Inv, TypeOK
    <3> QED BY <2>1, <3>1 DEF Inv, ReadsCovered
  <2>3. Regular!Begin(next_handle)
    BY <2>1, <2>2 DEF Regular!Begin
  <2> QED BY <2>1, <2>3
<1>5. ASSUME NEW j \in Job, Poll(j) PROVE Regular!Return(j)
  <2>1. result[j].state = "pending" /\ UNCHANGED <<written, finished>>
    BY <1>5 DEF Poll, wvars
  <2>2. \E n \in written :
           /\ n >= result[j].inc
           /\ result' = [result EXCEPT ![j] = [state |-> "done", inc |-> n]]
    BY <1>5, PollResult
  <2> QED BY <2>1, <2>2 DEF Regular!Return
<1>6. CASE WriterTick \/ ReaderTick \/ (\E h \in Host : Apply(h))
           \/ (\E h \in Host, j \in Job : Answer(h, j))
  BY <1>6 DEF WriterTick, ReaderTick, Apply, Answer, wvars
<1>7. CASE Next
  BY <1>2, <1>3, <1>4, <1>5, <1>6, <1>7 DEF Next, Regular!Next
<1> QED BY <1>1, <1>7

(* For any odd number of hosts, writes, reads and read buffers: a read that *)
(* Reader::poll returns is never older than the last write that             *)
(* Writer::completed reported before the read began, and the writes that    *)
(* slow hosts skip (pushToWriter) are never missed.                         *)
THEOREM ReplicationIsRegular == OddHosts => (Spec => ImplementsRegular)
<1> SUFFICES ASSUME OddHosts PROVE Spec => ImplementsRegular
  OBVIOUS
<1>1. Init => Inv
  BY InitInv
<1>2. Inv /\ [Next]_vars => Inv'
  BY NextInv
<1>3. Init => Regular!Init
  BY DEF Init, Regular!Init
<1>4. Inv /\ [Next]_vars => [Regular!Next]_(Regular!vars)
  BY StepIsRegular
<1> QED BY <1>1, <1>2, <1>3, <1>4, PTL DEF Spec, ImplementsRegular, Regular!Spec

-----------------------------------------------------------------------------
(* The register of one host. *)
RegisterAssumption ==
  /\ WriteCooldown \in Nat /\ WrDepth \in Nat /\ MaxIncarnation \in Nat

-----------------------------------------------------------------------------
(* Types.  Times and incarnations are numbers, or -1 for none. *)
Phase == {"posted", "started", "applied"}
RegisterRecord ==
  [incarnation : Nat, scheduled : BOOLEAN, last_write : Nat \cup {Sw!None},
   remote_subslot : 0..1, finished : Nat]
WriteJob == [register : Register, subslot : 0..1, phase : Phase,
             ended : Nat \cup {Sw!None}]
ReadJob == [handle : Handle, register : Register]
Fetch == [handle : Handle, register : Register, start : Nat, fetched : 0..2,
          subslot : [0..1 -> Int], ended : Nat \cup {Sw!None}]
WriterTypes ==
  /\ now \in Nat /\ registers \in [Register -> RegisterRecord]
  /\ queued_writes \in Seq(Register) /\ posted_writes \in Seq(WriteJob)
  /\ mem \in [Register -> [0..1 -> Int]]
ReaderTypes ==
  /\ queued_reads \in Seq(ReadJob) /\ outstanding_reads \in Seq(Fetch)
  /\ buffer_pool \in SUBSET Handle /\ completed_reads \in [Handle -> Int]
  /\ floor \in [Handle -> Nat] /\ slow \in SUBSET Handle /\ alarm \in BOOLEAN
  /\ Len(outstanding_reads) <= WrDepth

-----------------------------------------------------------------------------
(* The writer: a register is written once at a time, in the subslot that   *)
(* does not hold the last write.                                           *)
Newest(g) == IF g.scheduled THEN 1 - g.remote_subslot ELSE g.remote_subslot
NewestSound(g, t, m) ==
  /\ m[Newest(g)] = g.finished + 2
  /\ IF g.scheduled THEN g.finished + 2 < g.incarnation
                    ELSE g.finished + 2 = g.incarnation
  /\ g.last_write <= t

\* A register waits once only, to be posted or to be completed.
Once(queue, posted) ==
  /\ \A i, j \in 1..Len(queue) : i # j => queue[i] # queue[j]
  /\ \A i, j \in 1..Len(posted) : i # j => posted[i].register # posted[j].register
  /\ \A i \in 1..Len(queue), j \in 1..Len(posted) : queue[i] # posted[j].register

\* A register posted has cooled down; its subslot holds the value once applied.
PostSound(w, regs, t, m) ==
  LET g == regs[w.register] IN
  /\ g.scheduled /\ w.subslot = g.remote_subslot
  /\ g.last_write = Sw!None \/ g.last_write + WriteCooldown <= t
  /\ w.phase = "applied" => /\ w.ended \in Nat /\ w.ended <= t
                            /\ m[w.register][w.subslot] = g.incarnation
WritesSound(regs, queue, posted, t, m) ==
  /\ Once(queue, posted)
  /\ \A i \in 1..Len(queue) : regs[queue[i]].scheduled
  /\ \A i \in 1..Len(posted) : PostSound(posted[i], regs, t, m)
WriterInv ==
  /\ WriterTypes
  /\ \A r \in Register : NewestSound(registers[r], now, mem[r])
  /\ WritesSound(registers, queued_writes, posted_writes, now, mem)

-----------------------------------------------------------------------------
(* The reader: what the first subslot did not show, the second will, unless *)
(* the reader is so slow that the writer came to write there.               *)
Shows(o, s, fl) == o.subslot[s] >= fl[o.handle] + 2
\* The second subslot holds the last write, and the first is not written yet.
Protected(o, regs, posted) ==
  /\ Newest(regs[o.register]) = 1
  /\ \A i \in 1..Len(posted) :
       posted[i].register = o.register /\ posted[i].phase = "applied"
         => posted[i].ended >= o.ended
\* The first was written since, and the second not yet.
CoolingDown(o, fl, regs, m) ==
  /\ regs[o.register].last_write > o.ended
  /\ m[o.register][1] >= fl[o.handle] + 2
FetchSound(o, fl, regs, posted, t, m) ==
  /\ fl[o.handle] <= regs[o.register].finished /\ o.start <= t
  /\ o.fetched > 0 => o.ended \in Nat /\ o.start <= o.ended /\ o.ended <= t
  /\ o.fetched = 1 => \/ Shows(o, 0, fl) \/ Protected(o, regs, posted)
                      \/ CoolingDown(o, fl, regs, m)
                      \/ t > o.ended + WriteCooldown
  /\ o.fetched = 2 => \/ Shows(o, 0, fl) \/ Shows(o, 1, fl)
                      \/ o.ended > o.start + WriteCooldown
FloorSound(q, fl, regs) == fl[q.handle] <= regs[q.register].finished
ReadsSound(queue, outstanding, fl, regs, posted, t, m) ==
  /\ \A i \in 1..Len(outstanding) : FetchSound(outstanding[i], fl, regs, posted, t, m)
  /\ \A i \in 1..Len(queue) : FloorSound(queue[i], fl, regs)

\* A buffer is in one place at a time.
InUse(h, pool, completed) == h \notin pool /\ completed[h] = Sw!None
HandlesOnce(queue, outstanding, pool, completed) ==
  /\ \A i \in 1..Len(queue) : InUse(queue[i].handle, pool, completed)
  /\ \A i \in 1..Len(outstanding) : InUse(outstanding[i].handle, pool, completed)
  /\ \A h \in pool : completed[h] = Sw!None
  /\ \A i, j \in 1..Len(queue) : i # j => queue[i].handle # queue[j].handle
  /\ \A i, j \in 1..Len(outstanding) :
       i # j => outstanding[i].handle # outstanding[j].handle
  /\ \A i \in 1..Len(queue), j \in 1..Len(outstanding) :
       queue[i].handle # outstanding[j].handle
ReaderInv ==
  /\ ReaderTypes
  /\ ReadsSound(queued_reads, outstanding_reads, floor, registers, posted_writes, now, mem)
  /\ HandlesOnce(queued_reads, outstanding_reads, buffer_pool, completed_reads)
  /\ Sw!NoFalseAlarm /\ Sw!QuickReadsAreFresh
RegisterInv == WriterInv /\ ReaderInv

-----------------------------------------------------------------------------
(* Pushing writes *)

LEMMA LeastNat ==
  ASSUME NEW S \in SUBSET Nat, S # {}
  PROVE  \E n \in S : \A m \in S : n <= m
<1> DEFINE R == {x \in Nat \X Nat : x[1] < x[2]}
<1>1. IsWellFoundedOn(R, Nat)
  BY NatLessThanWellFounded DEF OpToRel
<1>2. PICK n \in S : \A m \in S : <<m, n>> \notin R
  <2> HIDE DEF R
  <2> QED BY <1>1, WFMin
<1>3. \A m \in S : ~(m < n)
  BY <1>2
<1> QED BY <1>3

(* What holds of 0 and of the successor of every number it holds of. *)
LEMMA UpTo ==
  ASSUME NEW n \in Nat, NEW T, 0 \in T, \A i \in 0..n : i < n /\ i \in T => i + 1 \in T
  PROVE  \A i \in 0..n : i \in T
<1> DEFINE Bad == {i \in 0..n : i \notin T}
<1>1. SUFFICES ASSUME Bad # {} PROVE FALSE
  OBVIOUS
<1>2. PICK i \in Bad : \A j \in Bad : i <= j
  <2>1. Bad \in SUBSET Nat
    OBVIOUS
  <2> HIDE DEF Bad
  <2> QED BY <1>1, <2>1, LeastNat
<1>3. i \in 1..n /\ i - 1 \in 0..n /\ i - 1 < n
  OBVIOUS
<1>4. i - 1 \notin Bad
  BY <1>2, <1>3
<1> QED BY <1>3, <1>4

In(x, s) == \E i \in 1..Len(s) : s[i] = x
NewJob(regs, r) == [register |-> r, subslot |-> regs[r].remote_subslot,
                    phase |-> "posted", ended |-> Sw!None]
(* The queue q and the posted writes w, some turns after queue and posted.  *)
Pushed(regs, queue, posted, q, w) ==
  /\ q \in Seq(Register) /\ w \in Seq(WriteJob) /\ Once(q, w)
  /\ \A i \in 1..Len(q) : In(q[i], queue)
  /\ \A i \in 1..Len(w) :
       \/ In(w[i], posted)
       \/ \E r \in Register : /\ In(r, queue) /\ ~Sw!Cooling(regs[r])
                              /\ w[i] = NewJob(regs, r)

LEMMA Turned ==
  ASSUME NEW regs \in [Register -> RegisterRecord], NEW queue, NEW posted,
         NEW q, NEW w, Pushed(regs, queue, posted, q, w), q # << >>
  PROVE  /\ Pushed(regs, queue, posted, Append(Tail(q), Head(q)), w)
         /\ ~Sw!Cooling(regs[Head(q)]) =>
              Pushed(regs, queue, posted, Tail(q), Append(w, NewJob(regs, Head(q))))
<1> DEFINE t == Tail(q)
           h == Head(q)
           n == Len(q)
<1>1. q \in Seq(Register) /\ w \in Seq(WriteJob) /\ Once(q, w)
  BY DEF Pushed
<1>2. /\ h \in Register /\ h = q[1] /\ t \in Seq(Register) /\ n \in Nat \ {0}
      /\ Len(t) = n - 1 /\ \A i \in 1..(n - 1) : t[i] = q[i + 1]
  BY <1>1, HeadTailProperties, EmptySeq
<1>3. Len(w) \in Nat
  BY <1>1, LenProperties
<1> DEFINE a == Append(t, h)
<1>4. /\ a \in Seq(Register) /\ Len(a) = n
      /\ \A i \in 1..n : a[i] = IF i < n THEN q[i + 1] ELSE q[1]
  <2>1. /\ a \in Seq(Register) /\ Len(a) = Len(t) + 1
        /\ \A i \in 1..Len(t) : a[i] = t[i]
        /\ a[Len(t) + 1] = h
    BY <1>2, AppendProperties
  <2> HIDE DEF a, t, h, n
  <2> QED BY <1>2, <2>1
<1> HIDE DEF t, h, n, a
<1>5. Pushed(regs, queue, posted, a, w)
  <2>1. \A i \in 1..n : \E k \in 1..n : a[i] = q[k] /\ k = IF i < n THEN i + 1 ELSE 1
    BY <1>2, <1>4
  <2>2. \A i \in 1..Len(a) : In(a[i], queue)
    BY <1>4, <2>1 DEF Pushed, n
  <2>3. ASSUME NEW i \in 1..Len(a), NEW j \in 1..Len(a), i # j PROVE a[i] # a[j]
    <3>1. PICK k \in 1..n : a[i] = q[k] /\ k = IF i < n THEN i + 1 ELSE 1
      BY <1>4, <2>1
    <3>2. PICK l \in 1..n : a[j] = q[l] /\ l = IF j < n THEN j + 1 ELSE 1
      BY <1>4, <2>1
    <3>3. k # l
      BY <1>2, <1>4, <2>3, <3>1, <3>2
    <3> QED BY <1>1, <3>1, <3>2, <3>3 DEF Once, n
  <2>4. ASSUME NEW i \in 1..Len(a), NEW j \in 1..Len(w) PROVE a[i] # w[j].register
    BY <1>1, <1>4, <2>1 DEF Once, n
  <2>5. Once(a, w)
    BY <1>1, <2>3, <2>4 DEF Once
  <2> QED BY <1>1, <1>4, <2>2, <2>5 DEF Pushed
<1>6. ASSUME ~Sw!Cooling(regs[h])
      PROVE  Pushed(regs, queue, posted, t, Append(w, NewJob(regs, h)))
  <2> DEFINE d == NewJob(regs, h)
             v == Append(w, d)
  <2>1. d \in WriteJob /\ d.register = h
    <3>1. regs[h] \in RegisterRecord
      BY <1>2
    <3> QED BY <1>2, <3>1 DEF RegisterRecord, WriteJob, Phase, NewJob
  <2> HIDE DEF d
  <2>2. /\ v \in Seq(WriteJob) /\ Len(v) = Len(w) + 1
        /\ \A i \in 1..Len(w) : v[i] = w[i]
        /\ v[Len(w) + 1] = d
    BY <1>1, <2>1, AppendProperties
  <2> HIDE DEF v
  <2>3. \A i \in 1..Len(v) :
          (i \in 1..Len(w) /\ v[i] = w[i]) \/ (i = Len(w) + 1 /\ v[i] = d)
    <3>1. \A i \in 1..Len(v) : i \in 1..Len(w) \/ i = Len(w) + 1
      BY <1>3, <2>2
    <3>2. ASSUME NEW i \in 1..Len(v)
          PROVE  (i \in 1..Len(w) /\ v[i] = w[i]) \/ (i = Len(w) + 1 /\ v[i] = d)
      <4>1. CASE i \in 1..Len(w)
        BY <2>2, <4>1
      <4>2. CASE i = Len(w) + 1
        BY <2>2, <4>2
      <4> QED BY <3>1, <4>1, <4>2
    <3> QED BY <3>2
  <2>4. \A i \in 1..Len(t) : i + 1 \in 1..n /\ i + 1 # 1 /\ t[i] = q[i + 1]
    BY <1>2
  <2>5. 1 \in 1..n
    BY <1>2
  <2>6. \A i \in 1..Len(t) : In(t[i], queue)
    BY <2>4 DEF Pushed, n
  <2>7. ASSUME NEW i \in 1..Len(v)
        PROVE  \/ In(v[i], posted)
               \/ \E r \in Register : /\ In(r, queue) /\ ~Sw!Cooling(regs[r])
                                      /\ v[i] = NewJob(regs, r)
    <3>1. CASE i \in 1..Len(w) /\ v[i] = w[i]
      BY <3>1 DEF Pushed
    <3>2. CASE v[i] = d
      <4>1. In(h, queue)
        BY <1>2, <2>5 DEF Pushed, n
      <4> QED BY <1>2, <1>6, <3>2, <4>1 DEF d
    <3> QED BY <2>3, <3>1, <3>2
  <2>8. ASSUME NEW i \in 1..Len(t), NEW j \in 1..Len(t), i # j PROVE t[i] # t[j]
    <3>1. i + 1 # j + 1
      BY <2>8
    <3> QED BY <1>1, <2>4, <3>1 DEF Once, n
  <2>9. ASSUME NEW i \in 1..Len(t), NEW j \in 1..Len(v) PROVE t[i] # v[j].register
    <3>1. \A k \in 1..Len(w) : t[i] # w[k].register
      BY <1>1, <2>4 DEF Once, n
    <3>2. t[i] # h
      BY <1>1, <1>2, <2>4, <2>5 DEF Once, n
    <3> QED BY <2>1, <2>3, <3>1, <3>2
  <2>10. ASSUME NEW i \in 1..Len(v), NEW j \in 1..Len(v), i # j
         PROVE  v[i].register # v[j].register
    <3>1. \A k \in 1..Len(w) : h # w[k].register
      BY <1>1, <1>2, <2>5 DEF Once, n
    <3>2. \A k, l \in 1..Len(w) : k # l => w[k].register # w[l].register
      BY <1>1 DEF Once
    <3> QED BY <2>1, <2>3, <2>10, <3>1, <3>2
  <2>11. Once(t, v)
    BY <2>8, <2>9, <2>10 DEF Once
  <2>12. Pushed(regs, queue, posted, t, v)
    BY <1>2, <2>2, <2>6, <2>7, <2>11 DEF Pushed
  <2> QED BY <2>12 DEF v, d
<1> QED BY <1>5, <1>6 DEF a, t, h

(* pushToQp keeps the order in which nothing is lost or doubled, and posts  *)
(* no register that cools down.                                             *)
LEMMA PushedWrites ==
  ASSUME RegisterAssumption, NEW regs \in [Register -> RegisterRecord],
         NEW queue \in Seq(Register), NEW posted \in Seq(WriteJob),
         Once(queue, posted), Sw!PushWrites(regs, queue, posted)
  PROVE  Pushed(regs, queue, posted, queued_writes', posted_writes')
<1> DEFINE Start == [queue |-> queue, posted |-> posted]
           Step(x, i) ==
             LET q == x.queue
                 w == x.posted
             IN  IF i > Len(q) \/ Len(w) >= WrDepth THEN x
                 ELSE IF Sw!Cooling(regs[Head(q)])
                      THEN [queue |-> Append(Tail(q), Head(q)), posted |-> w]
                      ELSE [queue |-> Tail(q),
                            posted |-> Append(w, NewJob(regs, Head(q)))]
           After(f, m) == f = [i \in 0..m |-> IF i = 0 THEN Start ELSE Step(f[i - 1], i)]
           n == Len(queue)
           f == CHOOSE h : After(h, n)
           Exists == {m \in Nat : \E h : After(h, m)}
           Kept(x) == Pushed(regs, queue, posted, x.queue, x.posted)
           T == {m \in Nat : m <= n => Kept(f[m])}
<1>0. n \in Nat
  BY LenProperties
<1>1. queued_writes' = f[n].queue /\ posted_writes' = f[n].posted
  BY Zenon DEF Sw!PushWrites, NewJob
<1>2. 0 \in Exists
  <2>1. After([i \in 0..0 |-> Start], 0)
    OBVIOUS
  <2> QED BY <2>1
<1>3. ASSUME NEW m \in 0..n, m \in Exists PROVE m + 1 \in Exists
  <2>1. PICK h : After(h, m)
    BY <1>3
  <2> DEFINE g == [i \in 0..(m + 1) |-> IF i = m + 1 THEN Step(h[m], m + 1) ELSE h[i]]
  <2>2. ASSUME NEW i \in 0..(m + 1)
        PROVE  g[i] = IF i = 0 THEN Start ELSE Step(g[i - 1], i)
    <3> HIDE DEF Step, Start
    <3>1. \A j \in 0..m : h[j] = IF j = 0 THEN Start ELSE Step(h[j - 1], j)
      BY <2>1
    <3>2. CASE i = m + 1
      BY <3>2
    <3>3. CASE i # m + 1
      BY <3>1, <3>3
    <3> QED BY <3>2, <3>3
  <2>3. After(g, m + 1)
    <3>1. g = [i \in 0..(m + 1) |-> g[i]]
      OBVIOUS
    <3> HIDE DEF g, Step, Start
    <3> QED BY <2>2, <3>1
  <2> HIDE DEF After, g
  <2> QED BY <2>3
<1>4. After(f, n)
  <2>1. n \in Exists
    <3> HIDE DEF Exists, n
    <3>1. \A m \in 0..n : m < n /\ m \in Exists => m + 1 \in Exists
      BY <1>3
    <3>2. \A m \in 0..n : m \in Exists
      BY <1>0, <1>2, <3>1, UpTo
    <3> QED BY <1>0, <3>2
  <2> HIDE DEF After
  <2> QED BY <2>1
<1>5. f[0] = Start /\ \A m \in 0..n : m < n => f[m + 1] = Step(f[m], m + 1)
  <2> HIDE DEF f, Step, Start, n
  <2> QED BY <1>0, <1>4
<1> HIDE DEF f, n
<1>6. Kept(Start)
  BY DEF Pushed, In
<1>7. ASSUME NEW x, NEW i \in Nat \ {0}, Kept(x) PROVE Kept(Step(x, i))
  <2> DEFINE q == x.queue
             w == x.posted
  <2>1. q \in Seq(Register)
    BY <1>7 DEF Pushed
  <2>2. CASE i > Len(q) \/ Len(w) >= WrDepth
    BY <1>7, <2>2
  <2>3. CASE ~(i > Len(q) \/ Len(w) >= WrDepth)
    <3>1. q # << >>
      BY <2>1, <2>3, EmptySeq
    <3>2. /\ Pushed(regs, queue, posted, Append(Tail(q), Head(q)), w)
          /\ ~Sw!Cooling(regs[Head(q)]) =>
               Pushed(regs, queue, posted, Tail(q), Append(w, NewJob(regs, Head(q))))
      BY <1>7, <3>1, Turned
    <3> QED BY <2>3, <3>2
  <2> QED BY <2>2, <2>3
<1> HIDE DEF Step, Start, Kept
<1>8. 0 \in T
  BY <1>5, <1>6
<1>9. ASSUME NEW m \in 0..n, m < n, m \in T PROVE m + 1 \in T
  <2>1. Kept(f[m]) /\ f[m + 1] = Step(f[m], m + 1) /\ m + 1 \in Nat \ {0}
    BY <1>0, <1>5, <1>9
  <2> QED BY <1>7, <2>1
<1>10. n \in T
  <2> HIDE DEF T
  <2>1. \A m \in 0..n : m < n /\ m \in T => m + 1 \in T
    BY <1>9
  <2>2. \A m \in 0..n : m \in T
    BY <1>0, <1>8, <2>1, UpTo
  <2> QED BY <1>0, <2>2
<1>11. Kept(f[n])
  BY <1>0, <1>10
<1> QED BY <1>1, <1>11 DEF Kept

LEMMA PushedSound ==
  ASSUME RegisterAssumption, now \in Nat, NEW regs \in [Register -> RegisterRecord],
         NEW queue \in Seq(Register), NEW posted \in Seq(WriteJob), NEW m,
         WritesSound(regs, queue, posted, now, m), Sw!PushWrites(regs, queue, posted)
  PROVE  /\ queued_writes' \in Seq(Register) /\ posted_writes' \in Seq(WriteJob)
         /\ WritesSound(regs, queued_writes', posted_writes', now, m)
         /\ \A i \in 1..Len(posted_writes') :
              posted_writes'[i].phase = "applied" => In(posted_writes'[i], posted)
<1> DEFINE q == queued_writes'
           w == posted_writes'
<1>1. Pushed(regs, queue, posted, q, w)
  BY PushedWrites DEF WritesSound
<1> HIDE DEF q, w
<1>2. q \in Seq(Register) /\ w \in Seq(WriteJob) /\ Once(q, w)
  BY <1>1 DEF Pushed
<1>3. \A i \in 1..Len(q) : regs[q[i]].scheduled
  <2>1. ASSUME NEW i \in 1..Len(q) PROVE regs[q[i]].scheduled
    <3>1. PICK k \in 1..Len(queue) : queue[k] = q[i]
      BY <1>1 DEF Pushed, In
    <3> QED BY <3>1 DEF WritesSound
  <2> QED BY <2>1
<1>4. \A i \in 1..Len(w) : \/ In(w[i], posted)
                           \/ w[i].phase = "posted" /\ PostSound(w[i], regs, now, m)
  <2>1. ASSUME NEW i \in 1..Len(w), ~In(w[i], posted)
        PROVE  w[i].phase = "posted" /\ PostSound(w[i], regs, now, m)
    <3>1. PICK r \in Register : /\ In(r, queue) /\ ~Sw!Cooling(regs[r])
                                /\ w[i] = NewJob(regs, r)
      BY <1>1, <2>1 DEF Pushed
    <3>2. PICK k \in 1..Len(queue) : queue[k] = r
      BY <3>1 DEF In
    <3>3. regs[r] \in RegisterRecord /\ regs[r].scheduled
      BY <3>2 DEF WritesSound
    <3>4. \/ regs[r].last_write = Sw!None
          \/ regs[r].last_write + WriteCooldown <= now
      BY <3>1, <3>3 DEF Sw!Cooling, RegisterRecord, RegisterAssumption, Sw!None
    <3>5. /\ w[i].register = r /\ w[i].subslot = regs[r].remote_subslot
          /\ w[i].phase = "posted"
      BY <3>1 DEF NewJob
    <3> QED BY <3>3, <3>4, <3>5 DEF PostSound
  <2> QED BY <2>1
<1>5. ASSUME NEW i \in 1..Len(w) PROVE PostSound(w[i], regs, now, m)
  <2>1. CASE In(w[i], posted)
    BY <2>1 DEF In, WritesSound
  <2> QED BY <1>4, <2>1
<1>6. WritesSound(regs, q, w, now, m)
  BY <1>2, <1>3, <1>5 DEF WritesSound
<1>7. \A i \in 1..Len(w) : w[i].phase = "applied" => In(w[i], posted)
  BY <1>4
<1> QED BY <1>2, <1>6, <1>7 DEF q, w

-----------------------------------------------------------------------------
(* The writer's steps.  Besides what they keep, each says what the reader's *)
(* half of the invariant needs to know.                                     *)
Steady(regs, g) ==
  \A r \in Register :
    /\ Newest(g[r]) = Newest(regs[r]) /\ g[r].finished = regs[r].finished
    /\ g[r].last_write = regs[r].last_write

LEMMA WriteKept ==
  ASSUME RegisterAssumption, WriterInv, NEW r \in Register, NEW inc \in Nat, Sw!Write(r, inc)
  PROVE  WriterInv' /\ Steady(registers, registers')
         /\ \A i \in 1..Len(posted_writes') :
              posted_writes'[i].phase = "applied" => In(posted_writes'[i], posted_writes)
<1> DEFINE g == registers[r]
           new == [g EXCEPT !.scheduled = TRUE, !.incarnation = inc + 2,
                            !.remote_subslot = (@ + 1) % 2]
           regs == [registers EXCEPT ![r] = new]
           queue == Append(queued_writes, r)
<1>1. WriterTypes /\ g \in RegisterRecord /\ ~g.scheduled /\ inc + 2 > g.incarnation
  BY DEF WriterInv, WriterTypes, Sw!Write
<1>2. /\ now' = now /\ mem' = mem /\ registers' = regs
      /\ Sw!PushWrites(regs, queue, posted_writes)
  BY DEF Sw!Write
<1>3. /\ new \in RegisterRecord /\ new.scheduled /\ new.incarnation = inc + 2
      /\ new.remote_subslot = 1 - g.remote_subslot
      /\ new.last_write = g.last_write /\ new.finished = g.finished
  <2>1. g.remote_subslot = 0 \/ g.remote_subslot = 1
    BY <1>1 DEF RegisterRecord
  <2>2. (g.remote_subslot + 1) % 2 = 1 - g.remote_subslot
    BY <2>1
  <2> HIDE DEF g
  <2>3. 1 - g.remote_subslot \in 0..1
    BY <2>1
  <2>4. new = [g EXCEPT !.scheduled = TRUE, !.incarnation = inc + 2,
                        !.remote_subslot = 1 - g.remote_subslot]
    BY <1>1, <2>2 DEF RegisterRecord
  <2>5. inc + 2 \in Nat
    OBVIOUS
  <2> QED BY <1>1, <2>3, <2>4, <2>5 DEF RegisterRecord
<1>4. Newest(new) = Newest(g)
  <2> HIDE DEF new, g
  <2>1. g.remote_subslot = 0 \/ g.remote_subslot = 1
    BY <1>1 DEF RegisterRecord
  <2> QED BY <1>1, <1>3, <2>1 DEF Newest
<1>5. /\ regs \in [Register -> RegisterRecord] /\ regs[r] = new
      /\ \A s \in Register : s # r => regs[s] = registers[s]
  <2> HIDE DEF new
  <2> QED BY <1>1, <1>3 DEF WriterTypes
<1> HIDE DEF new, regs
<1>6. WritesSound(registers, queued_writes, posted_writes, now, mem)
  BY DEF WriterInv
<1>7. \A i \in 1..Len(queued_writes) : queued_writes[i] \in Register /\ queued_writes[i] # r
  BY <1>1, <1>6 DEF WritesSound, WriterTypes
<1>8. \A i \in 1..Len(posted_writes) :
        posted_writes[i].register \in Register /\ posted_writes[i].register # r
  <2>1. \A i \in 1..Len(posted_writes) : posted_writes[i] \in WriteJob
    BY <1>1 DEF WriterTypes
  <2> QED BY <1>1, <1>6, <2>1 DEF WritesSound, PostSound, WriteJob
<1>9. WritesSound(regs, queue, posted_writes, now, mem)
  <2> DEFINE n == Len(queued_writes)
  <2>1. /\ n \in Nat /\ queue \in Seq(Register) /\ Len(queue) = n + 1
        /\ \A i \in 1..n : queue[i] = queued_writes[i]
        /\ queue[n + 1] = r
    BY <1>1, AppendProperties, LenProperties DEF WriterTypes
  <2> HIDE DEF queue, n
  <2>2. \A i \in 1..Len(queue) :
          (i \in 1..n /\ queue[i] = queued_writes[i]) \/ (i = n + 1 /\ queue[i] = r)
    <3>1. ASSUME NEW i \in 1..Len(queue)
          PROVE  (i \in 1..n /\ queue[i] = queued_writes[i]) \/ (i = n + 1 /\ queue[i] = r)
      BY <2>1
    <3> QED BY <3>1
  <2>3. ASSUME NEW i \in 1..Len(queue), NEW j \in 1..Len(queue), i # j
        PROVE  queue[i] # queue[j]
    <3>1. \A k, l \in 1..n : k # l => queued_writes[k] # queued_writes[l]
      BY <1>6 DEF WritesSound, Once, n
    <3>2. \A k \in 1..n : queued_writes[k] # r
      BY <1>7 DEF n
    <3> QED BY <2>2, <2>3, <3>1, <3>2
  <2>4. ASSUME NEW i \in 1..Len(queue), NEW j \in 1..Len(posted_writes)
        PROVE  queue[i] # posted_writes[j].register
    <3>1. \A k \in 1..n : queued_writes[k] # posted_writes[j].register
      BY <1>6 DEF WritesSound, Once, n
    <3> QED BY <1>8, <2>2, <3>1
  <2>5. Once(queue, posted_writes)
    BY <1>6, <2>3, <2>4 DEF Once, WritesSound
  <2>6. \A i \in 1..Len(queue) : regs[queue[i]].scheduled
    <3>1. \A k \in 1..n : regs[queued_writes[k]].scheduled
      BY <1>5, <1>6, <1>7 DEF WritesSound, n
    <3> QED BY <1>3, <1>5, <2>2, <3>1
  <2>7. ASSUME NEW i \in 1..Len(posted_writes)
        PROVE  PostSound(posted_writes[i], regs, now, mem)
    <3>1. regs[posted_writes[i].register] = registers[posted_writes[i].register]
      BY <1>5, <1>8
    <3> QED BY <1>6, <3>1 DEF WritesSound, PostSound
  <2> QED BY <2>5, <2>6, <2>7 DEF WritesSound
<1>10. queue \in Seq(Register) /\ posted_writes \in Seq(WriteJob) /\ now \in Nat
  BY <1>1, AppendProperties DEF WriterTypes
<1> HIDE DEF queue
<1>11. /\ queued_writes' \in Seq(Register) /\ posted_writes' \in Seq(WriteJob)
       /\ WritesSound(regs, queued_writes', posted_writes', now, mem)
       /\ \A i \in 1..Len(posted_writes') :
            posted_writes'[i].phase = "applied" => In(posted_writes'[i], posted_writes)
  BY <1>2, <1>5, <1>9, <1>10, PushedSound
<1>12. ASSUME NEW s \in Register PROVE NewestSound(regs[s], now, mem[s])
  <2>1. NewestSound(registers[s], now, mem[s])
    BY DEF WriterInv
  <2>2. CASE s # r
    BY <1>5, <2>1, <2>2
  <2>3. CASE s = r
    BY <1>1, <1>3, <1>4, <1>5, <2>1, <2>3 DEF NewestSound
  <2> QED BY <2>2, <2>3
<1>13. Steady(registers, regs)
  <2>1. ASSUME NEW s \in Register
        PROVE  /\ Newest(regs[s]) = Newest(registers[s])
               /\ regs[s].finished = registers[s].finished
               /\ regs[s].last_write = registers[s].last_write
    BY <1>3, <1>4, <1>5
  <2> QED BY <2>1 DEF Steady
<1>14. WriterInv'
  BY <1>1, <1>2, <1>5, <1>11, <1>12 DEF WriterInv, WriterTypes
<1> QED BY <1>2, <1>11, <1>13, <1>14

LEMMA Suffix ==
  ASSUME NEW S, NEW s \in Seq(S), NEW n \in 0..Len(s)
  PROVE  /\ SubSeq(s, n + 1, Len(s)) \in Seq(S)
         /\ Len(SubSeq(s, n + 1, Len(s))) = Len(s) - n
         /\ \A i \in 1..(Len(s) - n) : SubSeq(s, n + 1, Len(s))[i] = s[n + i]
<1>1. Len(s) \in Nat /\ \A i \in 1..Len(s) : s[i] \in S
  BY LenProperties
<1>2. n + 1 \in Int /\ Len(s) \in Int /\ \A i \in (n + 1)..Len(s) : s[i] \in S
  BY <1>1
<1>3. /\ SubSeq(s, n + 1, Len(s)) \in Seq(S)
      /\ Len(SubSeq(s, n + 1, Len(s))) = IF n + 1 <= Len(s) THEN Len(s) - (n + 1) + 1 ELSE 0
      /\ \A i \in 1..(Len(s) - (n + 1) + 1) : SubSeq(s, n + 1, Len(s))[i] = s[n + 1 + i - 1]
  BY <1>2, SubSeqProperties
<1> DEFINE u == SubSeq(s, n + 1, Len(s))
<1> HIDE DEF u
<1>4. /\ Len(u) = Len(s) - n
      /\ \A i \in 1..(Len(s) - n) : u[i] = s[n + 1 + i - 1] /\ n + 1 + i - 1 = n + i
  BY <1>1, <1>3 DEF u
<1> QED BY <1>3, <1>4 DEF u

(* What a step of the writer, the card or the clock does to a reader.       *)
Moved(t, regs, posted, m, tt, g, w, mm) ==
  /\ t <= tt
  /\ \A r \in Register :
       /\ g[r].finished >= regs[r].finished /\ g[r].last_write >= regs[r].last_write
       /\ \/ Newest(g[r]) = Newest(regs[r])
          \/ /\ g[r].last_write = t /\ mm[r] = m[r]
             /\ \E i \in 1..Len(posted) : /\ posted[i].register = r
                                          /\ posted[i].phase = "applied"
                                          /\ posted[i].ended < t
       /\ \/ mm[r][1] = m[r][1]
          \/ regs[r].last_write = Sw!None \/ regs[r].last_write + WriteCooldown <= t
  /\ \A i \in 1..Len(w) : w[i].phase = "applied" => In(w[i], posted) \/ w[i].ended = t
Moves == Moved(now, registers, posted_writes, mem, now', registers', posted_writes', mem')

LEMMA WriteMoves ==
  ASSUME RegisterAssumption, WriterInv, NEW r \in Register, NEW inc \in Nat, Sw!Write(r, inc)
  PROVE  WriterInv' /\ Moves
<1>1. /\ WriterInv' /\ Steady(registers, registers')
      /\ \A i \in 1..Len(posted_writes') :
           posted_writes'[i].phase = "applied" => In(posted_writes'[i], posted_writes)
  BY WriteKept
<1>2. now' = now /\ mem' = mem /\ now \in Nat
  BY DEF Sw!Write, WriterInv, WriterTypes
<1>3. \A s \in Register : registers[s].finished \in Nat /\ registers[s].last_write \in Int
  <2>1. \A s \in Register : registers[s] \in RegisterRecord
    BY DEF WriterInv, WriterTypes
  <2> QED BY <2>1 DEF RegisterRecord, Sw!None
<1>4. ASSUME NEW s \in Register
      PROVE  /\ registers'[s].finished >= registers[s].finished
             /\ registers'[s].last_write >= registers[s].last_write
             /\ Newest(registers'[s]) = Newest(registers[s])
  BY <1>1, <1>3 DEF Steady
<1> QED BY <1>1, <1>2, <1>4 DEF Moves, Moved

LEMMA ClockMoves ==
  ASSUME RegisterAssumption, WriterInv, Sw!Clock PROVE WriterInv' /\ Moves
<1>1. /\ now' = now + 1 /\ now \in Nat /\ UNCHANGED <<registers, posted_writes, queued_writes, mem>>
  BY DEF Sw!Clock, WriterInv, WriterTypes, Sw!writer
<1>2. \A s \in Register : registers[s] \in RegisterRecord
  BY DEF WriterInv, WriterTypes
<1>3. \A s \in Register : registers[s].finished \in Nat /\ registers[s].last_write \in Int
  BY <1>2 DEF RegisterRecord, Sw!None
<1>4. WriterTypes'
  BY <1>1 DEF WriterInv, WriterTypes
<1>5. \A s \in Register : NewestSound(registers[s], now + 1, mem[s])
  BY <1>1, <1>3 DEF WriterInv, NewestSound
<1>6. ASSUME NEW i \in 1..Len(posted_writes)
      PROVE  PostSound(posted_writes[i], registers, now + 1, mem)
  <2>1. posted_writes[i] \in WriteJob
    BY DEF WriterInv, WriterTypes
  <2>2. posted_writes[i].register \in Register
    BY <2>1 DEF WriteJob
  <2>3. registers[posted_writes[i].register].last_write \in Int
    BY <1>3, <2>2
  <2>4. PostSound(posted_writes[i], registers, now, mem)
    BY DEF WriterInv, WritesSound
  <2> QED BY <1>1, <2>3, <2>4 DEF PostSound, RegisterAssumption
<1>7. WritesSound(registers, queued_writes, posted_writes, now + 1, mem)
  BY <1>6 DEF WriterInv, WritesSound
<1>8. WriterInv'
  BY <1>1, <1>4, <1>5, <1>7 DEF WriterInv
<1>9. Moves
  BY <1>1, <1>3 DEF Moves, Moved, In
<1> QED BY <1>8, <1>9

LEMMA WriterTickMoves ==
  ASSUME RegisterAssumption, WriterInv, Sw!WriterTick PROVE WriterInv' /\ Moves
<1> DEFINE posted == posted_writes
<1>1. PICK n \in 0..Len(posted) :
        /\ Sw!Completed(n)
        /\ LET over == {posted[i].register : i \in 1..n}
               regs == [r \in Register |->
                          IF r \in over
                          THEN [registers[r] EXCEPT !.last_write = now,
                                  !.scheduled = FALSE,
                                  !.finished = registers[r].incarnation - 2]
                          ELSE registers[r]]
           IN  /\ registers' = regs
               /\ Sw!PushWrites(regs, queued_writes, SubSeq(posted, n + 1, Len(posted)))
  BY DEF Sw!WriterTick
<1> DEFINE over == {posted[i].register : i \in 1..n}
           done(r) == [registers[r] EXCEPT !.last_write = now, !.scheduled = FALSE,
                                           !.finished = registers[r].incarnation - 2]
           regs == [r \in Register |-> IF r \in over THEN done(r) ELSE registers[r]]
           rest == SubSeq(posted, n + 1, Len(posted))
<1>2. /\ registers' = regs /\ Sw!PushWrites(regs, queued_writes, rest)
      /\ now' = now /\ mem' = mem
  BY <1>1 DEF Sw!WriterTick
<1>3. /\ WriterTypes /\ now \in Nat /\ Len(posted) \in Nat
      /\ \A i \in 1..Len(posted) : posted[i] \in WriteJob /\ posted[i].register \in Register
  <2>1. posted \in Seq(WriteJob)
    BY DEF WriterInv, WriterTypes
  <2> HIDE DEF posted
  <2>2. Len(posted) \in Nat /\ \A i \in 1..Len(posted) : posted[i] \in WriteJob
    BY <2>1, LenProperties
  <2>3. WriterTypes /\ now \in Nat
    BY DEF WriterInv, WriterTypes
  <2> QED BY <2>2, <2>3 DEF WriteJob
<1>4. \A i \in 1..n : i \in 1..Len(posted) /\ posted[i].phase = "applied" /\ posted[i].ended < now
  <2>1. \A i \in 1..n : i \in 1..Len(posted)
    BY <1>3
  <2>2. Sw!Completed(n)
    BY <1>1
  <2> QED BY <2>1, <2>2 DEF Sw!Completed
<1>5. WritesSound(registers, queued_writes, posted, now, mem)
  BY DEF WriterInv
<1> HIDE DEF posted
<1>6. ASSUME NEW r \in over
      PROVE  /\ r \in Register /\ registers[r].scheduled
             /\ mem[r][registers[r].remote_subslot] = registers[r].incarnation
             /\ \E i \in 1..Len(posted) : /\ posted[i].register = r
                                          /\ posted[i].phase = "applied"
                                          /\ posted[i].ended < now
  <2>1. PICK i \in 1..n : posted[i].register = r
    OBVIOUS
  <2>2. PostSound(posted[i], registers, now, mem)
    BY <1>4, <1>5 DEF WritesSound
  <2> QED BY <1>3, <1>4, <2>1, <2>2 DEF PostSound
<1>7. /\ rest \in Seq(WriteJob) /\ Len(rest) = Len(posted) - n
      /\ \A i \in 1..(Len(posted) - n) : rest[i] = posted[n + i]
  <2>1. posted \in Seq(WriteJob)
    BY <1>3 DEF WriterTypes, posted
  <2> QED BY <2>1, Suffix
<1>8. \A r \in Register : registers[r] \in RegisterRecord /\ NewestSound(registers[r], now, mem[r])
  BY <1>3 DEF WriterTypes, WriterInv
<1> HIDE DEF over, rest
<1>9. ASSUME NEW r \in over
      PROVE  /\ done(r) \in RegisterRecord /\ done(r).last_write = now
             /\ done(r).finished = registers[r].incarnation - 2
             /\ done(r).finished > registers[r].finished
             /\ done(r).incarnation = registers[r].incarnation
             /\ ~done(r).scheduled /\ done(r).remote_subslot = registers[r].remote_subslot
  <2> DEFINE g == registers[r]
  <2>1. g \in RegisterRecord /\ g.finished + 2 < g.incarnation
    BY <1>6, <1>8 DEF NewestSound
  <2> HIDE DEF g
  <2>2. g.finished \in Nat /\ g.incarnation \in Nat
    BY <2>1 DEF RegisterRecord
  <2>3. g.incarnation - 2 \in Nat /\ g.incarnation - 2 > g.finished
    BY <2>1, <2>2
  <2>4. done(r) = [g EXCEPT !.last_write = now, !.scheduled = FALSE,
                            !.finished = g.incarnation - 2]
    BY DEF g
  <2> HIDE DEF done
  <2> QED BY <1>3, <2>1, <2>3, <2>4 DEF RegisterRecord, g
<1> HIDE DEF done
<1>10. /\ regs \in [Register -> RegisterRecord]
       /\ \A r \in Register : regs[r] = IF r \in over THEN done(r) ELSE registers[r]
  BY <1>8, <1>9
<1> HIDE DEF regs
<1>11. \A i \in 1..Len(rest) : /\ n + i \in 1..Len(posted) /\ rest[i] = posted[n + i]
                               /\ rest[i].register \notin over
  <2>1. ASSUME NEW i \in 1..Len(rest)
        PROVE  n + i \in 1..Len(posted) /\ rest[i] = posted[n + i]
    BY <1>3, <1>7
  <2>2. ASSUME NEW i \in 1..Len(rest), NEW k \in 1..n PROVE posted[n + i].register # posted[k].register
    <3>1. n + i # k /\ k \in 1..Len(posted)
      BY <1>4
    <3> QED BY <1>5, <2>1, <3>1 DEF WritesSound, Once
  <2> QED BY <2>1, <2>2 DEF over
<1>12. WritesSound(regs, queued_writes, rest, now, mem)
  <2>1. Once(queued_writes, rest)
    <3>1. ASSUME NEW i \in 1..Len(rest), NEW j \in 1..Len(rest), i # j
          PROVE  rest[i].register # rest[j].register
      <4>1. n + i # n + j
        BY <3>1
      <4>2. \A k, l \in 1..Len(posted) : k # l => posted[k].register # posted[l].register
        BY <1>5 DEF WritesSound, Once
      <4>3. /\ n + i \in 1..Len(posted) /\ rest[i] = posted[n + i]
            /\ n + j \in 1..Len(posted) /\ rest[j] = posted[n + j]
        BY <1>11
      <4> QED BY <4>1, <4>2, <4>3
    <3>2. ASSUME NEW i \in 1..Len(queued_writes), NEW j \in 1..Len(rest)
          PROVE  queued_writes[i] # rest[j].register
      BY <1>5, <1>11 DEF WritesSound, Once
    <3> QED BY <1>5, <3>1, <3>2 DEF Once, WritesSound
  <2>2. ASSUME NEW i \in 1..Len(queued_writes) PROVE regs[queued_writes[i]].scheduled
    <3>1. queued_writes[i] \in Register
      BY <1>3 DEF WriterTypes
    <3>2. queued_writes[i] \notin over
      BY <1>4, <1>5 DEF WritesSound, Once, over
    <3> QED BY <1>5, <1>10, <3>1, <3>2 DEF WritesSound
  <2>3. ASSUME NEW i \in 1..Len(rest) PROVE PostSound(rest[i], regs, now, mem)
    <3>1. /\ n + i \in 1..Len(posted) /\ rest[i] = posted[n + i]
          /\ rest[i].register \notin over /\ rest[i].register \in Register
      BY <1>3, <1>11
    <3>2. PostSound(posted[n + i], registers, now, mem)
      BY <1>5, <3>1 DEF WritesSound
    <3>3. regs[rest[i].register] = registers[rest[i].register]
      BY <1>10, <3>1
    <3> QED BY <3>1, <3>2, <3>3 DEF PostSound
  <2> QED BY <2>1, <2>2, <2>3 DEF WritesSound
<1>13. /\ queued_writes' \in Seq(Register) /\ posted_writes' \in Seq(WriteJob)
       /\ WritesSound(regs, queued_writes', posted_writes', now, mem)
       /\ \A i \in 1..Len(posted_writes') :
            posted_writes'[i].phase = "applied" => In(posted_writes'[i], rest)
  <2>1. queued_writes \in Seq(Register)
    BY <1>3 DEF WriterTypes
  <2> QED BY <1>2, <1>3, <1>7, <1>10, <1>12, <2>1, PushedSound
<1>14. ASSUME NEW r \in Register PROVE NewestSound(regs[r], now, mem[r])
  <2>1. CASE r \notin over
    BY <1>8, <1>10, <2>1
  <2>2. CASE r \in over
    <3> DEFINE d == done(r)
               g == registers[r]
    <3>1. /\ d.last_write = now /\ d.finished = g.incarnation - 2 /\ g.incarnation \in Nat
          /\ d.incarnation = g.incarnation /\ ~d.scheduled
          /\ d.remote_subslot = g.remote_subslot /\ mem[r][g.remote_subslot] = g.incarnation
      BY <1>6, <1>8, <1>9, <2>2 DEF RegisterRecord
    <3>2. regs[r] = d
      BY <1>10, <2>2
    <3> HIDE DEF d, g
    <3>3. Newest(d) = g.remote_subslot
      BY <3>1 DEF Newest
    <3> QED BY <1>3, <3>1, <3>2, <3>3 DEF NewestSound
  <2> QED BY <2>1, <2>2
<1>15. WriterInv'
  BY <1>2, <1>3, <1>10, <1>13, <1>14 DEF WriterInv, WriterTypes
<1>16. ASSUME NEW r \in Register
       PROVE  /\ regs[r].finished >= registers[r].finished
              /\ regs[r].last_write >= registers[r].last_write
              /\ \/ Newest(regs[r]) = Newest(registers[r])
                 \/ /\ regs[r].last_write = now /\ mem[r] = mem[r]
                    /\ \E i \in 1..Len(posted) : /\ posted[i].register = r
                                                 /\ posted[i].phase = "applied"
                                                 /\ posted[i].ended < now
  <2>1. registers[r].finished \in Nat /\ registers[r].last_write \in Int /\ registers[r].last_write <= now
    BY <1>8 DEF RegisterRecord, Sw!None, NewestSound
  <2>2. CASE r \notin over
    BY <1>10, <2>1, <2>2
  <2>3. CASE r \in over
    <3>1. /\ regs[r].last_write = now /\ regs[r].finished > registers[r].finished
          /\ regs[r].finished \in Nat
      BY <1>9, <1>10, <2>3 DEF RegisterRecord
    <3> QED BY <1>3, <1>6, <2>1, <2>3, <3>1
  <2> QED BY <2>2, <2>3
<1>17. \A i \in 1..Len(posted_writes') :
         posted_writes'[i].phase = "applied" => In(posted_writes'[i], posted)
  BY <1>11, <1>13 DEF In
<1>18. Moves
  BY <1>2, <1>3, <1>16, <1>17 DEF Moves, Moved, posted
<1> QED BY <1>15, <1>18

LEMMA WriteMemoryMoves ==
  ASSUME RegisterAssumption, WriterInv, Sw!WriteMemory PROVE WriterInv' /\ Moves
<1> DEFINE posted == posted_writes
           n == Len(posted)
<1>1. /\ WriterTypes /\ now \in Nat /\ posted \in Seq(WriteJob)
      /\ \A r \in Register : NewestSound(registers[r], now, mem[r])
      /\ WritesSound(registers, queued_writes, posted, now, mem)
  BY DEF WriterInv, WriterTypes
<1>2. /\ now' = now /\ registers' = registers /\ queued_writes' = queued_writes
  BY DEF Sw!WriteMemory
<1>3. PICK i \in 1..n :
        LET w == posted[i] IN
        \/ /\ w.phase = "posted"
           /\ mem' = [mem EXCEPT ![w.register][w.subslot] = Sw!Damaged]
           /\ posted_writes' = [posted EXCEPT ![i].phase = "started"]
        \/ /\ w.phase = "started"
           /\ mem' = [mem EXCEPT ![w.register][w.subslot] = registers[w.register].incarnation]
           /\ posted_writes' = [posted EXCEPT ![i].phase = "applied", ![i].ended = now]
  <2>1. DOMAIN posted = 1..n
    BY <1>1, LenProperties
  <2> QED BY <2>1 DEF Sw!WriteMemory
<1> DEFINE w == posted[i]
           r == w.register
           v == mem'[r][w.subslot]
<1> HIDE DEF posted
<1>4. /\ n \in Nat /\ w \in WriteJob /\ \A k \in 1..n : posted[k] \in WriteJob
  BY <1>1, LenProperties
<1>5. r \in Register /\ w.subslot \in 0..1
  BY <1>4 DEF WriteJob
<1>6. registers[r] \in RegisterRecord /\ mem \in [Register -> [0..1 -> Int]]
  BY <1>1, <1>5 DEF WriterTypes
<1>7. PostSound(w, registers, now, mem)
  BY <1>1 DEF WritesSound
<1>8. PICK x \in WriteJob, y \in Int :
        /\ mem' = [mem EXCEPT ![r][w.subslot] = y]
        /\ posted_writes' = [posted EXCEPT ![i] = x]
        /\ x.register = r /\ x.subslot = w.subslot
        /\ x.phase = "applied" => x.ended = now /\ y = registers[r].incarnation
  <2>1. CASE w.phase = "posted"
    <3> DEFINE x == [w EXCEPT !.phase = "started"]
    <3>1. x \in WriteJob /\ x.register = r /\ x.subslot = w.subslot /\ x.phase # "applied"
      BY <1>4 DEF WriteJob, Phase
    <3>2. /\ mem' = [mem EXCEPT ![r][w.subslot] = Sw!Damaged]
          /\ posted_writes' = [posted EXCEPT ![i] = x]
      BY <1>3, <2>1
    <3>3. Sw!Damaged \in Int
      BY DEF Sw!Damaged
    <3> HIDE DEF x, w
    <3> QED BY <3>1, <3>2, <3>3
  <2>2. CASE w.phase = "started"
    <3> DEFINE x == [w EXCEPT !.phase = "applied", !.ended = now]
               y == registers[r].incarnation
    <3>1. x \in WriteJob /\ x.register = r /\ x.subslot = w.subslot /\ x.ended = now
      BY <1>1, <1>4 DEF WriteJob, Phase
    <3>2. /\ mem' = [mem EXCEPT ![r][w.subslot] = y]
          /\ posted_writes' = [posted EXCEPT ![i] = x]
      BY <1>3, <2>2
    <3>3. y \in Int
      BY <1>6 DEF RegisterRecord
    <3> HIDE DEF x, w
    <3> QED BY <3>1, <3>2, <3>3
  <2> QED BY <1>3, <2>1, <2>2
<1>9. /\ mem' \in [Register -> [0..1 -> Int]] /\ mem'[r][w.subslot] = y
      /\ \A s \in Register, b \in 0..1 : s # r \/ b # w.subslot => mem'[s][b] = mem[s][b]
  <2> HIDE DEF w
  <2> DEFINE c == [mem[r] EXCEPT ![w.subslot] = y]
  <2>1. mem[r] \in [0..1 -> Int]
    BY <1>5, <1>6
  <2>2. /\ c \in [0..1 -> Int] /\ c[w.subslot] = y
        /\ \A b \in 0..1 : b # w.subslot => c[b] = mem[r][b]
    BY <1>5, <2>1
  <2>3. mem' = [mem EXCEPT ![r] = c]
    BY <1>8
  <2> HIDE DEF c
  <2>4. mem'[r] = c /\ \A s \in Register : s # r => mem'[s] = mem[s]
    BY <1>5, <1>6, <2>3
  <2>5. mem' \in [Register -> [0..1 -> Int]]
    BY <1>5, <1>6, <2>2, <2>3
  <2> QED BY <2>2, <2>4, <2>5
<1>10. /\ posted_writes' \in Seq(WriteJob) /\ Len(posted_writes') = n
       /\ \A k \in 1..n : posted_writes'[k] = IF k = i THEN x ELSE posted[k]
  <2> HIDE DEF w
  <2> QED BY <1>1, <1>8, ExceptSeq
<1> HIDE DEF n
<1>11. \A k \in 1..n : posted_writes'[k].register = posted[k].register
  BY <1>8, <1>10
<1>12. \A k \in 1..n : k # i => posted[k].register # r
  BY <1>1 DEF WritesSound, Once, n
<1>13. WritesSound(registers, queued_writes, posted_writes', now, mem')
  <2>1. Once(queued_writes, posted_writes')
    <3>1. Once(queued_writes, posted)
      BY <1>1 DEF WritesSound
    <3>2. Len(posted_writes') = n
      BY <1>10
    <3> QED BY <1>11, <3>1, <3>2 DEF Once, n
  <2>2. ASSUME NEW k \in 1..n PROVE PostSound(posted_writes'[k], registers, now, mem')
    <3>1. CASE k = i
      <4>1. posted_writes'[k] = x
        BY <1>10, <3>1
      <4>2. mem'[x.register][x.subslot] = y
        BY <1>8, <1>9
      <4> HIDE DEF w, r
      <4>3. /\ x.register = r /\ x.subslot = w.subslot /\ w.register = r
            /\ x.phase = "applied" => x.ended = now /\ y = registers[r].incarnation
        BY <1>8 DEF w, r
      <4>4. now <= now
        BY <1>1
      <4> QED BY <1>1, <1>7, <4>1, <4>2, <4>3, <4>4 DEF PostSound
    <3>2. CASE k # i
      <4>1. posted_writes'[k] = posted[k] /\ posted[k].register # r
        BY <1>10, <1>12, <3>2
      <4>2. posted[k].register \in Register /\ posted[k].subslot \in 0..1
        BY <1>4 DEF WriteJob, n
      <4>3. mem'[posted[k].register][posted[k].subslot] = mem[posted[k].register][posted[k].subslot]
        BY <1>9, <4>1, <4>2
      <4>4. PostSound(posted[k], registers, now, mem)
        BY <1>1 DEF WritesSound, n
      <4> QED BY <4>1, <4>3, <4>4 DEF PostSound
    <3> QED BY <3>1, <3>2
  <2> QED BY <1>1, <1>10, <2>1, <2>2 DEF WritesSound, n
<1>14. ASSUME NEW s \in Register PROVE NewestSound(registers[s], now, mem'[s])
  <2>1. NewestSound(registers[s], now, mem[s]) /\ registers[s] \in RegisterRecord
    BY <1>1 DEF WriterTypes
  <2>2. Newest(registers[s]) \in 0..1
    <3> DEFINE b == registers[s].remote_subslot
    <3>1. b = 0 \/ b = 1
      BY <2>1 DEF RegisterRecord
    <3> QED BY <3>1 DEF Newest
  <2>3. s # r \/ Newest(registers[s]) # w.subslot
    <3>1. ASSUME s = r PROVE Newest(registers[s]) # w.subslot
      <4>1. registers[r].scheduled /\ w.subslot = registers[r].remote_subslot
        BY <1>7 DEF PostSound
      <4> HIDE DEF w, r
      <4> QED BY <1>5, <3>1, <4>1 DEF Newest
    <3> QED BY <3>1
  <2>4. mem'[s][Newest(registers[s])] = mem[s][Newest(registers[s])]
    BY <1>9, <2>2, <2>3
  <2> QED BY <2>1, <2>4 DEF NewestSound
<1>15. WriterInv'
  BY <1>1, <1>2, <1>9, <1>10, <1>13, <1>14 DEF WriterInv, WriterTypes
<1>16. ASSUME NEW s \in Register
       PROVE  /\ registers[s].finished >= registers[s].finished
              /\ registers[s].last_write >= registers[s].last_write
              /\ \/ mem'[s][1] = mem[s][1]
                 \/ registers[s].last_write = Sw!None
                 \/ registers[s].last_write + WriteCooldown <= now
  <2>1. registers[s].finished \in Nat /\ registers[s].last_write \in Int
    <3>1. registers[s] \in RegisterRecord
      BY <1>1 DEF WriterTypes
    <3> QED BY <3>1 DEF RegisterRecord, Sw!None
  <2>2. CASE s # r
    BY <1>9, <2>1, <2>2
  <2>3. CASE s = r
    BY <1>7, <2>1, <2>3 DEF PostSound
  <2> QED BY <2>2, <2>3
<1>17. ASSUME NEW k \in 1..n, posted_writes'[k].phase = "applied"
       PROVE  In(posted_writes'[k], posted) \/ posted_writes'[k].ended = now
  <2>1. CASE k = i
    BY <1>8, <1>10, <1>17, <2>1
  <2>2. CASE k # i
    BY <1>10, <2>2 DEF In, n
  <2> QED BY <2>1, <2>2
<1>18. Moves
  BY <1>1, <1>2, <1>10, <1>16, <1>17 DEF Moves, Moved, posted
<1> QED BY <1>15, <1>18

(* A read in flight stays sound when the writer moves. *)
LEMMA FetchMoved ==
  ASSUME RegisterAssumption, NEW o \in Fetch, NEW fl \in [Handle -> Nat],
         NEW t \in Nat, NEW tt \in Nat,
         NEW regs \in [Register -> RegisterRecord], NEW g \in [Register -> RegisterRecord],
         NEW posted, NEW w, NEW m \in [Register -> [0..1 -> Int]],
         NEW mm \in [Register -> [0..1 -> Int]],
         \A i \in 1..Len(posted) : posted[i] \in WriteJob,
         \A i \in 1..Len(w) : w[i] \in WriteJob,
         \A r \in Register : NewestSound(regs[r], t, m[r]),
         Moved(t, regs, posted, m, tt, g, w, mm),
         FetchSound(o, fl, regs, posted, t, m)
  PROVE  FetchSound(o, fl, g, w, tt, mm)
<1> DEFINE r == o.register
           e == o.ended
           f == fl[o.handle]
<1>1. /\ r \in Register /\ o.handle \in Handle /\ o.start \in Nat /\ e \in Int
      /\ f \in Nat /\ WriteCooldown \in Nat
  BY DEF Fetch, Sw!None, RegisterAssumption
<1>2. /\ regs[r].finished \in Nat /\ regs[r].last_write \in Int
      /\ g[r].finished \in Nat /\ g[r].last_write \in Int
  <2>1. regs[r] \in RegisterRecord /\ g[r] \in RegisterRecord
    BY <1>1
  <2> HIDE DEF r
  <2> QED BY <2>1 DEF RegisterRecord, Sw!None
<1>3. /\ t <= tt
      /\ g[r].finished >= regs[r].finished /\ g[r].last_write >= regs[r].last_write
      /\ \/ Newest(g[r]) = Newest(regs[r])
         \/ /\ g[r].last_write = t /\ mm[r] = m[r]
            /\ \E i \in 1..Len(posted) : /\ posted[i].register = r
                                         /\ posted[i].phase = "applied"
                                         /\ posted[i].ended < t
      /\ \/ mm[r][1] = m[r][1]
         \/ regs[r].last_write = Sw!None \/ regs[r].last_write + WriteCooldown <= t
      /\ \A i \in 1..Len(w) : w[i].phase = "applied" => In(w[i], posted) \/ w[i].ended = t
  BY <1>1 DEF Moved
<1>4. /\ f <= regs[r].finished /\ o.start <= t
      /\ o.fetched > 0 => e \in Nat /\ o.start <= e /\ e <= t
      /\ o.fetched = 1 => \/ Shows(o, 0, fl) \/ Protected(o, regs, posted)
                          \/ CoolingDown(o, fl, regs, m) \/ t > e + WriteCooldown
      /\ o.fetched = 2 => \/ Shows(o, 0, fl) \/ Shows(o, 1, fl)
                          \/ e > o.start + WriteCooldown
  BY DEF FetchSound
<1>5. ASSUME o.fetched = 1
      PROVE  \/ Shows(o, 0, fl) \/ Protected(o, g, w) \/ CoolingDown(o, fl, g, mm)
             \/ tt > e + WriteCooldown
  <2>0. e \in Nat /\ e <= t
    BY <1>4, <1>5
  <2>1. CASE Protected(o, regs, posted)
    <3>1. CASE Newest(g[r]) = Newest(regs[r])
      <4>1. ASSUME NEW i \in 1..Len(w), w[i].register = r, w[i].phase = "applied"
            PROVE  w[i].ended >= e
        <5>1. CASE In(w[i], posted)
          BY <2>1, <4>1, <5>1 DEF In, Protected
        <5>2. CASE w[i].ended = t
          BY <2>0, <5>2
        <5> QED BY <1>3, <4>1, <5>1, <5>2
      <4> QED BY <2>1, <3>1, <4>1 DEF Protected
    <3>2. ASSUME g[r].last_write = t, mm[r] = m[r],
                 NEW i \in 1..Len(posted), posted[i].register = r,
                 posted[i].phase = "applied", posted[i].ended < t
          PROVE  CoolingDown(o, fl, g, mm)
      <4>1. posted[i].ended >= e /\ posted[i].ended \in Int
        BY <2>1, <3>2 DEF Protected, WriteJob, Sw!None
      <4>2. m[r][1] = regs[r].finished + 2
        BY <1>1, <2>1 DEF Protected, NewestSound
      <4>3. t > e
        BY <1>1, <3>2, <4>1
      <4>4. mm[r][1] = regs[r].finished + 2 /\ f <= regs[r].finished
        BY <1>4, <3>2, <4>2
      <4>5. mm[r][1] >= f + 2
        <5> HIDE DEF r, f
        <5> QED BY <1>1, <1>2, <4>4
      <4> QED BY <3>2, <4>3, <4>5 DEF CoolingDown
    <3> QED BY <1>3, <3>1, <3>2
  <2>2. CASE CoolingDown(o, fl, regs, m)
    <3>1. regs[r].last_write > e /\ m[r][1] >= f + 2
      BY <2>2 DEF CoolingDown
    <3>2. g[r].last_write > e
      <4> HIDE DEF r, e, f
      <4> QED BY <1>1, <1>2, <1>3, <3>1
    <3>3. CASE mm[r][1] = m[r][1]
      BY <3>1, <3>2, <3>3 DEF CoolingDown
    <3>4. CASE regs[r].last_write + WriteCooldown <= t
      <4>1. t <= tt /\ e \in Int /\ regs[r].last_write \in Int /\ WriteCooldown \in Nat
        BY <1>1, <1>2, <1>3
      <4> HIDE DEF e, r, f
      <4>2. tt > e + WriteCooldown
        BY <3>1, <3>4, <4>1
      <4> QED BY <4>2
    <3>5. regs[r].last_write # Sw!None
      BY <2>0, <3>1 DEF Sw!None
    <3> QED BY <1>3, <3>3, <3>4, <3>5
  <2>3. CASE t > e + WriteCooldown
    BY <1>1, <1>3, <2>0, <2>3
  <2> QED BY <1>4, <1>5, <2>1, <2>2, <2>3
<1>6. /\ f <= g[r].finished /\ o.start <= tt
      /\ o.fetched > 0 => e \in Nat /\ o.start <= e /\ e <= tt
  <2> HIDE DEF r, e, f
  <2>1. f <= g[r].finished
    BY <1>1, <1>2, <1>3, <1>4
  <2>2. o.start <= tt
    BY <1>1, <1>3, <1>4
  <2>3. o.fetched > 0 => e \in Nat /\ o.start <= e /\ e <= tt
    BY <1>1, <1>3, <1>4
  <2> QED BY <2>1, <2>2, <2>3
<1> QED BY <1>4, <1>5, <1>6 DEF FetchSound

LEMMA WriterMoves ==
  ASSUME RegisterAssumption, RegisterInv, WriterInv', Moves, UNCHANGED <<Sw!reader, alarm>>
  PROVE  RegisterInv'
<1>1. /\ WriterTypes /\ WriterTypes' /\ ReaderTypes
      /\ \A r \in Register : NewestSound(registers[r], now, mem[r])
  BY DEF RegisterInv, WriterInv, ReaderInv
<1>2. /\ \A i \in 1..Len(outstanding_reads) : outstanding_reads[i] \in Fetch
      /\ \A i \in 1..Len(queued_reads) : queued_reads[i] \in ReadJob
      /\ floor \in [Handle -> Nat]
  BY <1>1 DEF ReaderTypes
<1>3. /\ now \in Nat /\ now' \in Nat
      /\ registers \in [Register -> RegisterRecord] /\ registers' \in [Register -> RegisterRecord]
      /\ mem \in [Register -> [0..1 -> Int]] /\ mem' \in [Register -> [0..1 -> Int]]
      /\ \A i \in 1..Len(posted_writes) : posted_writes[i] \in WriteJob
      /\ \A i \in 1..Len(posted_writes') : posted_writes'[i] \in WriteJob
  BY <1>1 DEF WriterTypes
<1>4. /\ Moved(now, registers, posted_writes, mem, now', registers', posted_writes', mem')
      /\ ReadsSound(queued_reads, outstanding_reads, floor, registers, posted_writes, now, mem)
  BY DEF Moves, RegisterInv, ReaderInv
<1>5. ASSUME NEW i \in 1..Len(outstanding_reads)
      PROVE  FetchSound(outstanding_reads[i], floor, registers', posted_writes', now', mem')
  <2>1. FetchSound(outstanding_reads[i], floor, registers, posted_writes, now, mem)
    BY <1>4 DEF ReadsSound
  <2> QED BY <1>1, <1>2, <1>3, <1>4, <2>1, FetchMoved
<1>6. ASSUME NEW i \in 1..Len(queued_reads)
      PROVE  FloorSound(queued_reads[i], floor, registers')
  <2> DEFINE q == queued_reads[i]
  <2>1. q.register \in Register /\ q.handle \in Handle
    BY <1>2 DEF ReadJob
  <2>2. /\ registers[q.register] \in RegisterRecord /\ registers'[q.register] \in RegisterRecord
        /\ floor[q.handle] \in Nat
    BY <1>2, <1>3, <2>1
  <2>3. /\ registers[q.register].finished \in Nat /\ registers'[q.register].finished \in Nat
    BY <2>2 DEF RegisterRecord
  <2>4. registers'[q.register].finished >= registers[q.register].finished
    BY <1>4, <2>1 DEF Moved
  <2>5. floor[q.handle] <= registers[q.register].finished
    BY <1>4 DEF ReadsSound, FloorSound
  <2> QED BY <2>2, <2>3, <2>4, <2>5 DEF FloorSound
<1>7. ReadsSound(queued_reads, outstanding_reads, floor, registers', posted_writes', now', mem')
  BY <1>5, <1>6 DEF ReadsSound
<1> QED BY <1>1, <1>7 DEF RegisterInv, ReaderInv, ReaderTypes, Sw!NoFalseAlarm, Sw!QuickReadsAreFresh, Sw!reader

-----------------------------------------------------------------------------
(* The reader's steps. *)
ReadsInv(queue, outstanding, pool, completed, fl) ==
  /\ queue \in Seq(ReadJob) /\ outstanding \in Seq(Fetch)
  /\ HandlesOnce(queue, outstanding, pool, completed)
  /\ ReadsSound(queue, outstanding, fl, registers, posted_writes, now, mem)

LEMMA PushedReads ==
  ASSUME RegisterAssumption, WriterInv, NEW queue, NEW outstanding, NEW pool, NEW completed,
         NEW fl \in [Handle -> Nat], ReadsInv(queue, outstanding, pool, completed, fl),
         Len(outstanding) <= WrDepth, Sw!PushReads(queue, outstanding)
  PROVE  /\ ReadsInv(queued_reads', outstanding_reads', pool, completed, fl)
         /\ Len(outstanding_reads') <= WrDepth
<1> DEFINE room == WrDepth - Len(outstanding)
           n == IF Len(queue) < room THEN Len(queue) ELSE room
           Post(q) == [handle |-> q.handle, register |-> q.register, start |-> now,
                       fetched |-> 0, subslot |-> [s \in 0..1 |-> Sw!NotYet], ended |-> Sw!None]
           new == [i \in 1..n |-> Post(queue[i])]
           l == Len(outstanding)
           u == queued_reads'
           v == outstanding_reads'
<1>1. u = SubSeq(queue, n + 1, Len(queue)) /\ v = outstanding \o new
  BY DEF Sw!PushReads
<1>2. /\ queue \in Seq(ReadJob) /\ outstanding \in Seq(Fetch)
      /\ HandlesOnce(queue, outstanding, pool, completed)
      /\ ReadsSound(queue, outstanding, fl, registers, posted_writes, now, mem)
      /\ now \in Nat /\ WrDepth \in Nat
  BY DEF ReadsInv, WriterInv, WriterTypes, RegisterAssumption
<1>3. /\ Len(queue) \in Nat /\ l \in Nat /\ n \in 0..Len(queue) /\ l + n <= WrDepth
      /\ \A i \in 1..Len(queue) : queue[i] \in ReadJob
  BY <1>2, LenProperties
<1> HIDE DEF n
<1>4. \A i \in 1..n : Post(queue[i]) \in Fetch
  <2>1. ASSUME NEW i \in 1..n PROVE Post(queue[i]) \in Fetch
    <3>1. queue[i] \in ReadJob
      BY <1>3
    <3>2. [s \in 0..1 |-> Sw!NotYet] \in [0..1 -> Int]
      BY DEF Sw!NotYet
    <3> QED BY <1>2, <3>1, <3>2 DEF ReadJob, Fetch
  <2> QED BY <2>1
<1>5. new \in Seq(Fetch) /\ Len(new) = n /\ \A i \in 1..n : new[i] = Post(queue[i])
  <2> HIDE DEF Post
  <2>1. n \in Nat /\ new \in [1..n -> Fetch]
    BY <1>3, <1>4
  <2>2. new \in Seq(Fetch) /\ Len(new) = n
    BY <2>1, LenProperties, SeqDef
  <2> QED BY <2>2
<1>6. /\ u \in Seq(ReadJob) /\ Len(u) = Len(queue) - n
      /\ \A i \in 1..Len(u) : u[i] = queue[n + i]
  <2> HIDE DEF u
  <2> QED BY <1>1, <1>2, <1>3, Suffix
<1> HIDE DEF new, Post
<1>7. /\ v \in Seq(Fetch) /\ Len(v) = l + n
      /\ \A i \in 1..(l + n) : v[i] = IF i <= l THEN outstanding[i] ELSE new[i - l]
  <2> HIDE DEF v
  <2> QED BY <1>1, <1>2, <1>5, ConcatProperties
<1> HIDE DEF u, v, l
<1>8. \A i \in 1..Len(v) :
        \/ i \in 1..l /\ v[i] = outstanding[i]
        \/ i - l \in 1..n /\ v[i] = Post(queue[i - l])
  <2>1. ASSUME NEW i \in 1..Len(v)
        PROVE  \/ i \in 1..l /\ v[i] = outstanding[i]
               \/ i - l \in 1..n /\ v[i] = Post(queue[i - l])
    <3>1. CASE i <= l
      BY <1>3, <1>7, <3>1
    <3>2. CASE ~(i <= l)
      <4>1. i - l \in 1..n /\ v[i] = new[i - l]
        BY <1>3, <1>7, <3>2
      <4> QED BY <1>5, <4>1
    <3> QED BY <3>1, <3>2
  <2> QED BY <2>1
<1>9. \A i \in 1..Len(u) : n + i \in 1..Len(queue) /\ u[i] = queue[n + i]
  BY <1>3, <1>6
<1>10. \A q : /\ Post(q).handle = q.handle /\ Post(q).register = q.register
              /\ Post(q).start = now /\ Post(q).fetched = 0
  BY DEF Post
<1>11. \A i \in 1..Len(v) :
         \/ i \in 1..l /\ v[i].handle = outstanding[i].handle
         \/ i - l \in 1..n /\ v[i].handle = queue[i - l].handle
  BY <1>8, <1>10
<1>12. HandlesOnce(u, v, pool, completed)
  <2>1. \A i \in 1..Len(u) : InUse(u[i].handle, pool, completed)
    BY <1>2, <1>9 DEF HandlesOnce
  <2>2. \A i \in 1..Len(v) : InUse(v[i].handle, pool, completed)
    <3>1. \A i \in 1..l : InUse(outstanding[i].handle, pool, completed)
      BY <1>2 DEF HandlesOnce, l
    <3>2. \A i \in 1..n : InUse(queue[i].handle, pool, completed)
      BY <1>2, <1>3 DEF HandlesOnce
    <3> QED BY <1>11, <3>1, <3>2
  <2>3. ASSUME NEW i \in 1..Len(u), NEW j \in 1..Len(u), i # j
        PROVE  u[i].handle # u[j].handle
    <3>1. n + i # n + j
      BY <1>3, <2>3
    <3> QED BY <1>2, <1>9, <3>1 DEF HandlesOnce
  <2>4. \A i \in 1..n : i \in 1..Len(queue)
    BY <1>3
  <2>5. ASSUME NEW i \in 1..Len(v), NEW j \in 1..Len(v), i # j
        PROVE  v[i].handle # v[j].handle
    <3>1. \A a, b \in 1..l : a # b => outstanding[a].handle # outstanding[b].handle
      BY <1>2 DEF HandlesOnce, l
    <3>2. \A a, b \in 1..n : a # b => queue[a].handle # queue[b].handle
      BY <1>2, <2>4 DEF HandlesOnce
    <3>3. \A a \in 1..n, b \in 1..l : queue[a].handle # outstanding[b].handle
      BY <1>2, <2>4 DEF HandlesOnce, l
    <3>4. i - l # j - l
      BY <1>3, <2>5
    <3> QED BY <1>11, <2>5, <3>1, <3>2, <3>3, <3>4
  <2>6. ASSUME NEW i \in 1..Len(u), NEW j \in 1..Len(v) PROVE u[i].handle # v[j].handle
    <3>1. \A b \in 1..l : u[i].handle # outstanding[b].handle
      <4>1. n + i \in 1..Len(queue) /\ u[i] = queue[n + i]
        BY <1>9
      <4>2. \A a \in 1..Len(queue), b \in 1..l : queue[a].handle # outstanding[b].handle
        BY <1>2 DEF HandlesOnce, l
      <4> QED BY <4>1, <4>2
    <3>2. ASSUME NEW a \in 1..n PROVE u[i].handle # queue[a].handle
      <4>1. n + i # a /\ a \in 1..Len(queue)
        BY <1>3
      <4>2. n + i \in 1..Len(queue) /\ u[i] = queue[n + i]
        BY <1>9
      <4>3. \A k, b \in 1..Len(queue) : k # b => queue[k].handle # queue[b].handle
        BY <1>2 DEF HandlesOnce
      <4> QED BY <4>1, <4>2, <4>3
    <3> QED BY <1>11, <3>1, <3>2
  <2> QED BY <1>2, <2>1, <2>2, <2>3, <2>5, <2>6 DEF HandlesOnce
<1>13. ReadsSound(u, v, fl, registers, posted_writes, now, mem)
  <2>1. \A i \in 1..Len(u) : FloorSound(u[i], fl, registers)
    BY <1>2, <1>9 DEF ReadsSound
  <2>2. ASSUME NEW i \in 1..Len(v)
        PROVE  FetchSound(v[i], fl, registers, posted_writes, now, mem)
    <3>1. CASE i \in 1..l /\ v[i] = outstanding[i]
      BY <1>2, <3>1 DEF ReadsSound, l
    <3>2. CASE i - l \in 1..n /\ v[i] = Post(queue[i - l])
      <4> DEFINE q == queue[i - l]
      <4>1. FloorSound(q, fl, registers)
        BY <1>2, <1>3, <3>2 DEF ReadsSound
      <4> HIDE DEF q
      <4>2. /\ v[i].handle = q.handle /\ v[i].register = q.register
            /\ v[i].start = now /\ v[i].fetched = 0
        BY <1>10, <3>2 DEF q
      <4> QED BY <1>2, <4>1, <4>2 DEF FloorSound, FetchSound
    <3> QED BY <1>8, <3>1, <3>2
  <2> QED BY <2>1, <2>2 DEF ReadsSound
<1>14. ReadsInv(u, v, pool, completed, fl) /\ Len(v) <= WrDepth
  BY <1>3, <1>6, <1>7, <1>12, <1>13 DEF ReadsInv
<1> QED BY <1>14 DEF u, v

\* A job joins the queue.
LEMMA Queued ==
  ASSUME WriterInv, NEW queue, NEW outstanding, NEW pool, NEW completed,
         NEW fl \in [Handle -> Nat], ReadsInv(queue, outstanding, pool, completed, fl),
         NEW q \in ReadJob, InUse(q.handle, pool, completed), FloorSound(q, fl, registers),
         \A i \in 1..Len(queue) : queue[i].handle # q.handle,
         \A i \in 1..Len(outstanding) : outstanding[i].handle # q.handle
  PROVE  ReadsInv(Append(queue, q), outstanding, pool, completed, fl)
<1> DEFINE n == Len(queue)
           u == Append(queue, q)
<1>1. /\ queue \in Seq(ReadJob) /\ HandlesOnce(queue, outstanding, pool, completed)
      /\ ReadsSound(queue, outstanding, fl, registers, posted_writes, now, mem)
  BY DEF ReadsInv
<1>2. /\ n \in Nat /\ u \in Seq(ReadJob) /\ Len(u) = n + 1
      /\ \A i \in 1..n : u[i] = queue[i]
      /\ u[n + 1] = q
  BY <1>1, AppendProperties, LenProperties
<1> HIDE DEF u, n
<1>3. \A i \in 1..Len(u) : (i \in 1..n /\ u[i] = queue[i]) \/ (i = n + 1 /\ u[i] = q)
  <2>1. ASSUME NEW i \in 1..Len(u)
        PROVE  (i \in 1..n /\ u[i] = queue[i]) \/ (i = n + 1 /\ u[i] = q)
    BY <1>2
  <2> QED BY <2>1
<1>4. ASSUME NEW i \in 1..Len(u)
      PROVE  InUse(u[i].handle, pool, completed) /\ FloorSound(u[i], fl, registers)
  BY <1>1, <1>3 DEF HandlesOnce, ReadsSound, n
<1>5. ASSUME NEW i \in 1..Len(u), NEW j \in 1..Len(u), i # j PROVE u[i].handle # u[j].handle
  <2>1. \A a, b \in 1..n : a # b => queue[a].handle # queue[b].handle
    BY <1>1 DEF HandlesOnce, n
  <2>2. \A a \in 1..n : queue[a].handle # q.handle
    BY DEF n
  <2> QED BY <1>3, <1>5, <2>1, <2>2
<1>6. ASSUME NEW i \in 1..Len(u), NEW j \in 1..Len(outstanding)
      PROVE  u[i].handle # outstanding[j].handle
  <2>1. \A a \in 1..n : queue[a].handle # outstanding[j].handle
    BY <1>1 DEF HandlesOnce, n
  <2> QED BY <1>3, <2>1
<1>7. HandlesOnce(u, outstanding, pool, completed)
  BY <1>1, <1>4, <1>5, <1>6 DEF HandlesOnce
<1>8. ReadsSound(u, outstanding, fl, registers, posted_writes, now, mem)
  BY <1>1, <1>4 DEF ReadsSound
<1> QED BY <1>2, <1>7, <1>8 DEF ReadsInv, u

\* The oldest read is taken off the queue pair.
LEMMA Polled ==
  ASSUME WriterInv, NEW queue, NEW outstanding, NEW pool, NEW completed,
         NEW fl \in [Handle -> Nat], ReadsInv(queue, outstanding, pool, completed, fl),
         outstanding # << >>
  PROVE  LET o == Head(outstanding) IN
         /\ o \in Fetch /\ InUse(o.handle, pool, completed)
         /\ FetchSound(o, fl, registers, posted_writes, now, mem)
         /\ ReadsInv(queue, Tail(outstanding), pool, completed, fl)
         /\ Len(Tail(outstanding)) = Len(outstanding) - 1
         /\ \A i \in 1..Len(queue) : queue[i].handle # o.handle
         /\ \A i \in 1..Len(Tail(outstanding)) : Tail(outstanding)[i].handle # o.handle
<1> DEFINE n == Len(outstanding)
           o == Head(outstanding)
           u == Tail(outstanding)
<1>1. /\ outstanding \in Seq(Fetch) /\ queue \in Seq(ReadJob)
      /\ HandlesOnce(queue, outstanding, pool, completed)
      /\ ReadsSound(queue, outstanding, fl, registers, posted_writes, now, mem)
  BY DEF ReadsInv
<1>2. /\ o \in Fetch /\ o = outstanding[1] /\ n \in Nat \ {0} /\ u \in Seq(Fetch)
      /\ Len(u) = n - 1 /\ \A i \in 1..Len(u) : u[i] = outstanding[i + 1]
  BY <1>1, HeadTailProperties, EmptySeq
<1> HIDE DEF o, u, n
<1>3. 1 \in 1..n /\ \A i \in 1..Len(u) : i + 1 \in 1..n /\ i + 1 # 1
  BY <1>2
<1>4. InUse(o.handle, pool, completed) /\ FetchSound(o, fl, registers, posted_writes, now, mem)
  BY <1>1, <1>2, <1>3 DEF HandlesOnce, ReadsSound, n
<1>5. \A i \in 1..Len(queue) : queue[i].handle # o.handle
  BY <1>1, <1>2, <1>3 DEF HandlesOnce, n
<1>6. \A i \in 1..Len(u) : u[i].handle # o.handle
  <2>1. \A a, b \in 1..n : a # b => outstanding[a].handle # outstanding[b].handle
    BY <1>1 DEF HandlesOnce, n
  <2> QED BY <1>2, <1>3, <2>1
<1>7. ASSUME NEW i \in 1..Len(u), NEW j \in 1..Len(u), i # j PROVE u[i].handle # u[j].handle
  <2>1. i + 1 # j + 1
    BY <1>7
  <2> QED BY <1>1, <1>2, <1>3, <2>1 DEF HandlesOnce, n
<1>8. HandlesOnce(queue, u, pool, completed)
  <2>1. \A i \in 1..Len(u) : InUse(u[i].handle, pool, completed)
    BY <1>1, <1>2, <1>3 DEF HandlesOnce, n
  <2>2. \A i \in 1..Len(queue), j \in 1..Len(u) : queue[i].handle # u[j].handle
    <3>1. \A i \in 1..Len(queue), j \in 1..n : queue[i].handle # outstanding[j].handle
      BY <1>1 DEF HandlesOnce, n
    <3> QED BY <1>2, <1>3, <3>1
  <2> QED BY <1>1, <1>7, <2>1, <2>2 DEF HandlesOnce
<1>9. ReadsSound(queue, u, fl, registers, posted_writes, now, mem)
  BY <1>1, <1>2, <1>3 DEF ReadsSound, n
<1> QED BY <1>1, <1>2, <1>4, <1>5, <1>6, <1>8, <1>9 DEF ReadsInv, o, u, n

LEMMA ReadKept ==
  ASSUME RegisterAssumption, RegisterInv, WriterInv', NEW r \in Register, Sw!Read(r) PROVE RegisterInv'
<1>1. PICK h \in buffer_pool :
        /\ buffer_pool' = buffer_pool \ {h}
        /\ floor' = [floor EXCEPT ![h] = registers[r].finished]
        /\ Sw!PushReads(Append(queued_reads, [handle |-> h, register |-> r]), outstanding_reads)
  BY DEF Sw!Read
<1> DEFINE q == [handle |-> h, register |-> r]
           fl == [floor EXCEPT ![h] = registers[r].finished]
           pool == buffer_pool \ {h}
<1>2. UNCHANGED <<now, registers, posted_writes, mem, completed_reads, slow, alarm>>
  BY DEF Sw!Read, Sw!writer
<1>3. /\ ReaderTypes /\ WriterInv /\ Sw!QuickReadsAreFresh /\ Sw!NoFalseAlarm
      /\ ReadsSound(queued_reads, outstanding_reads, floor, registers, posted_writes, now, mem)
      /\ HandlesOnce(queued_reads, outstanding_reads, buffer_pool, completed_reads)
  BY DEF RegisterInv, ReaderInv
<1>4. h \in Handle /\ q \in ReadJob /\ q.handle = h /\ q.register = r
  BY <1>3 DEF ReaderTypes, ReadJob
<1>5. registers[r].finished \in Nat /\ completed_reads[h] = Sw!None
  <2>1. registers[r] \in RegisterRecord
    BY <1>3 DEF WriterInv, WriterTypes
  <2> QED BY <1>3, <2>1 DEF RegisterRecord, HandlesOnce
<1>6. /\ fl \in [Handle -> Nat] /\ fl[h] = registers[r].finished
      /\ \A k \in Handle : k # h => fl[k] = floor[k]
  BY <1>3, <1>4, <1>5 DEF ReaderTypes
<1> HIDE DEF fl, pool, q
<1>7. /\ \A i \in 1..Len(queued_reads) :
           queued_reads[i].handle # h /\ queued_reads[i].handle \in Handle
      /\ \A i \in 1..Len(outstanding_reads) :
           outstanding_reads[i].handle # h /\ outstanding_reads[i].handle \in Handle
  <2>1. /\ \A i \in 1..Len(queued_reads) : queued_reads[i] \in ReadJob
        /\ \A i \in 1..Len(outstanding_reads) : outstanding_reads[i] \in Fetch
    BY <1>3 DEF ReaderTypes
  <2> QED BY <1>3, <2>1 DEF HandlesOnce, InUse, ReadJob, Fetch
<1>8. ReadsInv(queued_reads, outstanding_reads, pool, completed_reads, fl)
  <2>1. HandlesOnce(queued_reads, outstanding_reads, pool, completed_reads)
    BY <1>3 DEF HandlesOnce, InUse, pool
  <2>2. ASSUME NEW i \in 1..Len(queued_reads)
        PROVE  FloorSound(queued_reads[i], fl, registers)
    BY <1>3, <1>6, <1>7 DEF ReadsSound, FloorSound
  <2>3. ASSUME NEW i \in 1..Len(outstanding_reads)
        PROVE  FetchSound(outstanding_reads[i], fl, registers, posted_writes, now, mem)
    <3>1. fl[outstanding_reads[i].handle] = floor[outstanding_reads[i].handle]
      BY <1>6, <1>7
    <3>2. FetchSound(outstanding_reads[i], floor, registers, posted_writes, now, mem)
      BY <1>3 DEF ReadsSound
    <3> QED BY <3>1, <3>2 DEF FetchSound, Shows, CoolingDown
  <2> QED BY <1>3, <2>1, <2>2, <2>3 DEF ReadsInv, ReadsSound, ReaderTypes
<1>9. InUse(h, pool, completed_reads) /\ FloorSound(q, fl, registers)
  BY <1>4, <1>5, <1>6 DEF InUse, pool, FloorSound
<1>10. ReadsInv(Append(queued_reads, q), outstanding_reads, pool, completed_reads, fl)
  BY <1>3, <1>4, <1>6, <1>7, <1>8, <1>9, Queued
<1>11. /\ ReadsInv(queued_reads', outstanding_reads', pool, completed_reads, fl)
       /\ Len(outstanding_reads') <= WrDepth
  <2>1. Sw!PushReads(Append(queued_reads, q), outstanding_reads) /\ Len(outstanding_reads) <= WrDepth
    BY <1>1, <1>3 DEF q, ReaderTypes
  <2> QED BY <1>3, <1>6, <1>10, <2>1, PushedReads
<1>12. buffer_pool' = pool /\ floor' = fl
  BY <1>1 DEF pool, fl
<1>13. Sw!QuickReadsAreFresh'
  BY <1>2, <1>3, <1>5, <1>6, <1>12 DEF Sw!QuickReadsAreFresh
<1>14. ReaderTypes'
  BY <1>2, <1>3, <1>6, <1>11, <1>12 DEF ReaderTypes, ReadsInv, pool
<1>15. Sw!NoFalseAlarm'
  BY <1>2, <1>3 DEF Sw!NoFalseAlarm
<1> QED BY <1>2, <1>11, <1>12, <1>13, <1>14, <1>15 DEF RegisterInv, ReaderInv, ReadsInv

LEMMA ReleaseKept ==
  ASSUME RegisterAssumption, RegisterInv, WriterInv', NEW h \in Handle, Sw!Release(h) PROVE RegisterInv'
<1>1. /\ completed_reads[h] # Sw!None /\ buffer_pool' = buffer_pool \cup {h}
      /\ completed_reads' = [completed_reads EXCEPT ![h] = Sw!None]
      /\ floor' = [floor EXCEPT ![h] = 0]
      /\ UNCHANGED <<now, registers, posted_writes, mem, queued_reads,
                     outstanding_reads, slow, alarm>>
  BY DEF Sw!Release, Sw!writer
<1>2. /\ ReaderTypes /\ Sw!QuickReadsAreFresh /\ Sw!NoFalseAlarm
      /\ ReadsSound(queued_reads, outstanding_reads, floor, registers, posted_writes, now, mem)
      /\ HandlesOnce(queued_reads, outstanding_reads, buffer_pool, completed_reads)
  BY DEF RegisterInv, ReaderInv
<1>3. /\ floor' \in [Handle -> Nat] /\ \A k \in Handle : k # h => floor'[k] = floor[k]
      /\ completed_reads' \in [Handle -> Int] /\ completed_reads'[h] = Sw!None
      /\ \A k \in Handle : k # h => completed_reads'[k] = completed_reads[k]
  BY <1>1, <1>2 DEF ReaderTypes, Sw!None
<1>4. /\ \A i \in 1..Len(queued_reads) :
           queued_reads[i].handle # h /\ queued_reads[i].handle \in Handle
      /\ \A i \in 1..Len(outstanding_reads) :
           outstanding_reads[i].handle # h /\ outstanding_reads[i].handle \in Handle
  <2>1. /\ \A i \in 1..Len(queued_reads) : queued_reads[i] \in ReadJob
        /\ \A i \in 1..Len(outstanding_reads) : outstanding_reads[i] \in Fetch
    BY <1>2 DEF ReaderTypes
  <2> QED BY <1>1, <1>2, <2>1 DEF HandlesOnce, InUse, ReadJob, Fetch
<1>5. HandlesOnce(queued_reads, outstanding_reads, buffer_pool', completed_reads')
  <2>1. \A k \in buffer_pool' : completed_reads'[k] = Sw!None
    BY <1>1, <1>2, <1>3 DEF HandlesOnce, ReaderTypes
  <2>2. \A i \in 1..Len(queued_reads) : InUse(queued_reads[i].handle, buffer_pool', completed_reads')
    BY <1>1, <1>2, <1>3, <1>4 DEF HandlesOnce, InUse
  <2>3. \A i \in 1..Len(outstanding_reads) :
          InUse(outstanding_reads[i].handle, buffer_pool', completed_reads')
    BY <1>1, <1>2, <1>3, <1>4 DEF HandlesOnce, InUse
  <2> QED BY <1>2, <2>1, <2>2, <2>3 DEF HandlesOnce
<1>6. ReadsSound(queued_reads, outstanding_reads, floor', registers, posted_writes, now, mem)
  <2>1. ASSUME NEW i \in 1..Len(queued_reads)
        PROVE  FloorSound(queued_reads[i], floor', registers)
    BY <1>2, <1>3, <1>4 DEF ReadsSound, FloorSound
  <2>2. ASSUME NEW i \in 1..Len(outstanding_reads)
        PROVE  FetchSound(outstanding_reads[i], floor', registers, posted_writes, now, mem)
    <3>1. floor'[outstanding_reads[i].handle] = floor[outstanding_reads[i].handle]
      BY <1>3, <1>4
    <3>2. FetchSound(outstanding_reads[i], floor, registers, posted_writes, now, mem)
      BY <1>2 DEF ReadsSound
    <3> QED BY <3>1, <3>2 DEF FetchSound, Shows, CoolingDown
  <2> QED BY <2>1, <2>2 DEF ReadsSound
<1>7. Sw!QuickReadsAreFresh'
  BY <1>1, <1>2, <1>3 DEF Sw!QuickReadsAreFresh
<1>8. ReaderTypes' /\ Sw!NoFalseAlarm'
  BY <1>1, <1>2, <1>3 DEF ReaderTypes, Sw!NoFalseAlarm
<1> QED BY <1>1, <1>5, <1>6, <1>7, <1>8 DEF RegisterInv, ReaderInv

(* What the first subslot does not show, a later fetch of the second does.  *)
LEMMA ReadMemoryKept ==
  ASSUME RegisterAssumption, RegisterInv, WriterInv', Sw!ReadMemory PROVE RegisterInv'
<1> DEFINE out == outstanding_reads
           n == Len(out)
<1>1. /\ ReaderTypes /\ WriterInv /\ Sw!QuickReadsAreFresh /\ Sw!NoFalseAlarm
      /\ ReadsSound(queued_reads, out, floor, registers, posted_writes, now, mem)
      /\ HandlesOnce(queued_reads, out, buffer_pool, completed_reads)
  BY DEF RegisterInv, ReaderInv
<1>2. out \in Seq(Fetch) /\ n \in Nat /\ \A k \in 1..n : out[k] \in Fetch
  BY <1>1, LenProperties DEF ReaderTypes
<1>3. PICK i \in 1..n :
        LET o == out[i] IN
        /\ o.fetched < 2
        /\ out' = [out EXCEPT ![i] = [o EXCEPT !.fetched = @ + 1, !.ended = now,
                        !.subslot[o.fetched] = mem[o.register][o.fetched]]]
  <2>1. DOMAIN out = 1..n
    BY <1>2, LenProperties
  <2> QED BY <2>1 DEF Sw!ReadMemory
<1>4. UNCHANGED <<now, registers, posted_writes, mem, buffer_pool, queued_reads,
                  completed_reads, floor, slow, alarm>>
  BY DEF Sw!ReadMemory, Sw!writer
<1> HIDE DEF out
<1> DEFINE o == out[i]
           r == o.register
           s == o.fetched
           y == mem[r][s]
           p == [o EXCEPT !.fetched = @ + 1, !.ended = now, !.subslot[s] = y]
           f == floor[o.handle]
<1>5. /\ o \in Fetch /\ s \in 0..1 /\ r \in Register /\ y \in Int /\ now \in Nat
      /\ f \in Nat /\ registers[r] \in RegisterRecord
  <2>1. /\ o \in Fetch /\ now \in Nat /\ registers \in [Register -> RegisterRecord]
        /\ mem \in [Register -> [0..1 -> Int]] /\ floor \in [Handle -> Nat]
    BY <1>1, <1>2 DEF WriterInv, WriterTypes, ReaderTypes
  <2> HIDE DEF o
  <2>2. s \in 0..2 /\ r \in Register /\ o.handle \in Handle
    BY <2>1 DEF Fetch
  <2>3. s \in 0..1
    BY <1>3, <2>2 DEF o
  <2> QED BY <2>1, <2>2, <2>3
<1>6. /\ p \in Fetch /\ p.handle = o.handle /\ p.register = r /\ p.start = o.start
      /\ p.fetched = s + 1 /\ p.ended = now /\ p.subslot[s] = y
      /\ \A b \in 0..1 : b # s => p.subslot[b] = o.subslot[b]
  <2> DEFINE c == [o.subslot EXCEPT ![s] = y]
             a == s + 1
  <2>1. o.subslot \in [0..1 -> Int]
    BY <1>5 DEF Fetch
  <2>2. /\ c \in [0..1 -> Int] /\ c[s] = y
        /\ \A b \in 0..1 : b # s => c[b] = o.subslot[b]
    BY <1>5, <2>1
  <2>3. a \in 0..2
    <3> HIDE DEF o
    <3> QED BY <1>5
  <2>4. p = [o EXCEPT !.fetched = a, !.ended = now, !.subslot = c]
    BY <1>5 DEF Fetch
  <2> HIDE DEF c, p, a
  <2>5. /\ p \in Fetch /\ p.handle = o.handle /\ p.register = r /\ p.start = o.start
        /\ p.fetched = a /\ p.ended = now /\ p.subslot = c
    BY <1>5, <2>2, <2>3, <2>4 DEF Fetch
  <2> QED BY <2>2, <2>5 DEF a
<1>7. /\ out' \in Seq(Fetch) /\ Len(out') = n
      /\ \A k \in 1..n : out'[k] = IF k = i THEN p ELSE out[k]
  <2>1. out' = [out EXCEPT ![i] = p]
    BY <1>3
  <2> HIDE DEF p
  <2> QED BY <1>2, <1>6, <2>1, ExceptSeq
<1> HIDE DEF p
<1>8. \A k \in 1..n : out'[k].handle = out[k].handle
  BY <1>6, <1>7
<1>9. HandlesOnce(queued_reads, out', buffer_pool, completed_reads)
  BY <1>1, <1>7, <1>8 DEF HandlesOnce
<1>10. FetchSound(o, floor, registers, posted_writes, now, mem)
  BY <1>1 DEF ReadsSound
<1>11. NewestSound(registers[r], now, mem[r])
  BY <1>1, <1>5 DEF WriterInv
<1>12. /\ f <= registers[r].finished /\ o.start <= now
       /\ registers[r].finished \in Nat /\ registers[r].incarnation \in Nat /\ o.start \in Nat
  BY <1>5, <1>10 DEF FetchSound, RegisterRecord, Fetch
<1>13. ASSUME s = 0 PROVE FetchSound(p, floor, registers, posted_writes, now, mem)
  <2>1. p.fetched = 1
    BY <1>6, <1>13
  <2>2. Shows(p, 0, floor) \/ Protected(p, registers, posted_writes)
    <3>1. CASE Newest(registers[r]) = 0
      <4>1. y = registers[r].finished + 2
        BY <1>11, <1>13, <3>1 DEF NewestSound
      <4>2. y >= f + 2
        <5>1. f \in Nat /\ f <= registers[r].finished /\ registers[r].finished \in Nat
          BY <1>5, <1>12
        <5> HIDE DEF y, f, r
        <5> QED BY <4>1, <5>1
      <4> QED BY <1>6, <1>13, <4>2 DEF Shows
    <3>2. ASSUME Newest(registers[r]) = 1, NEW k \in 1..Len(posted_writes),
                 posted_writes[k].register = r, posted_writes[k].phase = "applied"
          PROVE  Shows(p, 0, floor)
      <4> DEFINE w == posted_writes[k]
                 g == registers[r]
      <4>1. /\ g.scheduled /\ w.subslot = g.remote_subslot
            /\ mem[r][w.subslot] = g.incarnation
        BY <1>1, <3>2 DEF WriterInv, WritesSound, PostSound
      <4>2. g.remote_subslot = 0 \/ g.remote_subslot = 1
        BY <1>5 DEF RegisterRecord
      <4>3. w.subslot = 0
        BY <3>2, <4>1, <4>2 DEF Newest
      <4>4. y = g.incarnation /\ g.finished + 2 < g.incarnation
        BY <1>11, <1>13, <4>1, <4>3 DEF NewestSound
      <4>5. y >= f + 2
        <5>1. /\ f \in Nat /\ f <= g.finished
              /\ g.finished \in Nat /\ g.incarnation \in Nat
          BY <1>5, <1>12
        <5> HIDE DEF y, f, g
        <5> QED BY <4>4, <5>1
      <4> QED BY <1>6, <1>13, <4>5 DEF Shows
    <3>3. Newest(registers[r]) \in {0, 1}
      <4>1. registers[r].remote_subslot = 0 \/ registers[r].remote_subslot = 1
        BY <1>5 DEF RegisterRecord
      <4> QED BY <4>1 DEF Newest
    <3> QED BY <1>6, <3>1, <3>2, <3>3 DEF Protected
  <2> QED BY <1>5, <1>6, <1>12, <2>1, <2>2 DEF FetchSound
<1>14. ASSUME s = 1 PROVE FetchSound(p, floor, registers, posted_writes, now, mem)
  <2> DEFINE e == o.ended
             Goal == \/ Shows(p, 0, floor) \/ Shows(p, 1, floor)
                     \/ p.ended > p.start + WriteCooldown
  <2>1. p.fetched = 2 /\ p.subslot[0] = o.subslot[0] /\ p.subslot[1] = y
    BY <1>6, <1>14
  <2>2. /\ e \in Nat /\ o.start <= e /\ e <= now
        /\ \/ Shows(o, 0, floor) \/ Protected(o, registers, posted_writes)
           \/ CoolingDown(o, floor, registers, mem) \/ now > e + WriteCooldown
    BY <1>10, <1>14 DEF FetchSound
  <2>3. ASSUME Shows(o, 0, floor) PROVE Goal
    BY <1>6, <2>1, <2>3 DEF Shows
  <2>4. ASSUME Protected(o, registers, posted_writes) PROVE Goal
    <3>1. y = registers[r].finished + 2
      BY <1>11, <1>14, <2>4 DEF Protected, NewestSound
    <3>2. y >= f + 2
      BY <1>5, <1>12, <3>1
    <3> QED BY <1>6, <2>1, <3>2 DEF Shows
  <2>5. ASSUME CoolingDown(o, floor, registers, mem) PROVE Goal
    BY <1>6, <1>14, <2>1, <2>5 DEF Shows, CoolingDown
  <2>6. ASSUME now > e + WriteCooldown PROVE Goal
    <3>1. now > o.start + WriteCooldown
      BY <1>5, <1>12, <2>2, <2>6 DEF RegisterAssumption
    <3> QED BY <1>6, <3>1
  <2>7. Goal
    BY <2>2, <2>3, <2>4, <2>5, <2>6
  <2> QED BY <1>5, <1>6, <1>12, <2>1, <2>7 DEF FetchSound
<1>15. FetchSound(p, floor, registers, posted_writes, now, mem)
  BY <1>5, <1>13, <1>14
<1>16. ReadsSound(queued_reads, out', floor, registers, posted_writes, now, mem)
  BY <1>1, <1>7, <1>15 DEF ReadsSound
<1>17. ReaderTypes'
  BY <1>1, <1>4, <1>7 DEF ReaderTypes, out
<1>18. Sw!QuickReadsAreFresh' /\ Sw!NoFalseAlarm'
  BY <1>1, <1>4 DEF Sw!QuickReadsAreFresh, Sw!NoFalseAlarm
<1> QED BY <1>4, <1>9, <1>16, <1>17, <1>18 DEF RegisterInv, ReaderInv, out

(* A read polled within the cooldown shows the last write completed before  *)
(* it was issued; one that shows nothing was slow.                          *)
LEMMA ReaderTickKept ==
  ASSUME RegisterAssumption, RegisterInv, WriterInv', Sw!ReaderTick PROVE RegisterInv'
<1> DEFINE out == outstanding_reads
           o == Head(out)
           u == Tail(out)
           h == o.handle
           b == Sw!Best(o)
           f == floor[h]
           again == [handle |-> h, register |-> o.register]
<1>1. /\ ReaderTypes /\ WriterInv /\ Sw!QuickReadsAreFresh /\ Sw!NoFalseAlarm
      /\ ReadsSound(queued_reads, out, floor, registers, posted_writes, now, mem)
      /\ HandlesOnce(queued_reads, out, buffer_pool, completed_reads)
  BY DEF RegisterInv, ReaderInv
<1>2. /\ out # << >> /\ o.fetched = 2 /\ o.ended < now
      /\ \/ /\ b # Sw!Damaged
            /\ completed_reads' = [completed_reads EXCEPT ![h] = b - 2]
            /\ slow' = IF o.ended > o.start + WriteCooldown
                       THEN slow \cup {h} ELSE slow \ {h}
            /\ Sw!PushReads(queued_reads, u)
            /\ UNCHANGED alarm
         \/ /\ b = Sw!Damaged
            /\ alarm' = Sw!Quick(o)
            /\ Sw!PushReads(Append(queued_reads, again), u)
            /\ UNCHANGED <<completed_reads, slow>>
  BY DEF Sw!ReaderTick
<1>3. UNCHANGED <<now, registers, posted_writes, mem, buffer_pool, floor>>
  BY DEF Sw!ReaderTick, Sw!writer
<1>4. floor \in [Handle -> Nat] /\ Len(out) <= WrDepth /\ Len(out) \in Nat /\ WrDepth \in Nat
  BY <1>1, LenProperties DEF ReaderTypes, RegisterAssumption
<1>5. ReadsInv(queued_reads, out, buffer_pool, completed_reads, floor)
  BY <1>1 DEF ReadsInv, ReaderTypes
<1> HIDE DEF out
<1>6. /\ o \in Fetch /\ InUse(h, buffer_pool, completed_reads)
      /\ FetchSound(o, floor, registers, posted_writes, now, mem)
      /\ ReadsInv(queued_reads, u, buffer_pool, completed_reads, floor)
      /\ Len(u) = Len(out) - 1
      /\ \A i \in 1..Len(queued_reads) : queued_reads[i].handle # h
      /\ \A i \in 1..Len(u) : u[i].handle # h
  BY <1>1, <1>2, <1>4, <1>5, Polled
<1> HIDE DEF o, u
<1>7. /\ h \in Handle /\ o.register \in Register /\ o.start \in Nat /\ f \in Nat
      /\ o.subslot \in [0..1 -> Int] /\ now \in Nat /\ WriteCooldown \in Nat
  BY <1>1, <1>4, <1>6 DEF Fetch, RegisterAssumption, WriterInv, WriterTypes
<1>8. o.subslot[0] \in Int /\ o.subslot[1] \in Int
  BY <1>7
<1>9. b \in Int /\ b >= o.subslot[0] /\ b >= o.subslot[1]
  BY <1>8 DEF Sw!Best
<1>10. /\ o.ended \in Nat /\ f <= registers[o.register].finished
       /\ b >= f + 2 \/ o.ended > o.start + WriteCooldown
  <2>1. /\ o.ended \in Nat /\ f <= registers[o.register].finished
        /\ \/ o.subslot[0] >= f + 2 \/ o.subslot[1] >= f + 2
           \/ o.ended > o.start + WriteCooldown
    BY <1>2, <1>6 DEF FetchSound, Shows
  <2> QED BY <1>7, <1>8, <1>9, <2>1
<1> HIDE DEF b, h, f, again
<1>11. Len(u) <= WrDepth
  BY <1>4, <1>6
<1>12. ASSUME b # Sw!Damaged, completed_reads' = [completed_reads EXCEPT ![h] = b - 2],
              slow' = IF o.ended > o.start + WriteCooldown
                      THEN slow \cup {h} ELSE slow \ {h},
              Sw!PushReads(queued_reads, u), UNCHANGED alarm
       PROVE  RegisterInv'
  <2>1. /\ completed_reads' \in [Handle -> Int] /\ completed_reads'[h] = b - 2
        /\ \A k \in Handle : k # h => completed_reads'[k] = completed_reads[k]
        /\ slow' \in SUBSET Handle
    BY <1>1, <1>7, <1>9, <1>12 DEF ReaderTypes, h
  <2>2. \A i \in 1..Len(queued_reads) : queued_reads[i].handle \in Handle
    <3>1. \A i \in 1..Len(queued_reads) : queued_reads[i] \in ReadJob
      BY <1>1 DEF ReaderTypes
    <3> QED BY <3>1 DEF ReadJob
  <2>3. \A i \in 1..Len(u) : u[i].handle \in Handle
    <3>1. \A i \in 1..Len(u) : u[i] \in Fetch
      BY <1>6 DEF ReadsInv
    <3> QED BY <3>1 DEF Fetch
  <2>4. HandlesOnce(queued_reads, u, buffer_pool, completed_reads')
    <3>1. HandlesOnce(queued_reads, u, buffer_pool, completed_reads)
      BY <1>6 DEF ReadsInv
    <3>2. \A k \in buffer_pool : k \in Handle /\ k # h
      BY <1>1, <1>6 DEF InUse, ReaderTypes, h
    <3>3. \A i \in 1..Len(queued_reads) :
            InUse(queued_reads[i].handle, buffer_pool, completed_reads')
      BY <1>6, <2>1, <2>2, <3>1 DEF HandlesOnce, InUse, h
    <3>4. \A i \in 1..Len(u) : InUse(u[i].handle, buffer_pool, completed_reads')
      BY <1>6, <2>1, <2>3, <3>1 DEF HandlesOnce, InUse, h
    <3> QED BY <2>1, <3>1, <3>2, <3>3, <3>4 DEF HandlesOnce
  <2>5. ReadsInv(queued_reads, u, buffer_pool, completed_reads', floor)
    BY <1>6, <2>4 DEF ReadsInv
  <2>6. /\ ReadsInv(queued_reads', outstanding_reads', buffer_pool, completed_reads', floor)
        /\ Len(outstanding_reads') <= WrDepth
    BY <1>1, <1>4, <1>11, <1>12, <2>5, PushedReads
  <2>7. ASSUME NEW k \in Handle, completed_reads'[k] # Sw!None, k \notin slow'
        PROVE  completed_reads'[k] >= floor[k]
    <3>1. CASE k = h
      <4>1. ~(o.ended > o.start + WriteCooldown)
        BY <1>12, <2>7, <3>1
      <4>2. b >= floor[h] + 2
        BY <1>10, <4>1 DEF f
      <4> QED BY <1>7, <1>9, <2>1, <3>1, <4>2 DEF f
    <3>2. CASE k # h
      BY <1>1, <1>12, <2>1, <2>7, <3>2 DEF Sw!QuickReadsAreFresh
    <3> QED BY <3>1, <3>2
  <2>8. Sw!QuickReadsAreFresh' /\ Sw!NoFalseAlarm'
    BY <1>1, <1>3, <1>12, <2>7 DEF Sw!QuickReadsAreFresh, Sw!NoFalseAlarm
  <2>9. ReaderTypes'
    BY <1>1, <1>3, <1>12, <2>1, <2>6 DEF ReaderTypes, ReadsInv
  <2> QED BY <1>3, <2>6, <2>8, <2>9 DEF RegisterInv, ReaderInv, ReadsInv
<1>13. ASSUME b = Sw!Damaged, alarm' = Sw!Quick(o), Sw!PushReads(Append(queued_reads, again), u),
              UNCHANGED <<completed_reads, slow>>
       PROVE  RegisterInv'
  <2>1. o.ended > o.start + WriteCooldown
    BY <1>7, <1>10, <1>13 DEF Sw!Damaged, f
  <2>2. alarm' = FALSE
    <3>1. ~(o.start + WriteCooldown >= now)
      BY <1>2, <1>7, <1>10, <2>1
    <3>2. ~Sw!Quick(o) /\ Sw!Quick(o) \in BOOLEAN
      BY <3>1 DEF Sw!Quick
    <3>3. Sw!Quick(o) = FALSE
      BY <3>2
    <3> QED BY <1>13, <3>3
  <2>3. again \in ReadJob /\ again.handle = h /\ again.register = o.register
    BY <1>7 DEF again, ReadJob, h
  <2>4. FloorSound(again, floor, registers)
    BY <1>10, <2>3 DEF FloorSound, f
  <2>5. ReadsInv(Append(queued_reads, again), u, buffer_pool, completed_reads, floor)
    BY <1>1, <1>4, <1>6, <2>3, <2>4, Queued DEF h
  <2>6. /\ ReadsInv(queued_reads', outstanding_reads', buffer_pool, completed_reads, floor)
        /\ Len(outstanding_reads') <= WrDepth
    BY <1>1, <1>4, <1>11, <1>13, <2>5, PushedReads
  <2>7. Sw!QuickReadsAreFresh' /\ Sw!NoFalseAlarm'
    BY <1>1, <1>3, <1>13, <2>2 DEF Sw!QuickReadsAreFresh, Sw!NoFalseAlarm
  <2>8. ReaderTypes'
    BY <1>1, <1>3, <1>13, <2>2, <2>6 DEF ReaderTypes, ReadsInv
  <2> QED BY <1>3, <1>13, <2>6, <2>7, <2>8 DEF RegisterInv, ReaderInv, ReadsInv
<1> QED BY <1>2, <1>12, <1>13 DEF b, h, again

-----------------------------------------------------------------------------
LEMMA RegisterInit == ASSUME RegisterAssumption PROVE Sw!Init => RegisterInv
<1> SUFFICES ASSUME Sw!Init PROVE RegisterInv
  OBVIOUS
<1>1. /\ now = 0 /\ queued_writes = << >> /\ posted_writes = << >> /\ queued_reads = << >>
      /\ outstanding_reads = << >> /\ buffer_pool = Handle /\ slow = {} /\ alarm = FALSE
      /\ completed_reads = [h \in Handle |-> Sw!None] /\ floor = [h \in Handle |-> 0]
  BY DEF Sw!Init, Sw!WriterInit, Sw!ReaderInit
<1>2. \A S : << >> \in Seq(S) /\ Len(<< >>) = 0
  BY EmptySeq
<1> DEFINE g == [incarnation |-> 2, scheduled |-> FALSE, last_write |-> Sw!None,
                 remote_subslot |-> 0, finished |-> 0]
           c == [s \in 0..1 |-> 2 - s]
<1>3. registers = [r \in Register |-> g] /\ mem = [r \in Register |-> c]
  BY DEF Sw!Init, Sw!WriterInit, Sw!initializeRemoteRegisters
<1>4. g \in RegisterRecord /\ c \in [0..1 -> Int] /\ c[0] = 2
  BY DEF RegisterRecord
<1>5. NewestSound(g, 0, c)
  BY <1>4 DEF NewestSound, Newest, Sw!None
<1> HIDE DEF g, c
<1>6. WriterTypes
  BY <1>1, <1>2, <1>3, <1>4 DEF WriterTypes
<1>7. \A r \in Register : NewestSound(registers[r], now, mem[r])
  BY <1>1, <1>3, <1>5
<1>8. WritesSound(registers, queued_writes, posted_writes, now, mem)
  BY <1>1, <1>2 DEF WritesSound, Once
<1>9. ReaderTypes
  <2>1. queued_reads \in Seq(ReadJob) /\ outstanding_reads \in Seq(Fetch)
    BY <1>1, <1>2
  <2>2. Len(outstanding_reads) <= WrDepth
    BY <1>1, <1>2 DEF RegisterAssumption
  <2>3. completed_reads \in [Handle -> Int] /\ floor \in [Handle -> Nat]
    BY <1>1 DEF Sw!None
  <2> QED BY <1>1, <2>1, <2>2, <2>3 DEF ReaderTypes
<1>10. /\ ReadsSound(queued_reads, outstanding_reads, floor, registers, posted_writes, now, mem)
       /\ HandlesOnce(queued_reads, outstanding_reads, buffer_pool, completed_reads)
  BY <1>1, <1>2 DEF ReadsSound, HandlesOnce
<1>11. Sw!NoFalseAlarm /\ Sw!QuickReadsAreFresh
  BY <1>1 DEF Sw!NoFalseAlarm, Sw!QuickReadsAreFresh
<1> QED BY <1>6, <1>7, <1>8, <1>9, <1>10, <1>11 DEF RegisterInv, WriterInv, ReaderInv

LEMMA RegisterNext == ASSUME RegisterAssumption, RegisterInv, [Sw!Next]_(Sw!vars) PROVE RegisterInv'
<1>1. WriterInv
  BY DEF RegisterInv
<1>2. ASSUME UNCHANGED <<now, Sw!writer, mem>> PROVE WriterInv'
  BY <1>1, <1>2 DEF WriterInv, WriterTypes, Sw!writer
<1>3. CASE Sw!Clock
  BY <1>1, <1>3, ClockMoves, WriterMoves DEF Sw!Clock
<1>4. ASSUME NEW r \in Register, NEW inc \in 1..MaxIncarnation, Sw!Write(r, inc) PROVE RegisterInv'
  <2>1. inc \in Nat
    BY DEF RegisterAssumption
  <2>2. WriterInv' /\ Moves
    BY <1>1, <1>4, <2>1, WriteMoves
  <2> QED BY <1>4, <2>2, WriterMoves DEF Sw!Write
<1>5. CASE Sw!WriterTick
  BY <1>1, <1>5, WriterTickMoves, WriterMoves DEF Sw!WriterTick
<1>6. CASE Sw!WriteMemory
  BY <1>1, <1>6, WriteMemoryMoves, WriterMoves DEF Sw!WriteMemory
<1>7. ASSUME NEW r \in Register, Sw!Read(r) PROVE RegisterInv'
  <2>1. WriterInv'
    BY <1>2, <1>7 DEF Sw!Read
  <2> QED BY <1>7, <2>1, ReadKept
<1>8. CASE Sw!ReadMemory
  <2>1. WriterInv'
    BY <1>2, <1>8 DEF Sw!ReadMemory
  <2> QED BY <1>8, <2>1, ReadMemoryKept
<1>9. CASE Sw!ReaderTick
  <2>1. WriterInv'
    BY <1>2, <1>9 DEF Sw!ReaderTick
  <2> QED BY <1>9, <2>1, ReaderTickKept
<1>10. ASSUME NEW h \in Handle, Sw!Release(h) PROVE RegisterInv'
  <2>1. WriterInv'
    BY <1>2, <1>10 DEF Sw!Release
  <2> QED BY <1>10, <2>1, ReleaseKept
<1>11. CASE UNCHANGED Sw!vars
  <2>1. UNCHANGED <<now, registers, queued_writes, posted_writes, mem, buffer_pool,
                    queued_reads, outstanding_reads, completed_reads, floor, slow, alarm>>
    BY <1>11 DEF Sw!vars, Sw!writer, Sw!reader
  <2>2. WriterInv'
    BY <1>2, <2>1 DEF Sw!writer
  <2> QED BY <2>1, <2>2 DEF RegisterInv, ReaderInv, ReaderTypes, Sw!NoFalseAlarm, Sw!QuickReadsAreFresh
<1> QED BY <1>3, <1>4, <1>5, <1>6, <1>7, <1>8, <1>9, <1>10, <1>11 DEF Sw!Next

(* For any WriteCooldown, number of registers, buffers and outstanding      *)
(* operations: pollCompletion never finds a correct writer Byzantine, as    *)
(* only a read slower than the cooldown finds both subslots half written;   *)
(* and a read fetched within the cooldown returns a value no older than the *)
(* last write completed before read() was called.                           *)
THEOREM RegisterSafe ==
  RegisterAssumption => (Sw!Spec => [](Sw!NoFalseAlarm /\ Sw!QuickReadsAreFresh))
<1> SUFFICES ASSUME RegisterAssumption
             PROVE  Sw!Spec => [](Sw!NoFalseAlarm /\ Sw!QuickReadsAreFresh)
  OBVIOUS
<1>1. Sw!Init => RegisterInv
  BY RegisterInit
<1>2. RegisterInv /\ [Sw!Next]_(Sw!vars) => RegisterInv'
  BY RegisterNext
<1>3. RegisterInv => Sw!NoFalseAlarm /\ Sw!QuickReadsAreFresh
  BY DEF RegisterInv, ReaderInv
<1> QED BY <1>1, <1>2, <1>3, PTL DEF Sw!Spec
===============================================================================
