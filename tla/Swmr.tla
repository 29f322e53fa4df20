---------------------------------- MODULE Swmr --------------------------------
(***************************************************************************)
(* The single-writer register of ubft (src/ubft/src/swmr): a correct       *)
(* Writer, one Reader, and the host's memory between them.  A register     *)
(* is two subslots that the writer fills in turn, with a cooldown between  *)
(* two writes; a read fetches both subslots, each possibly half written,   *)
(* and returns the newer intact one.  A reader that finds both damaged     *)
(* takes the writer for Byzantine unless its own read was slow.            *)
(*                                                                         *)
(* The value written is identified with its incarnation.  A write or read  *)
(* is executed by the network card in order, and its completion is seen at *)
(* least one tick of the clock after it took place.                        *)
(***************************************************************************)
EXTENDS Integers, Sequences, SequencesExt

CONSTANTS
  Register,        \* registers of the host
  Handle,          \* read buffers, which are also the job handles
  WriteCooldown,   \* constants::WriteCooldown, in clock ticks
  WrDepth,         \* MaxOutstandingWrites, MaxOutstandingReads
  MaxIncarnation,  \* bound: incarnations written
  MaxTime          \* bound: clock ticks

VARIABLES
  now,          \* steady_clock
  registers,    \* Writer::Register of each register, and the last incarnation
                \* whose write completed (history)
  queued_writes, posted_writes,
  mem,          \* the two subslots of each register in the host's memory
  buffer_pool, queued_reads, outstanding_reads, completed_reads,
  alarm,        \* the reader declared the writer Byzantine
  floor,        \* history: last completed write when the job was read()
  slow          \* history: jobs whose fetch took longer than the cooldown

writer == <<registers, queued_writes, posted_writes>>
reader == <<buffer_pool, queued_reads, outstanding_reads, completed_reads,
            floor, slow>>
vars == <<now, writer, mem, reader, alarm>>

None == -1
Damaged == -1   \* a subslot whose hash does not match
NotYet == -1    \* a subslot the read has not fetched

WriterInit ==
  /\ registers = [r \in Register |-> [incarnation |-> 2, scheduled |-> FALSE,
                    last_write |-> None, remote_subslot |-> 0,
                    finished |-> 0]]
  /\ queued_writes = << >> /\ posted_writes = << >>

(* The constructor has written twice to each register, without cooldown,    *)
(* before it returns: both subslots are intact.                             *)
initializeRemoteRegisters == mem = [r \in Register |-> [s \in 0..1 |-> 2 - s]]

ReaderInit ==
  /\ buffer_pool = Handle
  /\ queued_reads = << >> /\ outstanding_reads = << >>
  /\ completed_reads = [h \in Handle |-> None]
  /\ floor = [h \in Handle |-> 0]
  /\ slow = {}
  /\ alarm = FALSE

Init == now = 0 /\ WriterInit /\ initializeRemoteRegisters /\ ReaderInit

Clock ==
  /\ now < MaxTime
  /\ now' = now + 1
  /\ UNCHANGED <<writer, mem, reader, alarm>>

-----------------------------------------------------------------------------
(* The writer.                                                              *)

Cooling_Mutant(reg) == FALSE

Cooling(reg) == reg.last_write # None /\ reg.last_write + WriteCooldown > now

(* pushToQp, one turn of its loop after the other: a register that still    *)
(* cools down goes to the back of the queue, any other is posted.           *)
PushWrites(regs, queue, posted) ==
  LET Post(r) == [register |-> r, subslot |-> regs[r].remote_subslot,
                  phase |-> "posted", ended |-> None]
      turn[i \in 0..Len(queue)] ==
        IF i = 0 THEN [queue |-> queue, posted |-> posted]
        ELSE LET q == turn[i - 1].queue
                 w == turn[i - 1].posted
             IN  IF i > Len(q) \/ Len(w) >= WrDepth THEN turn[i - 1]
                 ELSE IF Cooling(regs[Head(q)])
                      THEN [queue |-> Append(Tail(q), Head(q)), posted |-> w]
                      ELSE [queue |-> Tail(q), posted |-> Append(w, Post(Head(q)))]
  IN  /\ queued_writes' = turn[Len(queue)].queue
      /\ posted_writes' = turn[Len(queue)].posted

\* getSlot and write, with a custom incarnation that is above the last one.
Write(r, inc) ==
  /\ ~registers[r].scheduled
  /\ inc + 2 > registers[r].incarnation
  /\ LET regs == [registers EXCEPT ![r].scheduled = TRUE,
                                   ![r].incarnation = inc + 2,
                                   ![r].remote_subslot = (@ + 1) % 2]
     IN  /\ registers' = regs
         /\ PushWrites(regs, Append(queued_writes, r), posted_writes)
  /\ UNCHANGED <<now, mem, reader, alarm>>

\* tick: the first completions, if any, then what has cooled down.
Completed(n) == \A i \in 1..n : posted_writes[i].phase = "applied"
                                /\ posted_writes[i].ended < now

WriterTick ==
  /\ \E n \in 0..Len(posted_writes) :
       /\ Completed(n)
       /\ LET over == {posted_writes[i].register : i \in 1..n}
              regs == [r \in Register |->
                        IF r \in over
                        THEN [registers[r] EXCEPT !.last_write = now,
                                !.scheduled = FALSE,
                                !.finished = registers[r].incarnation - 2]
                        ELSE registers[r]]
          IN  /\ registers' = regs
              /\ PushWrites(regs, queued_writes,
                            SubSeq(posted_writes, n + 1, Len(posted_writes)))
  /\ UNCHANGED <<now, mem, reader, alarm>>

\* The network card writes a subslot: damaged in between, then intact.
WriteMemory ==
  /\ \E i \in DOMAIN posted_writes :
       LET w == posted_writes[i] IN
       /\ \A j \in 1..(i - 1) : posted_writes[j].phase = "applied"
       /\ \/ /\ w.phase = "posted"
             /\ mem' = [mem EXCEPT ![w.register][w.subslot] = Damaged]
             /\ posted_writes' = [posted_writes EXCEPT ![i].phase = "started"]
          \/ /\ w.phase = "started"
             /\ mem' = [mem EXCEPT ![w.register][w.subslot] =
                                       registers[w.register].incarnation]
             /\ posted_writes' = [posted_writes EXCEPT ![i].phase = "applied",
                                                       ![i].ended = now]
  /\ UNCHANGED <<now, registers, queued_writes, reader, alarm>>

-----------------------------------------------------------------------------
(* The reader.                                                              *)

PushReads(queue, outstanding) ==
  LET n == IF Len(queue) < WrDepth - Len(outstanding) THEN Len(queue)
           ELSE WrDepth - Len(outstanding)
      Post(q) == [handle |-> q.handle, register |-> q.register, start |-> now,
                  fetched |-> 0, subslot |-> [s \in 0..1 |-> NotYet], ended |-> None]
  IN  /\ queued_reads' = SubSeq(queue, n + 1, Len(queue))
      /\ outstanding_reads' =
           outstanding \o [i \in 1..n |-> Post(queue[i])]

\* read, when a buffer is free.
Read(r) ==
  /\ \E h \in buffer_pool :
       /\ buffer_pool' = buffer_pool \ {h}
       /\ floor' = [floor EXCEPT ![h] = registers[r].finished]
       /\ PushReads(Append(queued_reads, [handle |-> h, register |-> r]),
                    outstanding_reads)
  /\ UNCHANGED <<now, writer, mem, completed_reads, slow, alarm>>

\* The network card fetches one subslot after the other.
ReadMemory ==
  /\ \E i \in DOMAIN outstanding_reads :
       LET o == outstanding_reads[i] IN
       /\ \A j \in 1..(i - 1) : outstanding_reads[j].fetched = 2
       /\ o.fetched < 2
       /\ outstanding_reads' = [outstanding_reads EXCEPT
            ![i] = [o EXCEPT !.fetched = @ + 1, !.ended = now,
                             !.subslot[o.fetched] = mem[o.register][o.fetched]]]
  /\ UNCHANGED <<now, writer, mem, buffer_pool, queued_reads, completed_reads,
                 floor, slow, alarm>>

Best(o) == IF o.subslot[0] > o.subslot[1] THEN o.subslot[0] ELSE o.subslot[1]

\* A read this quick cannot have met two writes of a correct writer.
Quick(o) == o.start + WriteCooldown >= now

\* pollCompletion of the oldest read, and pushToQp.
ReaderTick ==
  /\ outstanding_reads # << >>
  /\ LET o == Head(outstanding_reads) IN
     /\ o.fetched = 2 /\ o.ended < now
     /\ \/ /\ Best(o) # Damaged
           /\ completed_reads' = [completed_reads EXCEPT ![o.handle] = Best(o) - 2]
           /\ slow' = IF o.ended > o.start + WriteCooldown
                      THEN slow \cup {o.handle} ELSE slow \ {o.handle}
           /\ PushReads(queued_reads, Tail(outstanding_reads))
           /\ UNCHANGED alarm
        \/ /\ Best(o) = Damaged
           /\ alarm' = Quick(o)
           /\ PushReads(Append(queued_reads,
                               [handle |-> o.handle, register |-> o.register]),
                        Tail(outstanding_reads))
           /\ UNCHANGED <<completed_reads, slow>>
  /\ UNCHANGED <<now, writer, mem, buffer_pool, floor>>

\* release, after poll returned the result.
Release(h) ==
  /\ completed_reads[h] # None
  /\ buffer_pool' = buffer_pool \cup {h}
  /\ completed_reads' = [completed_reads EXCEPT ![h] = None]
  /\ floor' = [floor EXCEPT ![h] = 0]
  /\ UNCHANGED <<now, writer, mem, queued_reads, outstanding_reads, slow, alarm>>

Next ==
  \/ Clock
  \/ \E r \in Register, inc \in 1..MaxIncarnation : Write(r, inc)
  \/ WriterTick
  \/ WriteMemory
  \/ \E r \in Register : Read(r)
  \/ ReadMemory
  \/ ReaderTick
  \/ \E h \in Handle : Release(h)

Spec == Init /\ [][Next]_vars

-----------------------------------------------------------------------------
(* A correct writer is never taken for Byzantine: a read that finds both    *)
(* subslots half written lasted longer than the cooldown between the two    *)
(* writes, and is repeated.                                                 *)
NoFalseAlarm == ~alarm

(* A read whose subslots were fetched within the cooldown returns a value   *)
(* at least as recent as the last write completed before it was issued.     *)
QuickReadsAreFresh ==
  \A h \in Handle : completed_reads[h] # None /\ h \notin slow
                    => completed_reads[h] >= floor[h]
===============================================================================
