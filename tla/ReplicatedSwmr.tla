----------------------------- MODULE ReplicatedSwmr ---------------------------
(***************************************************************************)
(* One register replicated on several hosts (src/ubft/src/replicated-swmr):*)
(* a Writer that completes a write when half of the hosts, rounded up,     *)
(* have it, and a Reader that returns the highest incarnation that half of *)
(* the hosts, rounded up, answered with.  The two halves intersect only    *)
(* for an odd number of hosts.                                             *)
(*                                                                         *)
(* The per-host registers are those of Swmr, taken as regular: a host      *)
(* changes its content, and answers a read, at one moment while the        *)
(* operation is outstanding.  A host may stop answering for ever.  The     *)
(* value is identified with its incarnation.  A user fills the buffer and  *)
(* calls write() without a tick in between, so the buffer that a slow host *)
(* still has to copy never holds a later value than its incarnation says.  *)
(***************************************************************************)
EXTENDS Integers, FiniteSets, FiniteSetsExt

CONSTANTS
  Host,            \* hosts of the register
  MaxIncarnation,  \* bound: incarnations written
  MaxJob,          \* bound: reads issued
  Buffers          \* read buffers of one sub-reader

VARIABLES
  incarnation, outstanding_write,   \* Writer::Register
  finished, written,                \* history: last completed, all started
  host,        \* host -> content, and the write its ManagedWriter is at
  job,         \* host, job -> where the read is in its ManagedReader
  next_handle,
  result       \* job -> what poll returned, and the floor it must respect

wvars == <<incarnation, outstanding_write, finished, written>>
vars == <<wvars, host, job, next_handle, result>>

None == -1
Job == 0..(MaxJob - 1)
Majority_Mutant == Cardinality(Host) \div 2
Majority == (Cardinality(Host) + 1) \div 2

Init ==
  /\ incarnation = 0 /\ outstanding_write = FALSE
  /\ finished = 0 /\ written = {0}
  /\ host = [h \in Host |-> [content |-> 0, to_write |-> None,
                             scheduled |-> None, applied |-> FALSE]]
  /\ job = [h \in Host |-> [j \in Job |-> [at |-> "none", inc |-> None]]]
  /\ next_handle = 0
  /\ result = [j \in Job |-> [state |-> "idle", inc |-> 0]]

-----------------------------------------------------------------------------
\* ManagedWriter::pushToWriter: a free sub-writer takes the pending write.
pushToWriter(w) ==
  IF w.to_write # None /\ w.scheduled = None
  THEN [w EXCEPT !.scheduled = w.to_write, !.to_write = None, !.applied = FALSE]
  ELSE w

\* write, once the previous write completed; a slow host skips to this one.
Write(inc) ==
  /\ ~outstanding_write
  /\ inc > incarnation
  /\ incarnation' = inc
  /\ outstanding_write' = TRUE
  /\ written' = written \cup {inc}
  /\ host' = [h \in Host |-> pushToWriter([host[h] EXCEPT !.to_write = inc])]
  /\ UNCHANGED <<finished, job, next_handle, result>>

\* tick: sub-writers see their completions and take what is pending.
WriterTick ==
  /\ host' = [h \in Host |->
       pushToWriter(IF host[h].applied THEN [host[h] EXCEPT !.scheduled = None,
                                                            !.applied = FALSE]
                    ELSE host[h])]
  /\ host' # host
  /\ UNCHANGED <<wvars, job, next_handle, result>>

\* completed, polled by the user until it returns true.
Completed ==
  /\ outstanding_write
  /\ LET done == {h \in Host : host[h].to_write = None /\ host[h].scheduled = None}
     IN  Cardinality(done) >= Majority
  /\ outstanding_write' = FALSE
  /\ finished' = incarnation
  /\ UNCHANGED <<incarnation, written, host, job, next_handle, result>>

\* A host takes the scheduled write.
Apply(h) ==
  /\ host[h].scheduled # None /\ ~host[h].applied
  /\ host' = [host EXCEPT ![h].content = host[h].scheduled, ![h].applied = TRUE]
  /\ UNCHANGED <<wvars, job, next_handle, result>>

-----------------------------------------------------------------------------
Held(js) == Cardinality({j \in Job : js[j].at \notin {"none", "queued"}})

\* ManagedReader::pushToReader: queued reads take free buffers in order.
pushToReader(js) ==
  LET queued == {j \in Job : js[j].at = "queued"}
      go == {j \in queued : Cardinality({k \in queued : k < j}) < Buffers - Held(js)}
  IN  [j \in Job |-> IF j \in go THEN [js[j] EXCEPT !.at = "posted"] ELSE js[j]]

\* read, on every host at once.
Read ==
  /\ next_handle \in Job
  /\ next_handle' = next_handle + 1
  /\ job' = [h \in Host |-> pushToReader([job[h] EXCEPT ![next_handle].at = "queued"])]
  /\ result' = [result EXCEPT ![next_handle] = [state |-> "pending", inc |-> finished]]
  /\ UNCHANGED <<wvars, host>>

\* A host answers; nobody waits for the answer of a released read.
Answer(h, j) ==
  /\ \/ job[h][j].at = "posted" /\ job' = [job EXCEPT
          ![h][j] = [at |-> "answered", inc |-> host[h].content]]
     \/ job[h][j].at = "released" /\ job' = [job EXCEPT ![h][j].at = "releasable"]
  /\ UNCHANGED <<wvars, host, next_handle, result>>

\* tick: completions become visible, released buffers return to the pool.
ReaderTick ==
  /\ job' = [h \in Host |-> pushToReader([j \in Job |->
       CASE job[h][j].at = "answered" -> [job[h][j] EXCEPT !.at = "completed"]
         [] job[h][j].at = "releasable" -> [at |-> "none", inc |-> None]
         [] OTHER -> job[h][j]])]
  /\ job' # job
  /\ UNCHANGED <<wvars, host, next_handle, result>>

(* ManagedReader::release: a read that was posted keeps its buffer until it *)
(* completes, one that was queued is forgotten.                             *)
release(r) ==
  [at |-> CASE r.at = "posted" -> "released"
            [] r.at \in {"answered", "completed"} -> "releasable"
            [] OTHER -> "none",
   inc |-> None]

Highest(S) == Max(S)

\* poll, when enough hosts answered.
Poll(j) ==
  /\ result[j].state = "pending"
  /\ LET polled == {h \in Host : job[h][j].at = "completed"}
     IN  /\ Cardinality(polled) >= Majority
         /\ result' = [result EXCEPT
              ![j] = [state |-> "done", inc |-> Highest({job[h][j].inc : h \in polled})]]
  /\ job' = [h \in Host |-> [job[h] EXCEPT ![j] = release(@)]]
  /\ UNCHANGED <<wvars, host, next_handle>>

Next ==
  \/ \E inc \in 1..MaxIncarnation : Write(inc)
  \/ WriterTick \/ Completed
  \/ \E h \in Host : Apply(h)
  \/ Read \/ ReaderTick
  \/ \E h \in Host, j \in Job : Answer(h, j)
  \/ \E j \in Job : Poll(j)

Spec == Init /\ [][Next]_vars

Regular == INSTANCE RegularRegister WITH
  Job <- Job, written <- written, finished <- finished, reads <- result

(* A replicated register is a regular register: a read that starts after a  *)
(* write completed never misses it, whichever hosts are slow.               *)
ImplementsRegular == Regular!Spec
===============================================================================
