----------------------------- MODULE LockFreePool -----------------------------
(***************************************************************************)
(* LockFreeTailThreadPool (src/ubft/src/thread-pool/lock-free.hpp): each   *)
(* task queue is a pair of MPMC queues.  The owner thread fills one of the *)
(* pair and, every TailSize insertions, turns to the other after emptying  *)
(* it, while workers scan all MPMC queues.  One try_dequeue or try_enqueue *)
(* is one step; destroying a task queue empties the pair, then waits for   *)
(* every worker to begin a new iteration.                                  *)
(***************************************************************************)
EXTENDS Integers, Sequences, FiniteSets

CONSTANTS
  Queues,   \* number of task queues, scanned in the order 1..Queues
  Workers,  \* number of workers, awaited in the order 1..Workers
  TailSize,
  MaxTask   \* bound: tasks enqueued in each queue

VARIABLES
  mpmcs,    \* queue -> the pair of MPMC queues, oldest task first
  dest,     \* queue -> the one of the pair being filled
  inserted, \* queue -> inserted_in_dest
  last,     \* queue -> number of the last task enqueued
  owner,    \* what the owner thread is doing
  worker,   \* worker -> where it is in its loop
  looped,   \* workers that began an iteration since the owner last looked
  open,     \* queues not destroyed
  dropped,  \* queue -> newest task dropped by an enqueue
  stop

vars == <<mpmcs, dest, inserted, last, owner, worker, looped, open, dropped,
          stop>>

Queue == 1..Queues
Worker == 1..Workers
Idle == [at |-> "idle"]
LoopTop == [at |-> "top"]
Gone == [at |-> "gone"]
Scan(q, side) == [at |-> "scan", queue |-> q, side |-> side]
Executing(q, n) == [at |-> "executing", queue |-> q, task |-> n]

Init ==
  /\ mpmcs = [q \in Queue |-> <<<< >>, << >>>>]
  /\ dest = [q \in Queue |-> 1] /\ inserted = [q \in Queue |-> 0]
  /\ last = [q \in Queue |-> 0] /\ dropped = [q \in Queue |-> 0]
  /\ owner = Idle
  /\ worker = [w \in Worker |-> LoopTop] /\ looped = {}
  /\ open = Queue /\ stop = FALSE

-----------------------------------------------------------------------------
(* The owner thread *)

Switches(count) == count >= TailSize

Enqueue(q) ==
  /\ owner = Idle /\ q \in open /\ last[q] < MaxTask
  /\ last' = [last EXCEPT ![q] = @ + 1]
  /\ mpmcs' = [mpmcs EXCEPT ![q][dest[q]] = Append(@, last[q] + 1)]
  /\ IF Switches(inserted[q] + 1)
     THEN /\ dest' = [dest EXCEPT ![q] = 3 - @]
          /\ inserted' = [inserted EXCEPT ![q] = 0]
          /\ owner' = [at |-> "emptying", queue |-> q]
     ELSE /\ inserted' = [inserted EXCEPT ![q] = @ + 1]
          /\ UNCHANGED <<dest, owner>>
  /\ UNCHANGED <<worker, looped, open, dropped, stop>>

\* One try_dequeue of the loop that empties the queue to be filled next.
Empty ==
  /\ owner.at = "emptying"
  /\ LET q == owner.queue
         tasks == mpmcs[q][dest[q]]
     IN IF tasks = << >>
        THEN /\ owner' = Idle
             /\ UNCHANGED <<mpmcs, dropped>>
        ELSE /\ mpmcs' = [mpmcs EXCEPT ![q][dest[q]] = Tail(@)]
             /\ dropped' = [dropped EXCEPT ![q] = Head(tasks)]
             /\ UNCHANGED owner
  /\ UNCHANGED <<dest, inserted, last, worker, looped, open, stop>>

\* ~TaskQueue calls clear: one of the pair at a time, one task at a time.
Destroy(q) ==
  /\ owner = Idle /\ q \in open
  /\ owner' = [at |-> "clearing", queue |-> q, side |-> 1]
  /\ UNCHANGED <<mpmcs, dest, inserted, last, worker, looped, open, dropped,
                 stop>>

AfterClear_Mutant(q) == [at |-> "waiting", queue |-> q, worker |-> Workers]
AfterClear(q) == [at |-> "waiting", queue |-> q, worker |-> 1]

Clear ==
  /\ owner.at = "clearing"
  /\ LET q == owner.queue IN
     IF mpmcs[q][owner.side] # << >>
     THEN /\ mpmcs' = [mpmcs EXCEPT ![q][owner.side] = Tail(@)]
          /\ UNCHANGED <<owner, looped>>
     ELSE /\ owner' = IF owner.side = 1 THEN [owner EXCEPT !.side = 2]
                                        ELSE AfterClear(q)
          /\ looped' = {}
          /\ UNCHANGED mpmcs
  /\ UNCHANGED <<dest, inserted, last, worker, open, dropped, stop>>

\* waitOneIteration: the workers one by one, reloading the counter each time.
Await ==
  /\ owner.at = "waiting" /\ owner.worker \in looped
  /\ looped' = {}
  /\ IF owner.worker < Workers
     THEN /\ owner' = [owner EXCEPT !.worker = @ + 1]
          /\ UNCHANGED open
     ELSE /\ owner' = Idle
          /\ open' = open \ {owner.queue}
  /\ UNCHANGED <<mpmcs, dest, inserted, last, worker, dropped, stop>>

Stop ==
  /\ owner = Idle /\ open = {} /\ ~stop
  /\ stop' = TRUE
  /\ UNCHANGED <<mpmcs, dest, inserted, last, owner, worker, looped, open,
                 dropped>>

-----------------------------------------------------------------------------
(* The workers *)

Loop(w) ==
  /\ worker[w] = LoopTop
  /\ worker' = [worker EXCEPT ![w] = IF stop THEN Gone ELSE Scan(1, 1)]
  /\ looped' = IF stop THEN looped ELSE looped \cup {w}
  /\ UNCHANGED <<mpmcs, dest, inserted, last, owner, open, dropped, stop>>

\* Where a scan goes on after an empty MPMC queue.
ScanNext(q, side) ==
  IF side = 1 THEN Scan(q, 2)
  ELSE IF q < Queues THEN Scan(q + 1, 1) ELSE LoopTop

TryPop(w) ==
  /\ worker[w].at = "scan"
  /\ LET q == worker[w].queue
         side == worker[w].side
         tasks == mpmcs[q][side]
     IN IF tasks = << >>
        THEN /\ worker' = [worker EXCEPT ![w] = ScanNext(q, side)]
             /\ UNCHANGED mpmcs
        ELSE /\ worker' = [worker EXCEPT ![w] = Executing(q, Head(tasks))]
             /\ mpmcs' = [mpmcs EXCEPT ![q][side] = Tail(@)]
  /\ UNCHANGED <<dest, inserted, last, owner, looped, open, dropped, stop>>

Finish(w) ==
  /\ worker[w].at = "executing"
  /\ worker' = [worker EXCEPT ![w] = LoopTop]
  /\ UNCHANGED <<mpmcs, dest, inserted, last, owner, looped, open, dropped,
                 stop>>

Next ==
  \/ \E q \in Queue : Enqueue(q) \/ Destroy(q)
  \/ Empty \/ Clear \/ Await \/ Stop
  \/ \E w \in Worker : Loop(w) \/ TryPop(w) \/ Finish(w)

Spec == Init /\ [][Next]_vars

-----------------------------------------------------------------------------
(* When ~TaskQueue returned, no worker executes, or will find, a task of   *)
(* the queue: waiting for one iteration of each worker in turn is enough.  *)
NoTaskAfterDestroy ==
  \A q \in Queue \ open :
    /\ mpmcs[q] = <<<< >>, << >>>>
    /\ \A w \in Worker : worker[w].at = "executing" => worker[w].queue # q

(* The newest TailSize tasks of a queue are never dropped, and try_enqueue *)
(* always finds room ("Should always be able to enqueue"), whatever the    *)
(* workers left in either of the pair.                                     *)
NewestAreKept ==
  \A q \in Queue :
    /\ dropped[q] <= last[q] - TailSize \/ dropped[q] = 0
    /\ \A side \in {1, 2} : Len(mpmcs[q][side]) <= TailSize
===============================================================================
