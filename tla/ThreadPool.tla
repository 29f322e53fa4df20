------------------------------- MODULE ThreadPool -----------------------------
(***************************************************************************)
(* The deployed TailThreadPool (src/ubft/src/thread-pool/locking.hpp):     *)
(* bounded task queues behind one mutex, workers that sleep on a condition *)
(* variable, freezing, and TaskQueues that are destroyed while tasks run.  *)
(* Each action is one critical section.  Tasks of a queue are numbered in  *)
(* the order of enqueue.                                                   *)
(***************************************************************************)
EXTENDS Integers, Sequences, FiniteSets

CONSTANTS
  Queue,    \* ids of the task queues
  Worker,
  TailSize, \* tasks a queue keeps
  MaxTask   \* bound: tasks enqueued in each queue

VARIABLES
  tasks,    \* queue -> tasks waiting, oldest first
  last,     \* queue -> number of the last task enqueued
  running,  \* queue -> tasks being executed, as counted by the workers
  worker,   \* worker -> waiting, awake, executing or gone
  frozen, stop,
  clearing  \* queue -> "open", "clearing" or "cleared" (its owner destroyed)

vars == <<tasks, last, running, worker, frozen, stop, clearing>>

Waiting == [at |-> "waiting"]
Awake == [at |-> "awake"]
Gone == [at |-> "gone"]
Executing(q, n) == [at |-> "executing", queue |-> q, task |-> n]

Init ==
  /\ tasks = [q \in Queue |-> << >>]
  /\ last = [q \in Queue |-> 0]
  /\ running = [q \in Queue |-> 0]
  /\ worker = [w \in Worker |-> Awake]
  /\ frozen = FALSE /\ stop = FALSE
  /\ clearing = [q \in Queue |-> "open"]

NotifyAll == worker' = [w \in Worker |->
               IF worker[w] = Waiting THEN Awake ELSE worker[w]]
NotifyOne ==
  \/ \E w \in Worker : /\ worker[w] = Waiting
                       /\ worker' = [worker EXCEPT ![w] = Awake]
  \/ /\ \A w \in Worker : worker[w] # Waiting
     /\ UNCHANGED worker

-----------------------------------------------------------------------------
\* TailTaskQueues::enqueue drops the oldest task of a full queue.
AddTask(s, n) ==
  IF Len(Append(s, n)) > TailSize THEN Tail(Append(s, n)) ELSE Append(s, n)

Enqueue(q) ==
  /\ ~stop /\ clearing[q] = "open" /\ last[q] < MaxTask
  /\ last' = [last EXCEPT ![q] = @ + 1]
  /\ tasks' = [tasks EXCEPT ![q] = AddTask(@, last[q] + 1)]
  /\ IF frozen THEN UNCHANGED worker ELSE NotifyOne
  /\ UNCHANGED <<running, frozen, stop, clearing>>

\* TailTaskQueues::pop takes from a queue with the most tasks.
Longest == {q \in Queue : \A p \in Queue : Len(tasks[p]) <= Len(tasks[q])}
NoTask == \A q \in Queue : tasks[q] = << >>

\* A worker holds the mutex and looks at the predicate of its wait.
Wake(w) ==
  /\ worker[w] = Awake
  /\ \/ /\ stop
        /\ worker' = [worker EXCEPT ![w] = Gone]
        /\ UNCHANGED <<tasks, running>>
     \/ /\ ~stop /\ (frozen \/ NoTask)
        /\ worker' = [worker EXCEPT ![w] = Waiting]
        /\ UNCHANGED <<tasks, running>>
     \/ /\ ~stop /\ ~frozen /\ ~NoTask
        /\ \E q \in Longest :
             /\ tasks' = [tasks EXCEPT ![q] = Tail(@)]
             /\ running' = [running EXCEPT ![q] = @ + 1]
             /\ worker' = [worker EXCEPT ![w] = Executing(q, Head(tasks[q]))]
  /\ UNCHANGED <<last, frozen, stop, clearing>>

\* The task returned.
Finish(w) ==
  /\ worker[w].at = "executing"
  /\ running' = [running EXCEPT ![worker[w].queue] = @ - 1]
  /\ worker' = [worker EXCEPT ![w] = Awake]
  /\ UNCHANGED <<tasks, last, frozen, stop, clearing>>

Freeze ==
  /\ ~frozen /\ ~stop
  /\ frozen' = TRUE
  /\ NotifyAll
  /\ UNCHANGED <<tasks, last, running, stop, clearing>>

Unfreeze_Mutant ==
  /\ frozen
  /\ frozen' = FALSE
  /\ UNCHANGED worker
  /\ UNCHANGED <<tasks, last, running, stop, clearing>>

Unfreeze ==
  /\ frozen
  /\ frozen' = FALSE
  /\ NotifyAll
  /\ UNCHANGED <<tasks, last, running, stop, clearing>>

\* clear, called when the TaskQueue is destroyed: drop, then spin on running.
Clear(q) ==
  /\ clearing[q] = "open"
  /\ clearing' = [clearing EXCEPT ![q] = "clearing"]
  /\ tasks' = [tasks EXCEPT ![q] = << >>]
  /\ UNCHANGED <<last, running, worker, frozen, stop>>

Drained_Mutant(q) == tasks[q] = << >>
Drained(q) == running[q] = 0

Cleared(q) ==
  /\ clearing[q] = "clearing" /\ Drained(q)
  /\ clearing' = [clearing EXCEPT ![q] = "cleared"]
  /\ UNCHANGED <<tasks, last, running, worker, frozen, stop>>

\* The destructor of the pool, after its queues are gone, joins the workers.
Stop ==
  /\ ~stop /\ \A q \in Queue : clearing[q] = "cleared"
  /\ stop' = TRUE
  /\ NotifyAll
  /\ UNCHANGED <<tasks, last, running, frozen, clearing>>

Next ==
  \/ \E q \in Queue : Enqueue(q) \/ Clear(q) \/ Cleared(q)
  \/ \E w \in Worker : Wake(w) \/ Finish(w)
  \/ Freeze \/ Unfreeze \/ Stop

Spec == Init /\ [][Next]_vars

-----------------------------------------------------------------------------
(* Once clear() returned, no worker executes a task of the queue: the tasks *)
(* refer to the object that owns the queue and is being destroyed.          *)
NoTaskAfterClear ==
  \A q \in Queue : clearing[q] = "cleared" =>
    /\ tasks[q] = << >>
    /\ \A w \in Worker : worker[w].at = "executing" => worker[w].queue # q

(* At most maxOutstanding tasks of a queue wait or execute, which is how    *)
(* many buffers its owner set aside for them.                               *)
OutstandingBounded ==
  \A q \in Queue :
    Len(tasks[q]) + Cardinality({w \in Worker : worker[w].at = "executing"
                                                /\ worker[w].queue = q})
      <= TailSize + Cardinality(Worker)

(* A waiting task does not wait for ever while the pool is not frozen: it   *)
(* is executed, dropped or cleared, and no wake-up of the workers is lost.  *)
NoLostWakeup ==
  \A q \in Queue, n \in 1..MaxTask :
    <>[](\E i \in DOMAIN tasks[q] : tasks[q][i] = n) => []<>frozen
===============================================================================
