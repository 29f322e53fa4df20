------------------------------- MODULE TailStore ------------------------------
(***************************************************************************)
(* What users of TailMap and TailQueue rely on: an ordered map whose keys  *)
(* span less than TailSize, and a queue of the TailSize newest elements.   *)
(* The queue is also how src/ubft/src/tail-queue/deque.hpp works.          *)
(***************************************************************************)
EXTENDS Integers, Sequences

CONSTANTS
  TailSize,
  MaxKey    \* bound: largest key, and number of elements queued

VARIABLES
  keys,     \* the keys of the map in the order of its iterators
  queue     \* the elements of the queue, front first

vars == <<keys, queue>>

Init == keys = << >> /\ queue = << >>

\* A new greatest key; the keys too far behind it go.
Emplace(key) ==
  /\ \A i \in DOMAIN keys : keys[i] < key
  /\ LET Near(k) == key < k + TailSize
     IN keys' = Append(SelectSeq(keys, Near), key)
  /\ UNCHANGED queue

PopKey ==
  /\ keys # << >>
  /\ keys' = Tail(keys)
  /\ UNCHANGED queue

ClearMap == keys' = << >> /\ UNCHANGED queue

EmplaceBack(e) ==
  /\ queue' = Append(IF Len(queue) + 1 > TailSize THEN Tail(queue) ELSE queue, e)
  /\ UNCHANGED keys

PopFront ==
  /\ queue # << >>
  /\ queue' = Tail(queue)
  /\ UNCHANGED keys

PopBack ==
  /\ queue # << >>
  /\ queue' = SubSeq(queue, 1, Len(queue) - 1)
  /\ UNCHANGED keys

ClearQueue == queue' = << >> /\ UNCHANGED keys

Next ==
  \/ ClearMap \/ ClearQueue
  \/ PopKey \/ PopFront \/ PopBack
  \/ \E key \in 0..MaxKey : Emplace(key) \/ EmplaceBack(key)

Spec == Init /\ [][Next]_vars
===============================================================================
