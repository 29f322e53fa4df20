---------------------------- MODULE TailContainers ----------------------------
(***************************************************************************)
(* The containers every protocol keeps its bounded state in:               *)
(*  - VectorTailMap (src/ubft/src/tail-map/vector.hpp): an array indexed   *)
(*    by key modulo the tail, threaded by a list of successor indices;     *)
(*  - VectorTailQueue (src/ubft/src/tail-queue/vector.hpp): a ring between *)
(*    two counters (its back(), which indexes the array without the        *)
(*    modulo, is called nowhere and left out);                             *)
(*  - Pool and Buffer (src/ubft/src/buffer.hpp): buffers that return to    *)
(*    the pool they were taken from when they are destroyed.               *)
(***************************************************************************)
EXTENDS Integers, Sequences, FiniteSets

CONSTANTS
  TailSize,
  MaxKey,   \* bound: largest key of the map, elements ever queued
  NbBuffers, BufferSize,
  Holder    \* places a user keeps a buffer

VARIABLES
  map,      \* [slots, head, back, min]
  ring,     \* [slots, head, next] of the queue
  pool,     \* buffers in the pool's vector, back last
  held      \* holder -> the buffer it holds, if any (a sequence)

vars == <<map, ring, pool, held>>

None == -1
Index == 0 .. TailSize - 1
NoEntry == [key |-> None, next |-> None]
Whole == [size |-> BufferSize, offset |-> 0]

Init ==
  /\ map = [slots |-> [i \in Index |-> NoEntry],
            head |-> None, back |-> None, min |-> 0]
  /\ ring = [slots |-> [i \in Index |-> None], head |-> 0, next |-> 0]
  /\ pool = [i \in 1..NbBuffers |-> Whole]
  /\ held = [h \in Holder |-> << >>]

-----------------------------------------------------------------------------
(* VectorTailMap *)

EmptyMap(m) == m.head = None
First(m) == m.slots[m.head].key
Found(m, key) == m.slots[key % TailSize].key = key

PopHead(m) ==
  [m EXCEPT !.head = m.slots[m.head].next,
            !.back = IF m.head = m.back THEN None ELSE @,
            !.slots[m.head] = NoEntry]

LeftBehind(m, key) == key >= First(m) + TailSize

\* The loop that drops the heads left behind; it runs at most TailSize times.
DropBehind(m, key) ==
  LET after[n \in 0..TailSize] ==
        IF n = 0 THEN m
        ELSE LET before == after[n - 1]
             IN IF ~EmptyMap(before) /\ LeftBehind(before, key)
                THEN PopHead(before) ELSE before
  IN after[TailSize]

Linked(m, key) ==
  LET i == key % TailSize
      placed == [m EXCEPT !.slots[i] = [key |-> key, next |-> None]]
  IN IF EmptyMap(m) THEN [placed EXCEPT !.head = i, !.back = i]
     ELSE [placed EXCEPT !.slots[m.back].next = i, !.back = i]

\* A key below min is found, or throws; the key min is emplaced again, over
\* its element if it is still there, and linked after it.
TryEmplace(key) ==
  /\ \/ key < map.min /\ Found(map, key) /\ UNCHANGED map
     \/ /\ key >= map.min
        /\ map' = [Linked(DropBehind(map, key), key) EXCEPT !.min = key]
  /\ UNCHANGED <<ring, pool, held>>

\* No user emplaces the last key again while it is in the map, where its
\* entry would become its own successor: they look the key up first or never
\* come back to it.
Emplaceable(key) == ~(key = map.min /\ Found(map, key))

PopFrontMap ==
  /\ ~EmptyMap(map)
  /\ map' = PopHead(map)
  /\ UNCHANGED <<ring, pool, held>>

ClearMap ==
  /\ LET after[n \in 0..TailSize] ==
           IF n = 0 THEN map
           ELSE IF EmptyMap(after[n - 1]) THEN after[n - 1]
                ELSE PopHead(after[n - 1])
     IN map' = [after[TailSize] EXCEPT !.min = 0]
  /\ UNCHANGED <<ring, pool, held>>

-----------------------------------------------------------------------------
(* VectorTailQueue *)

PushedOut_Mutant(r) == r.head + TailSize < r.next
PushedOut(r) == r.head + TailSize = r.next

EmplaceBack ==
  /\ ring.next < MaxKey
  /\ ring' = [slots |-> [ring.slots EXCEPT ![ring.next % TailSize] = ring.next],
              head |-> IF PushedOut(ring) THEN ring.head + 1 ELSE ring.head,
              next |-> ring.next + 1]
  /\ UNCHANGED <<map, pool, held>>

PopFrontRing ==
  /\ ring.head < ring.next
  /\ ring' = [ring EXCEPT !.slots[ring.head % TailSize] = None, !.head = @ + 1]
  /\ UNCHANGED <<map, pool, held>>

PopBackRing ==
  /\ ring.head < ring.next
  /\ ring' = [ring EXCEPT !.slots[(ring.next - 1) % TailSize] = None,
                          !.next = @ - 1]
  /\ UNCHANGED <<map, pool, held>>

ClearRing ==
  /\ ring' = [ring EXCEPT !.slots = [i \in Index |->
                            IF \E p \in ring.head .. ring.next - 1 :
                                 p % TailSize = i
                            THEN None ELSE @[i]],
                          !.head = ring.next]
  /\ UNCHANGED <<map, pool, held>>

-----------------------------------------------------------------------------
(* Pool and Buffer: size is what the vector holds, offset what was trimmed. *)

Resized(b, size) == [b EXCEPT !.size = size + b.offset]

\* take: the back of the vector, or a new buffer when the vector is empty.
Take(h, size) ==
  /\ held[h] = << >>
  /\ IF pool = << >>
     THEN /\ held' = [held EXCEPT ![h] = <<Resized(Whole, size)>>]
          /\ UNCHANGED pool
     ELSE /\ held' = [held EXCEPT ![h] = <<Resized(pool[Len(pool)], size)>>]
          /\ pool' = SubSeq(pool, 1, Len(pool) - 1)
  /\ UNCHANGED <<map, ring>>

\* Trimming throws beyond the size, resizing beyond the first size.
Trim(h, n) ==
  /\ held[h] # << >> /\ held[h][1].size - held[h][1].offset >= n
  /\ held' = [held EXCEPT ![h][1].offset = @ + n]
  /\ UNCHANGED <<map, ring, pool>>

Resize(h, size) ==
  /\ held[h] # << >> /\ size + held[h][1].offset <= BufferSize
  /\ held' = [held EXCEPT ![h] = <<Resized(@[1], size)>>]
  /\ UNCHANGED <<map, ring, pool>>

Restored(b) == Resized([b EXCEPT !.offset = 0], BufferSize)

\* ~Buffer
Return(h) ==
  /\ held[h] # << >>
  /\ pool' = Append(pool, Restored(held[h][1]))
  /\ held' = [held EXCEPT ![h] = << >>]
  /\ UNCHANGED <<map, ring>>

-----------------------------------------------------------------------------
Next ==
  \/ \E key \in 0..MaxKey : Emplaceable(key) /\ TryEmplace(key)
  \/ PopFrontMap \/ ClearMap
  \/ EmplaceBack \/ PopFrontRing \/ PopBackRing \/ ClearRing
  \/ \E h \in Holder, n \in 1..BufferSize :
       Take(h, n) \/ Trim(h, n) \/ Resize(h, n) \/ Return(h)

Spec == Init /\ [][Next]_vars

-----------------------------------------------------------------------------
(* What iterators see of the map: the keys along the list from head, until *)
(* end() or, were the list broken, for one step too many.                  *)
Walk ==
  LET from[n \in 0 .. TailSize + 1] ==
        [i \in Index \cup {None} |->
           IF n = 0 \/ i = None THEN << >>
           ELSE <<map.slots[i].key>> \o from[n - 1][map.slots[i].next]]
  IN from[TailSize + 1][map.head]

Queued == [i \in 1 .. ring.next - ring.head |->
             ring.slots[(ring.head + i - 1) % TailSize]]

Store == INSTANCE TailStore WITH keys <- Walk, queue <- Queued

(* The linked array behaves as an ordered map of nearby keys and the ring  *)
(* as a queue of the newest elements: no wrap-around of the index leaves a *)
(* stale successor, and none loses an element that is near enough.         *)
ImplementsStore == Store!Spec

(* find and the iterators agree: a key is found iff the list reaches it,   *)
(* and back is the last entry, where the next one is linked.               *)
FindAgrees ==
  /\ \A key \in 0..MaxKey :
       Found(map, key) <=> \E i \in DOMAIN Walk : Walk[i] = key
  /\ Walk # << >> => map.slots[map.back].key = Walk[Len(Walk)]

(* A buffer in the pool has its first size and no offset, whatever its     *)
(* last user made of it, and no buffer is lost: one is allocated only when *)
(* every other is held.                                                    *)
PooledBuffersAreWhole ==
  /\ \A i \in DOMAIN pool : pool[i] = Whole
  /\ Len(pool) + Cardinality({h \in Holder : held[h] # << >>}) >= NbBuffers
===============================================================================
