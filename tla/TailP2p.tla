-------------------------------- MODULE TailP2p -------------------------------
(***************************************************************************)
(* One tail point-to-point link of ubft (src/ubft/src/tail-p2p): an        *)
(* AsyncSender over a SyncSender, the RDMA writes of its queue pair, and   *)
(* the Receiver that scans the ring of slots the writes land in.           *)
(*                                                                         *)
(* A message is its number (1, 2, ...), and its hash is injective.  A      *)
(* write reaches the receiver's memory in address order, hash, then        *)
(* incarnation, then data; the receiver reads the words of a slot one by   *)
(* one while that happens.                                                 *)
(***************************************************************************)
EXTENDS Integers, Sequences, FiniteSetsExt

CONSTANTS
  TailSize,  \* slots of the ring
  WrDepth,   \* ReliableConnection::WrDepth, writes a queue pair may hold
  MaxMsg,    \* bound: messages the application writes
  MaxBatch   \* bound: slots it takes before it calls send()

VARIABLES
  snd,       \* AsyncSender and the SyncSender inside it
  wire,      \* the queue pair: writes done, and the words of the next one
  mem,       \* the receiver's memory, written by RDMA
  rcv,       \* Receiver
  sent, got  \* messages released by send(), and messages polled (history)

vars == <<snd, wire, mem, rcv, sent, got>>

Slot == 0..(TailSize - 1)
None == 0
NoSlot == [hash |-> None, incarnation |-> 0, data |-> None]

\* A MsgId <<incarnation, index>>; pairs compare from the left.
MsgIdOf(n) == <<n \div TailSize + 1, n % TailSize>>
Before(a, b) == a[1] < b[1] \/ (a[1] = b[1] /\ a[2] < b[2])
successor(id) ==
  IF id[2] + 1 >= TailSize THEN <<id[1] + 1, 0>> ELSE <<id[1], id[2] + 1>>

FirstMsg == <<1, 0>>

-----------------------------------------------------------------------------
(* The sender.  Slot number n of the SyncSender is next_slot when it is     *)
(* acquired; it is posted when next_send passes it and recycled when        *)
(* next_free does.  outstanding_writes is next_send - next_free.            *)

Init ==
  /\ snd = [next_msg |-> 1, being_written |-> << >>, tail_buffer |-> << >>,
            next_slot |-> 0, send_before |-> 0, next_send |-> 0,
            next_free |-> 0, slots |-> [i \in Slot |-> None]]
  /\ wire = [done |-> 0, words |-> 0]
  /\ mem = [i \in Slot |-> NoSlot]
  /\ rcv = [next_to_scan |-> 0, best_to_deliver |-> FirstMsg,
            max_scanned_straggling |-> <<0, 0>>,
            pc |-> "incarnation", incarnation |-> 0, hash |-> None,
            data |-> None]
  /\ sent = 0
  /\ got = << >>

CanAcquire_Mutant(s) == s.next_slot # s.next_free + TailSize + 1

\* CircularBuffer::acquire
CanAcquire(s) == s.next_slot # s.next_free + TailSize

\* SyncSender::getSlot, for a message m that the caller copies into it.
syncGetSlot(s, m) ==
  [s EXCEPT !.slots[s.next_slot % TailSize] = m, !.next_slot = @ + 1]

\* Posts what send() released, while the queue pair accepts writes.
pushToQp(s) ==
  [s EXCEPT !.next_send = Max({@, Min({s.send_before, s.next_free + WrDepth})})]

syncSend(s) == pushToQp([s EXCEPT !.send_before = s.next_slot])

\* Moves the oldest buffered messages to the SyncSender, one send() each.
pushToSender(s) ==
  LET step[n \in 0..Len(s.tail_buffer)] ==
        IF n = 0 THEN s
        ELSE LET p == step[n - 1]
             IN  IF CanAcquire(p)
                 THEN syncSend(syncGetSlot(
                        [p EXCEPT !.tail_buffer = Tail(@)], Head(p.tail_buffer)))
                 ELSE p
  IN  step[Len(s.tail_buffer)]

(* A slot for message next_msg: from the SyncSender when it has one, else a *)
(* buffer of the pool.  Pool::take allocates when the pool is empty, so the *)
(* branch that recycles the oldest buffered message is never reached and    *)
(* tail_buffer is as long as the link is slow.  Callers take a few slots    *)
(* and then call send().                                                    *)
Unsent == snd.next_msg - 1 - sent

GetSlot ==
  /\ snd.next_msg <= MaxMsg
  /\ Unsent < MaxBatch
  /\ LET s == pushToSender(snd)
         m == s.next_msg
         t == [s EXCEPT !.next_msg = @ + 1]
     IN  snd' = IF CanAcquire(s) THEN syncGetSlot(t, m)
                ELSE [t EXCEPT !.being_written = Append(@, m)]
  /\ UNCHANGED <<wire, mem, rcv, sent, got>>

\* AsyncSender::send: the slots of the SyncSender first, then the buffers.
Send ==
  /\ Unsent > 0
  /\ LET s == syncSend(snd)
     IN  snd' = pushToSender([s EXCEPT !.tail_buffer = @ \o s.being_written,
                                       !.being_written = << >>])
  /\ sent' = snd.next_msg - 1
  /\ UNCHANGED <<wire, mem, rcv, got>>

(* AsyncSender::tick: completed writes (any number that the completion      *)
(* queue already shows) release their slots, then both queues move.         *)
(* Callers never tick between getSlot() and send().                         *)
Recycle(s, free) == [s EXCEPT !.next_free = free]

Tick ==
  /\ Unsent = 0
  /\ \E free \in snd.next_free..wire.done :
       snd' = pushToSender(pushToQp(Recycle(snd, free)))
  /\ snd' # snd
  /\ UNCHANGED <<wire, mem, rcv, sent, got>>

(* The network card executes the posted writes in order; a write takes its  *)
(* bytes from the sender's slot while it runs.                              *)
Wire ==
  /\ wire.done < snd.next_send
  /\ LET i == wire.done % TailSize
         m == snd.slots[i]
         inc == MsgIdOf(wire.done)[1]
     IN  \/ /\ wire.words = 0
            /\ mem' = [mem EXCEPT ![i].hash = m]
            /\ wire' = [wire EXCEPT !.words = 1]
         \/ /\ wire.words = 1
            /\ mem' = [mem EXCEPT ![i].incarnation = inc]
            /\ wire' = [wire EXCEPT !.words = 2]
         \/ /\ wire.words = 2
            /\ mem' = [mem EXCEPT ![i].data = m]
            /\ wire' = [done |-> wire.done + 1, words |-> 0]
  /\ UNCHANGED <<snd, rcv, sent, got>>

-----------------------------------------------------------------------------
(* The receiver, tryPoll one memory access at a time.  <<0, 0>> stands for   *)
(* no max_scanned_straggling: no id that is scanned comes before it.         *)

Scanning == <<rcv.incarnation, rcv.next_to_scan>>

\* Incarnation first; an older one than the next delivery is an empty slot.
ReadIncarnation ==
  /\ rcv.pc = "incarnation"
  /\ LET inc == mem[rcv.next_to_scan].incarnation
     IN  /\ inc >= rcv.best_to_deliver[1]
         /\ rcv' = [rcv EXCEPT !.incarnation = inc, !.pc = "hash"]
  /\ UNCHANGED <<snd, wire, mem, sent, got>>

\* The message looked for, or the oldest one behind the one scanned before.
Deliverable ==
  \/ Scanning = rcv.best_to_deliver
  \/ Before(Scanning, rcv.max_scanned_straggling)

Straggling == [rcv EXCEPT !.pc = "incarnation"]

ReadHash ==
  /\ rcv.pc = "hash"
  /\ rcv' = IF Deliverable
            THEN [rcv EXCEPT !.hash = mem[rcv.next_to_scan].hash, !.pc = "data"]
            ELSE [Straggling EXCEPT !.max_scanned_straggling = Scanning,
                                    !.next_to_scan = successor(Scanning)[2]]
  /\ UNCHANGED <<snd, wire, mem, sent, got>>

ReadData ==
  /\ rcv.pc = "data"
  /\ rcv' = [rcv EXCEPT !.data = mem[rcv.next_to_scan].data, !.pc = "check"]
  /\ UNCHANGED <<snd, wire, mem, sent, got>>

\* The slot was neither recycled nor half written while it was copied.
Intact ==
  /\ mem[rcv.next_to_scan].incarnation = rcv.incarnation
  /\ rcv.hash = rcv.data

Check ==
  /\ rcv.pc = "check"
  /\ \/ /\ ~Intact
        /\ rcv' = Straggling
        /\ UNCHANGED got
     \/ /\ Intact
        /\ rcv' = [Straggling EXCEPT
                     !.best_to_deliver = successor(Scanning),
                     !.next_to_scan = successor(Scanning)[2]]
        /\ got' = Append(got, rcv.data)
  /\ UNCHANGED <<snd, wire, mem, sent>>

Receive == ReadIncarnation \/ ReadHash \/ ReadData \/ Check

Next == GetSlot \/ Send \/ Tick \/ Wire \/ Receive

Spec == Init /\ [][Next]_vars

-----------------------------------------------------------------------------
\* What users of a link rely on.
Link == INSTANCE TailLink WITH TailSize <- TailSize, sent <- sent, got <- got
===============================================================================
