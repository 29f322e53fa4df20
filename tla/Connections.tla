------------------------------ MODULE Connections -----------------------------
(***************************************************************************)
(* How clients connect to a replica while it runs.  Two threads share the  *)
(* connections:                                                            *)
(*  - the RPC thread runs the handshakes and notices disconnections        *)
(*    (src/rpc/src/conn/universal-connection.hpp), calling the Manager     *)
(*    (src/ubft/src/rpc/internal/connection.hpp), which lends each         *)
(*    connection one of a fixed number of memory regions;                  *)
(*  - the main thread polls the connections it was last handed.            *)
(* They hand lists over with DynamicConnections                            *)
(* (src/ubft/src/rpc/internal/dynamic-connections.hpp): two buffers, a     *)
(* selector and a flag.                                                    *)
(***************************************************************************)
EXTENDS Integers, Sequences, FiniteSets

CONSTANTS
  Proc,     \* clients, each with an id of its own
  Regions   \* max_connections

VARIABLES
  available_memory, \* free regions, the next one to lend last
  conns,    \* client -> its connection, as a sequence of at most one
  inactive, \* clients whose connection's shared flag `active` is false
  lists,    \* the two buffers of DynamicConnections: sets of clients
  select, in_use, switched,
  rpc,      \* what the RPC thread is doing
  session,  \* client -> how far its session got
  crashed   \* the RPC thread followed a null pointer

vars == <<available_memory, conns, inactive, lists, select, in_use, switched,
          rpc, session, crashed>>

Idle == [at |-> "idle"]
Region == 1..Regions
NoRegion == 0   \* the connection that conns[proc_id] makes up has no data

Init ==
  /\ available_memory = [i \in Region |-> i]
  /\ conns = [p \in Proc |-> << >>] /\ inactive = {}
  /\ lists = <<{}, {}>> /\ select = 1 /\ in_use = 1 /\ switched = FALSE
  /\ rpc = Idle
  /\ session = [p \in Proc |-> "new"]
  /\ crashed = FALSE

Held == {p \in Proc : conns[p] # << >>}
Listed == {[proc |-> p, region |-> conns[p][1]] : p \in Held}
Other(i) == 3 - i

-----------------------------------------------------------------------------
(* The RPC thread.  An operation op for client p that alters the list of   *)
(* connections writes the buffer not in use, then waits for the switch.    *)

Alter(op, p) ==
  /\ lists' = [lists EXCEPT ![Other(select)] = Listed']
  /\ select' = Other(select)
  /\ rpc' = [at |-> op, proc |-> p]

Switched == switched

\* What a client that got this far sends next.
NextStep(p) ==
  CASE session[p] = "new" -> {"step1"} [] session[p] = "step1" -> {"step2"}
    [] OTHER -> {}

\* feed collects inactive connections first, whatever it was fed.
FeedStep(p) ==
  /\ rpc = Idle /\ ~crashed
  /\ UNCHANGED conns
  /\ \E op \in NextStep(p) : Alter(op, p)
  /\ UNCHANGED <<available_memory, inactive, in_use, switched, session,
                 crashed>>

\* handleStep1 lends a region, or fails and leaves the client unanswered.
HandleStep1 ==
  /\ rpc.at = "step1" /\ Switched
  /\ LET p == rpc.proc IN
     IF available_memory = << >>
     THEN /\ session' = [session EXCEPT ![p] = "failed"]
          /\ UNCHANGED <<available_memory, conns>>
     ELSE /\ session' = [session EXCEPT ![p] = "step1"]
          /\ conns' = [conns EXCEPT ![p] =
               <<available_memory[Len(available_memory)]>>]
          /\ available_memory' =
               SubSeq(available_memory, 1, Len(available_memory) - 1)
  /\ switched' = FALSE /\ rpc' = Idle
  /\ UNCHANGED <<inactive, lists, select, in_use, crashed>>

\* handleStep2 hands the list over again, with the new connection.
HandleStep2 ==
  /\ rpc.at = "step2" /\ Switched
  /\ UNCHANGED conns
  /\ Alter("connected", rpc.proc)
  /\ switched' = FALSE
  /\ UNCHANGED <<available_memory, inactive, in_use, session, crashed>>

Connected ==
  /\ rpc.at = "connected" /\ Switched
  /\ session' = [session EXCEPT ![rpc.proc] = "connected"]
  /\ switched' = FALSE /\ rpc' = Idle
  /\ UNCHANGED <<available_memory, conns, inactive, lists, select, in_use,
                 crashed>>

MarkedInactive_Mutant(p) == inactive
MarkedInactive(p) == inactive \cup {p}

\* disconnected: markInactive, through conns[proc_id], which makes up a
\* connection without data if there is none, ...
Disconnected(p) ==
  /\ rpc = Idle /\ ~crashed /\ session[p] \in {"step1", "failed", "connected"}
  /\ session' = [session EXCEPT ![p] = "gone"]
  /\ conns' = IF conns[p] = << >> THEN [conns EXCEPT ![p] = <<NoRegion>>]
              ELSE conns
  /\ inactive' = MarkedInactive(p)
  /\ Alter("removing", p)
  /\ UNCHANGED <<available_memory, in_use, switched, crashed>>

\* ... then remove, which looks at the data of the connection.
Remove ==
  /\ rpc.at = "removing" /\ Switched
  /\ IF conns[rpc.proc][1] = NoRegion
     THEN /\ crashed' = TRUE
          /\ UNCHANGED <<available_memory, conns>>
     ELSE /\ available_memory' = Append(available_memory, conns[rpc.proc][1])
          /\ conns' = [conns EXCEPT ![rpc.proc] = << >>]
          /\ UNCHANGED crashed
  /\ switched' = FALSE /\ rpc' = Idle
  /\ UNCHANGED <<inactive, lists, select, in_use, session>>

-----------------------------------------------------------------------------
(* The main thread *)

CheckPending_Mutant ==
  /\ select # in_use /\ ~crashed
  /\ in_use' = select
  /\ UNCHANGED <<available_memory, conns, inactive, lists, select, switched, rpc,
                 session, crashed>>

\* checkPending, every 1024 ticks.
CheckPending ==
  /\ select # in_use /\ ~crashed
  /\ in_use' = Other(in_use)
  /\ select' = Other(in_use)
  /\ switched' = TRUE
  /\ UNCHANGED <<available_memory, conns, inactive, lists, rpc, session,
                 crashed>>

\* The connections the main thread polls at every tick.
Polled == {l \in lists[in_use] : l.proc \notin inactive}

RpcThread == HandleStep1 \/ HandleStep2 \/ Connected \/ Remove

Next ==
  \/ \E p \in Proc : FeedStep(p) \/ Disconnected(p)
  \/ RpcThread
  \/ CheckPending

Spec == Init /\ [][Next]_vars

-----------------------------------------------------------------------------
(* The regions that the main thread may poll are lent to the connections   *)
(* it polls them for, each to one, and are not free: a region returns to   *)
(* the free ones only after the main thread let go of the connection.  No  *)
(* region is lost over connections that come, fail and go.                 *)
MemoryIsExclusive ==
  /\ Len(available_memory) + Cardinality({p \in Held : conns[p][1] # NoRegion})
       = Regions
  /\ \A l \in Polled : conns[l.proc] = <<l.region>>
  /\ \A l, m \in Polled : l.region = m.region => l = m
  /\ \A l \in Polled : \A i \in DOMAIN available_memory :
       available_memory[i] # l.region

(* The RPC thread never waits for ever for the main thread.                *)
AlterEnds == rpc # Idle ~> rpc = Idle
===============================================================================
