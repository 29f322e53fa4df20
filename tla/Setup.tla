--------------------------------- MODULE Setup --------------------------------
(***************************************************************************)
(* How the replicas find and wire each other before they run               *)
(* (src/ubft/src: crypto.hpp, rpc/server.hpp, the builders, server-test.cpp *)
(* over src/memstore and src/conn/src/rc-exchanger.hpp).                   *)
(*                                                                         *)
(* Each replica lists the endpoints of its queue pairs, announces them in  *)
(* a shared store, waits at a barrier, connects each to the one it finds   *)
(* under the name the other side must have used, and waits again.  An      *)
(* endpoint is its namespace, the two ends with their roles, and the       *)
(* rights over its memory that it gives to the remote end.                 *)
(***************************************************************************)
EXTENDS Integers, Sequences, FiniteSets

CONSTANT Replica   \* server_ids

VARIABLES
  step,       \* replica -> its position in Program
  arrived,    \* replicas that counted themselves at the barrier they are at
  store,      \* keys set in the store
  barriers,   \* barrier -> its counter
  connected,  \* endpoints connected so far
  thrown      \* replicas that ended with an exception

vars == <<step, arrived, store, barriers, connected, thrown>>

-----------------------------------------------------------------------------
(* Endpoints.  A name that needs no replica in it has 0.                   *)

Names(strings, replicas) == strings \X replicas
Others(p) == Replica \ {p}

SenderTo(p, q, id) ==
  [ns |-> <<"p2p", id, p, q>>, local |-> p, remote |-> q,
   role |-> "none", remote_role |-> "none", rights |-> {}]

ReceiverFrom(p, q, id) ==
  [ns |-> <<"p2p", id, q, p>>, local |-> p, remote |-> q,
   role |-> "none", remote_role |-> "none", rights |-> {"read", "write"}]

HostRights_Mutant(x, owner) == {"read", "write"}

\* Two memory regions over the registers, one that the owner may write.
HostRights(x, owner) == IF x = owner THEN {"read", "write"} ELSE {"read"}

HostFor(p, owner, x, id) ==
  [ns |-> <<"swmr", id, p, owner>>, local |-> p, remote |-> x,
   role |-> "host", remote_role |-> "reader_writer",
   rights |-> HostRights(x, owner)]

ReaderAt(h, p, owner, id) ==
  [ns |-> <<"swmr", id, h, owner>>, local |-> p, remote |-> h,
   role |-> "reader_writer", remote_role |-> "host", rights |-> {}]

WriterAt(h, p, id) ==
  [ns |-> <<"swmr", id, h, p>>, local |-> p, remote |-> h,
   role |-> "reader_writer", remote_role |-> "host", rights |-> {}]

\* The replicated register has a reader or writer at each host.
ReaderOf(p, owner, id) == {ReaderAt(h, p, owner, id) : h \in Replica}
WriterOf(p, id) == {WriterAt(h, p, id) : h \in Replica}

BothWays(p, ids) ==
  {SenderTo(p, q, id) : q \in Others(p), id \in ids} \cup
  {ReceiverFrom(p, q, id) : q \in Others(p), id \in ids}

\* rpc::Server::connectServers
RpcEndpoints(p) ==
  BothWays(p, Names({"request", "sig-request", "ack"}, {0}))

\* Every replica hosts the registers of the receivers of every broadcaster.
Hosts(p) ==
  UNION {{HostFor(p, owner, x, <<"cb", b>>) : owner \in Others(b), x \in Others(b)}
         : b \in Replica}

BroadcasterEndpoints(p) ==
  {SenderTo(p, q, id) : q \in Others(p), id \in Names({"messages", "signatures"}, {p})}

ReceiverEndpoints(p, b) ==
  {ReceiverFrom(p, b, id) : id \in Names({"messages", "signatures"}, {b})} \cup
  {e \in BothWays(p, {<<"echoes", b>>}) : e.remote # b} \cup
  UNION {ReaderOf(p, owner, <<"cb", b>>) : owner \in Others(b) \ {p}} \cup
  WriterOf(p, <<"cb", b>>)

CertifierEndpoints(p, id) ==
  BothWays(p, {<<"promise-" \o id[1], id[2]>>, <<"share-" \o id[1], id[2]>>})

ConsensusEndpoints(p) ==
  Hosts(p) \cup BroadcasterEndpoints(p)
  \cup UNION {ReceiverEndpoints(p, b) : b \in Others(p)}
  \cup UNION {CertifierEndpoints(p, id) :
                id \in Names({"prepares", "checkpoint"}, {0}) \cup
                       Names({"vc-state", "cb-checkpoint"}, Replica)}
  \cup BothWays(p, Names({"fast-commit", "cb-checkpoint"}, {0}))

-----------------------------------------------------------------------------
(* The program of a replica: the public keys, then twice announce, connect *)
(* and build, for the RPC server (in its constructor) and for consensus.   *)

Round(part) ==
  <<[do |-> "announce", what |-> part], [do |-> "wait", what |-> part \o "_announced"],
    [do |-> "connect", what |-> part], [do |-> "wait", what |-> part \o "_connected"],
    [do |-> "wait", what |-> part \o "_abstractions_initialized"]>>

Program == SubSeq(Round("keys"), 1, 3) \o Round("rpc") \o Round("consensus")

Endpoints(part, p) ==
  IF part = "rpc" THEN RpcEndpoints(p) ELSE ConsensusEndpoints(p)

KeyOf(e) == <<e.ns, e.local, e.role, e.remote, e.remote_role>>
LookedUp(e) == <<e.ns, e.remote, e.remote_role, e.local, e.role>>
PublicKey(p) == <<<<"pubkey", <<"pubkey", 0>>, p, p>>, p, "none", p, "none">>

Announced(part, p) ==
  IF part = "keys" THEN {PublicKey(p)} ELSE {KeyOf(e) : e \in Endpoints(part, p)}

Needed(part, p) ==
  IF part = "keys" THEN {PublicKey(q) : q \in Replica}
  ELSE {LookedUp(e) : e \in Endpoints(part, p)}

Init ==
  /\ step = [p \in Replica |-> 1]
  /\ arrived = {} /\ store = {} /\ connected = {} /\ thrown = {}
  /\ barriers = [b \in {Program[i].what :
                   i \in {j \in DOMAIN Program : Program[j].do = "wait"}} |-> 0]

Running == {p \in Replica : step[p] > Len(Program)}

At(p, do) ==
  p \notin Running \cup thrown /\ Program[step[p]].do = do

Advance(p) == step' = [step EXCEPT ![p] = @ + 1]
Throw(p) == thrown' = thrown \cup {p}

\* MemoryStore::set refuses a key that exists.
Announce(p) ==
  /\ At(p, "announce")
  /\ LET keys == Announced(Program[step[p]].what, p)
     IN  IF keys \cap store = {}
         THEN store' = store \cup keys /\ Advance(p) /\ UNCHANGED thrown
         ELSE Throw(p) /\ UNCHANGED <<store, step>>
  /\ UNCHANGED <<arrived, barriers, connected>>

WaitFor == Cardinality(Replica)

\* MemoryStore::barrier: counts itself once, then polls the counter.
Wait(p) ==
  /\ At(p, "wait")
  /\ LET b == Program[step[p]].what
         count == barriers[b] + IF p \in arrived THEN 0 ELSE 1
     IN  /\ barriers' = [barriers EXCEPT ![b] = count]
         /\ IF count = WaitFor THEN Advance(p) /\ arrived' = arrived \ {p}
            ELSE UNCHANGED step /\ arrived' = arrived \cup {p}
         /\ IF count > WaitFor THEN Throw(p) ELSE UNCHANGED thrown
  /\ UNCHANGED <<store, connected>>

\* RcConnectionExchanger::connect throws if the other side did not announce.
Connect(p) ==
  /\ At(p, "connect")
  /\ LET part == Program[step[p]].what
     IN  IF Needed(part, p) \subseteq store
         THEN /\ Advance(p)
              /\ connected' = IF part = "keys" THEN connected
                              ELSE connected \cup Endpoints(part, p)
              /\ UNCHANGED thrown
         ELSE Throw(p) /\ UNCHANGED <<step, connected>>
  /\ UNCHANGED <<arrived, store, barriers>>

Next == \E p \in Replica : Announce(p) \/ Wait(p) \/ Connect(p)

Spec == Init /\ [][Next]_vars

-----------------------------------------------------------------------------
(* No replica ends in an exception: no two endpoints anywhere share a key, *)
(* every key looked up was announced before, no barrier is passed by more  *)
(* than the group.                                                         *)
NobodyThrows == thrown = {}

Faces(e, f) == LookedUp(e) = KeyOf(f) /\ LookedUp(f) = KeyOf(e)

(* As soon as one replica runs, its queue pairs and those of all others    *)
(* are connected in pairs that face each other, so that no write of the    *)
(* first messages meets a queue pair that is not ready; in a pair that     *)
(* carries messages exactly the receiver's memory can be written, and in a *)
(* pair for registers only the one owner can write.                        *)
WiredBeforeRun ==
  Running # {} =>
    \A p \in Replica : \A e \in RpcEndpoints(p) \cup ConsensusEndpoints(p) :
      \E f \in connected :
        /\ e \in connected /\ Faces(e, f)
        /\ e.ns[1] = "p2p" =>
             ("write" \in e.rights) # ("write" \in f.rights)
        /\ e.role = "host" =>
             ("write" \in e.rights <=> f.local = e.ns[4])
===============================================================================
