------------------------------- MODULE SmrServer ------------------------------
(***************************************************************************)
(* The replicated service: the event loop of each replica                  *)
(* (src/ubft/src/server.hpp, driven by the application of server-test.cpp), *)
(* its request log (consensus/internal/requests.hpp), and what it asks of  *)
(* consensus: batches to propose inside a window that checkpoints move,    *)
(* decisions in order, application states to checkpoint.                   *)
(*                                                                         *)
(* One client sends requests 1, 2, ...; a batch is a sequence of them.     *)
(* Agreement is taken from Consensus: `log` is the sequence of proposals,  *)
(* the same for all.  On the slow path decisions need a majority only, and *)
(* the leader proposes requests that nobody else echoed; the optimistic    *)
(* fast path does not wait for echoes either.                              *)
(***************************************************************************)
EXTENDS Integers, Sequences, FiniteSets, SequencesExt

CONSTANTS
  Replica, Leader,
  Window,        \* consensus window
  Slack,         \* decisions before the end of the window that a checkpoint
                 \* certificate is broadcast (10 in the code)
  ClientWindow,  \* client_window
  MaxBatch,      \* max_batch_size
  MaxRequest     \* bound: mode -> requests the client sends

VARIABLES
  mode,      \* "fast", "optimistic" or "slow", set before the service runs
  sent,      \* requests the client has sent
  log,       \* batches proposed to consensus
  slots,     \* consensus' to_propose: batches in slots not yet proposed
  server,    \* the leader's: last request polled, to_propose, should_repropose
  requests,  \* replica -> RequestLog: the last requests accepted
  replica,   \* replica -> where it is in the log, and its application
  acks,      \* checkpoints acknowledged: <<replica, next instance, app state>>
  thrown     \* replicas that ended with an exception

vars == <<mode, sent, log, slots, server, requests, replica, acks, thrown>>

None == 0
Majority == Cardinality(Replica) \div 2 + 1

Init ==
  /\ mode \in {"fast", "optimistic", "slow"}
  /\ sent = 0 /\ log = << >> /\ slots = << >>
  /\ server = [polled |-> 0, to_propose |-> << >>, should_repropose |-> FALSE]
  /\ requests = [r \in Replica |->
       [tail |-> << >>, accept_below |-> None, last |-> 0]]
  /\ replica = [r \in Replica |->
       [next_to_decide |-> 0, low |-> 0, certified |-> 0, validated |-> {},
        executed |-> << >>]]
  /\ acks = {} /\ thrown = {}

-----------------------------------------------------------------------------
(* The client sends while its window has room: a request is answered once  *)
(* a majority executed it.                                                 *)

Answered(k) ==
  Cardinality({r \in Replica : Len(replica[r].executed) >= k}) >= Majority

ClientSends ==
  /\ sent < MaxRequest[mode]
  /\ sent < ClientWindow \/ Answered(sent + 1 - ClientWindow)
  /\ sent' = sent + 1
  /\ UNCHANGED <<mode, log, slots, server, requests, replica, acks, thrown>>

\* Whether the tail map of a client keeps request j next to request k.
Recent_Mutant(j, k) == k + 1 < j + ClientWindow
Recent(j, k) == k < j + ClientWindow

\* It drops its front until it is recent.
RoomFor(tail, k) ==
  LET kept == {i \in 1..Len(tail) + 1 : i <= Len(tail) => Recent(tail[i], k)}
      first == CHOOSE i \in kept : \A j \in kept : i <= j
  IN  Append(SubSeq(tail, first, Len(tail)), k)

\* SingleClientRequests::addRequest refuses requests too far ahead, but moves
\* its limit with every request it accepts.
addRequest(l, k) ==
  IF l.accept_below # None /\ k >= l.accept_below THEN [l EXCEPT !.last = k]
  ELSE [tail |-> RoomFor(l.tail, k), accept_below |-> k + ClientWindow, last |-> k]

\* What the tail link from the client shows after l.last: the next request,
\* or, after ClientWindow later ones overwrote it, the oldest that is left.
NextReceived(l) ==
  IF l.last + 1 > sent - ClientWindow THEN l.last + 1 ELSE sent - ClientWindow + 1

\* pollClientRequests, when n requests arrived, or all that were sent.
pollClientRequests(r, n) ==
  LET after[i \in 0..n] ==
        IF i = 0 THEN requests[r]
        ELSE LET l == after[i - 1]
             IN  IF l.last = sent THEN l ELSE addRequest(l, NextReceived(l))
  IN  after[n]

\* RequestLog::isValid: all the batch's requests came from their clients.
isValid(r, batch) == \A i \in DOMAIN batch : Contains(requests[r].tail, batch[i])

-----------------------------------------------------------------------------
(* Consensus, as the server uses it *)

High(r) == replica[r].low + Window

\* Checkpoints that a majority acknowledged with the same state.
Certified ==
  {a[2] : a \in {b \in acks :
     Cardinality({c \in acks : c[2] = b[2] /\ c[3] = b[3]}) >= Majority}}

WithSlack_Mutant(r) == High(r) < replica[r].next_to_decide + Slack
WithSlack(r) == High(r) <= replica[r].next_to_decide + Slack

(* consensus.tick: adopts a checkpoint certificate that has arrived (or    *)
(* none), broadcasts it near the end of the window, or as soon as an       *)
(* instance beyond the window is proposed, and validates the proposals.    *)
(* Instances below a broadcast checkpoint are forgotten.                   *)
Ticked(r, cert) ==
  LET known == replica[r].certified
      new == IF cert > known THEN cert ELSE known
      move == new > replica[r].low /\ (WithSlack(r) \/ Len(log) > High(r))
  IN  [replica[r] EXCEPT
         !.certified = new,
         !.low = IF move THEN new ELSE @,
         !.validated = @ \cup {i \in 1..Len(log) : isValid(r, log[i])}]

NextDecision_Mutant(r) ==
  IF replica[r].low > replica[r].next_to_decide
  THEN replica[r].low ELSE replica[r].next_to_decide

NextDecision(r) == replica[r].next_to_decide

Validators(i) == {q \in Replica : i + 1 \in replica[q].validated}

\* pollDecision: the next instance, if it is still there and was committed.
Decidable(r) ==
  LET i == NextDecision(r)
  IN  /\ i < Len(log) /\ i >= replica[r].low
      /\ IF mode = "slow" THEN Cardinality(Validators(i)) >= Majority
         ELSE Validators(i) = Replica

should_checkpoint(i) == i % (Window \div 2) = Window \div 2 - 1

-----------------------------------------------------------------------------
(* Server::tick *)

\* pollProposable clears the vector of the previous batch and fills it.
Batched(n) == [i \in 1..n |-> server.polled + i]

\* Requests that rpc::Server::pollProposable offers, given the request logs.
Proposable(logs) ==
  {k \in server.polled + 1..server.polled + MaxBatch :
     \A r \in IF mode = "fast" THEN Replica ELSE {Leader} : k <= logs[r].last}

pollProposable(logs) ==
  LET n == Cardinality(Proposable(logs))
  IN  IF server.should_repropose \/ n = 0
      THEN [slots |-> slots, server |-> server]
      ELSE [slots |-> Append(slots, Batched(n)),
            server |-> [server EXCEPT !.polled = @ + n, !.to_propose = Batched(n)]]

\* Consensus::propose, up to the end of the window: the rest waits in its
\* slots for a checkpoint, and the server tries again before it polls.
Propose(p, low) ==
  LET n == IF low + Window - Len(log) < Len(p.slots)
           THEN low + Window - Len(log) ELSE Len(p.slots)
  IN  /\ log' = log \o SubSeq(p.slots, 1, n)
      /\ slots' = SubSeq(p.slots, n + 1, Len(p.slots))
      /\ server' = IF p.slots = << >> THEN p.server
                   ELSE [p.server EXCEPT !.should_repropose = n < Len(p.slots)]

Tick(r, n) ==
  /\ r \notin thrown
  /\ requests' = [requests EXCEPT ![r] = pollClientRequests(r, n)]
  /\ \E cert \in Certified \cup {0} :
       /\ replica' = [replica EXCEPT ![r] = Ticked(r, cert)]
       /\ IF r = Leader THEN Propose(pollProposable(requests'), replica'[r].low)
          ELSE UNCHANGED <<log, slots, server>>
  /\ UNCHANGED <<mode, sent, acks, thrown>>

-----------------------------------------------------------------------------
(* Server::pollToExecute and the application, for one decision: it         *)
(* executes and answers the requests, and checkpoints its state when told  *)
(* to, which is with the first request of a batch that ends half a window. *)

\* RequestLog::decided looks the client up; there is none before the first
\* request of the client was accepted.
KnowsClient(r) == requests[r].tail # << >>

Execute(r) ==
  /\ r \notin thrown /\ Decidable(r)
  /\ LET i == NextDecision(r)
         batch == log[i + 1]
         state == Append(replica[r].executed, Head(batch))
     IN  \/ /\ ~KnowsClient(r)
            /\ thrown' = thrown \cup {r}
            /\ UNCHANGED <<requests, replica, acks>>
         \/ /\ KnowsClient(r)
            /\ requests' = [requests EXCEPT
                 ![r].accept_below = Last(batch) + ClientWindow + 1]
            /\ replica' = [replica EXCEPT ![r].next_to_decide = i + 1,
                                         ![r].executed = @ \o batch]
            /\ acks' = IF should_checkpoint(i)
                       THEN acks \cup {<<r, i + 1, state>>} ELSE acks
            /\ UNCHANGED thrown
  /\ UNCHANGED <<mode, sent, log, slots, server>>

Next ==
  \/ ClientSends
  \/ \E r \in Replica :
       Execute(r) \/ \E n \in 0..(sent - requests[r].last) : Tick(r, n)

Spec == Init /\ [][Next]_vars

-----------------------------------------------------------------------------
(* Over any number of batches, proposals that had to wait for a checkpoint *)
(* and replicas that were outrun: the requests the leader took from the    *)
(* RPC layer are proposed, or wait in a slot, in order and once, and every *)
(* replica executes a prefix of them, skipping none.                       *)
ExecutesTheLog ==
  /\ FlattenSeq(log \o slots) = [k \in 1..server.polled |-> k]
  /\ \A r \in Replica : IsPrefix(replica[r].executed, FlattenSeq(log))

(* A replica drops a request that it accepted only after the client was    *)
(* answered, though the limit in addRequest moves with every request: the  *)
(* client's own window is what protects the requests still to be proposed. *)
DropsOnlyAnswered ==
  [][\A r \in Replica : \A k \in 1..sent :
       (Contains(requests[r].tail, k) /\ ~Contains(requests'[r].tail, k))
         => Answered(k)]_vars

(* A leader whose proposal waits for a checkpoint proposes it in the end:  *)
(* the checkpoint needs the decisions of the instances before, which need  *)
(* nothing from the leader's proposals that wait.                          *)
Reproposed ==
  server.should_repropose ~> (~server.should_repropose \/ thrown # {})
===============================================================================
