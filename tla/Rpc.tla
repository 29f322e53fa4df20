---------------------------------- MODULE Rpc ---------------------------------
(***************************************************************************)
(* The RPC layer between clients and replicas:                             *)
(*  - rpc::Client (src/ubft/src/rpc/client.hpp) sends each request to all  *)
(*    servers and waits for a majority of equal responses;                 *)
(*  - rpc::Server (src/ubft/src/rpc/server.hpp) and RequestIngress         *)
(*    (src/ubft/src/rpc/internal/ingress.hpp) gather requests from clients *)
(*    and other servers, under acknowledged backpressure, until consensus  *)
(*    may accept and propose them.                                         *)
(* Fast path: followers echo requests to the leader.  Slow path: clients   *)
(* sign, threads verify, the leader forwards.  Consensus is external: one  *)
(* log of proposals, which every server executes in order.                 *)
(***************************************************************************)
EXTENDS Integers, Sequences, FiniteSets

CONSTANTS
  Server,       \* numbers; the least is the leader
  Client,
  Faulty,       \* clients that may send different requests to the servers
  Value,        \* path -> contents of requests
  Window,       \* client window
  ServerWindow,
  Mute,         \* the server that never responds ("to simulate real latency")
  Paths,        \* path configurations of a run: subset of Path
  MaxRequest    \* bound: path -> requests of each client

VARIABLES
  path,         \* fast, slow or optimistic, set up before the servers run
  next_request, \* client -> id of its next request
  waiting,      \* client -> its requests: id -> responses
  next_response,\* client -> server -> first id not answered by the server
  answers,      \* client -> what poll returned, in order
  signing,      \* client -> requests handed to its signing threads
  to_server,    \* link client -> server: requests, signed on the slow path
  to_client,    \* link server -> client
  echo_link,    \* link server -> server: echoes and forwarded requests
  ack_link,     \* link server -> server: numbers of requests taken
  outstanding,  \* server -> server -> outstanding_requests
  ingress,      \* server -> client -> ClientRequestIngress
  verifying,    \* server -> client -> source -> signatures handed to the threads
  verified,     \* server -> client -> verified_signatures
  connected,    \* server -> clients whose connection it recorded
  accepted,     \* server -> requests given to consensus, in order
  log,          \* requests proposed
  executed,     \* server -> length of the prefix it executed
  blames        \* exceptions thrown

client_vars == <<next_request, waiting, next_response, answers, signing>>
link_vars == <<echo_link, ack_link, outstanding>>
verify_vars == <<verifying, verified>>
smr_vars == <<log, executed, accepted>>
vars == <<path, client_vars, to_server, to_client, link_vars, ingress,
          verify_vars, connected, smr_vars, blames>>

Path == {"fast", "slow", "optimistic"}
Source == {"client", "leader"}
Leader == CHOOSE s \in Server : \A t \in Server : s <= t
Follower == Server \ {Leader}
Quorum == Cardinality(Server) \div 2 + 1
Req(c, id, v) == [client |-> c, id |-> id, value |-> v]
Response(id, res) == [id |-> id, result |-> res]
NoRequests == [id \in {} |-> 0]

\* A tail point-to-point link keeps the last `tail` messages.
Send(link, m, tail) ==
  IF Len(link) < tail THEN Append(link, m) ELSE Append(Tail(link), m)

\* getOrCreateClient: what a server keeps of a client before it hears from it.
NewClient ==
  [requests |-> NoRequests, min |-> 0, buffered |-> [f \in Server |-> << >>],
   below |-> Window, received |-> 0, proposable |-> 0,
   relay |-> [t \in Server |-> 0]]

ClientInit ==
  /\ next_request = [c \in Client |-> 0]
  /\ waiting = [c \in Client |-> NoRequests]
  /\ next_response = [c \in Client |-> [s \in Server |-> 0]]
  /\ answers = [c \in Client |-> << >>]
  /\ signing = [c \in Client |-> << >>]

Init ==
  /\ path \in Paths
  /\ ClientInit
  /\ to_server = [c \in Client |-> [s \in Server |-> << >>]]
  /\ to_client = [s \in Server |-> [c \in Client |-> << >>]]
  /\ echo_link = [s \in Server |-> [t \in Server |-> << >>]]
  /\ ack_link = [s \in Server |-> [t \in Server |-> << >>]]
  /\ outstanding = [s \in Server |-> [t \in Server |-> 0]]
  /\ ingress = [s \in Server |-> [c \in Client |-> NewClient]]
  /\ verifying = [s \in Server |-> [c \in Client |-> [from \in Source |-> << >>]]]
  /\ verified = [s \in Server |-> [c \in Client |-> << >>]]
  /\ connected = [s \in Server |-> {}]
  /\ accepted = [s \in Server |-> << >>]
  /\ log = << >> /\ executed = [s \in Server |-> 0]
  /\ blames = {}

-----------------------------------------------------------------------------
(* The client *)

\* The tail map of requests: a new greatest id drops those Window behind.
Near(ids, id) == {i \in ids : id < i + Window}
WithKey(m, id, e) ==
  [i \in Near(DOMAIN m, id) \cup {id} |-> IF i = id THEN e ELSE m[i]]

\* A correct client sends one request to all servers.
Requests(c, id) ==
  {[s \in Server |-> Req(c, id, val[s])] : val \in
     {val \in [Server -> Value[path]] :
        c \in Faulty \/ \A s, t \in Server : val[s] = val[t]}}

Transmit(c, reqs) ==
  to_server' = [to_server EXCEPT ![c] =
                  [s \in Server |-> Send(@[s], reqs[s], Window)]]

\* getSlot and post; on the slow path a thread signs the request first.
Post(c) ==
  /\ next_request[c] < MaxRequest[path]
  /\ next_request' = [next_request EXCEPT ![c] = @ + 1]
  /\ waiting' = [waiting EXCEPT ![c] = WithKey(@, next_request[c], << >>)]
  /\ \E reqs \in Requests(c, next_request[c]) :
       IF path = "slow"
       THEN /\ signing' = [signing EXCEPT ![c] = Send(@, reqs, Window)]
            /\ UNCHANGED to_server
       ELSE Transmit(c, reqs) /\ UNCHANGED signing
  /\ UNCHANGED <<path, next_response, answers, to_client, link_vars, ingress,
                 verify_vars, connected, smr_vars, blames>>

Without(q, i) == SubSeq(q, 1, i - 1) \o SubSeq(q, i + 1, Len(q))

\* pollSignatures: requests leave in the order in which threads sign them.
Sign(c) ==
  /\ \E i \in DOMAIN signing[c] :
       /\ Transmit(c, signing[c][i])
       /\ signing' = [signing EXCEPT ![c] = Without(@, i)]
  /\ UNCHANGED <<path, next_request, waiting, next_response, answers, to_client,
                 link_vars, ingress, verify_vars, connected, smr_vars, blames>>

\* newResponse, kept in the order of arrival.
PollResponse(c, s) ==
  /\ next_response[c][s] < next_request[c] /\ to_client[s][c] # << >>
  /\ LET r == Head(to_client[s][c]) IN
     /\ next_response' = [next_response EXCEPT ![c][s] = r.id + 1]
     /\ waiting' = IF r.id \in DOMAIN waiting[c]
                   THEN [waiting EXCEPT ![c][r.id] = Append(@, r.result)]
                   ELSE waiting
  /\ to_client' = [to_client EXCEPT ![s][c] = Tail(@)]
  /\ UNCHANGED <<path, next_request, answers, signing, to_server, link_vars,
                 ingress, verify_vars, connected, smr_vars, blames>>

Enough_Mutant(responses) == Len(responses) >= Quorum - 1
Enough(responses) == Len(responses) >= Quorum
Identical(responses) == \A i \in DOMAIN responses : responses[i] = responses[1]

\* poll looks at the oldest request only.
PollAnswer(c) ==
  /\ DOMAIN waiting[c] # {}
  /\ LET id == CHOOSE i \in DOMAIN waiting[c] :
                 \A j \in DOMAIN waiting[c] : i <= j
         responses == waiting[c][id]
     IN /\ Enough(responses)
        /\ IF Identical(responses)
           THEN /\ answers' = [answers EXCEPT ![c] =
                     Append(@, Response(id, responses[1]))]
                /\ waiting' = [waiting EXCEPT ![c] =
                     [i \in DOMAIN @ \ {id} |-> @[i]]]
                /\ UNCHANGED blames
           ELSE /\ blames' = blames \cup {"responses did not match"}
                /\ UNCHANGED <<answers, waiting>>
  /\ UNCHANGED <<path, next_request, next_response, signing, to_server,
                 to_client, link_vars, ingress, verify_vars, connected, smr_vars>>

-----------------------------------------------------------------------------
(* RequestStateMachine and ClientRequestIngress *)

Entry(v, sig) == [value |-> v, echoes |-> {}, signed |-> sig]

Echoed_Mutant(e, v, f) == [e EXCEPT !.echoes = @ \cup {f}]
\* echoed: a second echo or one of another value is ignored.
Echoed(e, v, f) ==
  IF v = e.value THEN [e EXCEPT !.echoes = @ \cup {f}] ELSE e

\* Older echoes leave the buffer; the first of the others is replayed if it is
\* for this request.
FirstRecent(buffer, id) ==
  LET older == CHOOSE n \in 0..Len(buffer) :
                 /\ \A i \in 1..n : buffer[i].id < id
                 /\ n = Len(buffer) \/ buffer[n + 1].id >= id
  IN  SubSeq(buffer, older + 1, Len(buffer))
Replayed(buffer, id) ==
  FirstRecent(buffer, id) # << >> /\ Head(FirstRecent(buffer, id)).id = id

\* fromClient(Request): a fresh entry, then the echoes that came before it.
Inserted(in, r) ==
  LET fresh == Entry(r.value, FALSE)
      counted == {f \in Follower : Replayed(in.buffered[f], r.id)
                    /\ Echoed(fresh, Head(FirstRecent(in.buffered[f], r.id)).value, f)
                         # fresh}
  IN [in EXCEPT
        !.requests = WithKey(@, r.id, [fresh EXCEPT !.echoes = counted]),
        !.min = r.id,
        !.buffered = [f \in Server |->
           LET rest == FirstRecent(@[f], r.id)
           IN IF Replayed(@[f], r.id) THEN Tail(rest) ELSE rest]]

\* fromFollower
EchoReceived(in, r, f) ==
  IF r.id \in DOMAIN in.requests
  THEN [in EXCEPT !.requests[r.id] = Echoed(@, r.value, f)]
  ELSE [in EXCEPT !.buffered[f] = Send(@, r, Window)]

\* "Jump over gaps": a cursor never stays behind the first request.
Jump(in, cursor) ==
  LET first == CHOOSE i \in DOMAIN in.requests :
                 \A j \in DOMAIN in.requests : i <= j
  IN IF first > cursor THEN first ELSE cursor

Proposable(e) ==
  CASE path = "optimistic" -> TRUE
    [] path = "fast" -> e.echoes = Follower
    [] path = "slow" -> e.signed

-----------------------------------------------------------------------------
(* The servers: requests from clients *)

PollClientRequest(s, c) ==
  /\ path # "slow" /\ to_server[c][s] # << >>
  /\ LET r == Head(to_server[c][s])
         in == ingress[s][c]
     IN IF r.id \in DOMAIN in.requests \/ r.id < in.min
        THEN /\ blames' = blames \cup {"client sent request twice"}
             /\ UNCHANGED <<ingress, connected>>
        ELSE /\ ingress' = [ingress EXCEPT ![s][c] = Inserted(in, r)]
             /\ connected' = [connected EXCEPT ![s] = @ \cup {c}]
             /\ UNCHANGED blames
  /\ to_server' = [to_server EXCEPT ![c][s] = Tail(@)]
  /\ UNCHANGED <<path, client_vars, to_client, link_vars, verify_vars, smr_vars>>

\* enqueueSignatureVerification: a task unless the entry is signed already.
Unsigned(in, r) ==
  ~(r.id \in DOMAIN in.requests /\ in.requests[r.id].signed)
Offload(tasks, in, r) == IF Unsigned(in, r) THEN Send(tasks, r, Window) ELSE tasks

PollClientSignedRequest(s, c) ==
  /\ path = "slow" /\ to_server[c][s] # << >>
  /\ verifying' = [verifying EXCEPT ![s][c]["client"] =
                     Offload(@, ingress[s][c], Head(to_server[c][s]))]
  /\ to_server' = [to_server EXCEPT ![c][s] = Tail(@)]
  /\ connected' = [connected EXCEPT ![s] = @ \cup {c}]
  /\ UNCHANGED <<path, client_vars, to_client, link_vars, ingress, verified,
                 smr_vars, blames>>

\* Threads finish in any order.
Verify(s, c) ==
  /\ \E from \in Source : \E i \in DOMAIN verifying[s][c][from] :
       /\ verified' = [verified EXCEPT ![s][c] =
                         Append(@, verifying[s][c][from][i])]
       /\ verifying' = [verifying EXCEPT ![s][c][from] = Without(@, i)]
  /\ UNCHANGED <<path, client_vars, to_server, to_client, link_vars, ingress,
                 connected, smr_vars, blames>>

\* pollVerifiedSignatures: an id below the last emplaced is discarded.
PollVerifiedSignature(s, c) ==
  /\ verified[s][c] # << >>
  /\ LET r == Head(verified[s][c])
         in == ingress[s][c]
     IN ingress' = [ingress EXCEPT ![s][c] =
          IF r.id \in DOMAIN in.requests
          THEN [in EXCEPT !.requests[r.id].signed = TRUE]
          ELSE IF r.id < in.min THEN in
          ELSE [in EXCEPT !.requests = WithKey(@, r.id, Entry(r.value, TRUE)),
                          !.min = r.id]]
  /\ verified' = [verified EXCEPT ![s][c] = Tail(@)]
  /\ UNCHANGED <<path, client_vars, to_server, to_client, link_vars, verifying,
                 connected, smr_vars, blames>>

-----------------------------------------------------------------------------
(* The servers: requests from each other *)

\* What a follower may echo to the leader: what it gave to consensus.
pollToEcho(in, id) == id \in DOMAIN in.requests /\ id < in.received
\* What the leader may forward to a follower: what it has a signature of.
pollToForward(in, id) == id \in DOMAIN in.requests /\ in.requests[id].signed

\* One request from s to t, if t acknowledged enough of the earlier ones.
Relay(s, t, c) ==
  /\ outstanding[s][t] < ServerWindow
  /\ LET in == ingress[s][c]
         id == Jump(in, in.relay[t])
     IN /\ DOMAIN in.requests # {}
        /\ IF t = Leader THEN pollToEcho(in, id) ELSE pollToForward(in, id)
        /\ echo_link' = [echo_link EXCEPT ![s][t] =
             Send(@, Req(c, id, in.requests[id].value), ServerWindow)]
        /\ ingress' = [ingress EXCEPT ![s][c].relay[t] = id + 1]
  /\ outstanding' = [outstanding EXCEPT ![s][t] = @ + 1]
  /\ UNCHANGED <<path, client_vars, to_server, to_client, ack_link, verify_vars,
                 connected, smr_vars, blames>>

echoToLeader(s, c) ==
  path = "fast" /\ s \in Follower /\ Relay(s, Leader, c)
echoToFollower(t, c) ==
  path = "slow" /\ t \in Follower /\ Relay(Leader, t, c)

\* pollFollowerEchoes or pollLeaderSignedEchoes: up to three, one ack for all.
MaxPolls == 3
Acked_Mutant(k) == MaxPolls
Acked(k) == k

\* What the first k requests on a link do to what is kept of client c.
Echoes(in, s, c, k) ==
  LET after[i \in 0..k] ==
        IF i = 0 THEN in
        ELSE LET r == echo_link[s][Leader][i]
             IN  IF r.client = c THEN EchoReceived(after[i - 1], r, s)
                 ELSE after[i - 1]
  IN  after[k]
Offloads(tasks, t, c, k) ==
  LET after[i \in 0..k] ==
        IF i = 0 THEN tasks
        ELSE LET r == echo_link[Leader][t][i]
             IN  IF r.client = c THEN Offload(after[i - 1], ingress[t][c], r)
                 ELSE after[i - 1]
  IN  after[k]

\* The first k requests from s leave the link, and t acknowledges them.
Taken(t, s, k) ==
  /\ k <= Len(echo_link[s][t])
  /\ echo_link' = [echo_link EXCEPT ![s][t] = SubSeq(@, k + 1, Len(@))]
  /\ ack_link' = [ack_link EXCEPT ![t][s] = Send(@, Acked(k), ServerWindow)]
  /\ UNCHANGED <<path, client_vars, to_server, to_client, outstanding, verified,
                 connected, smr_vars, blames>>

pollFollowerEchoes(s) ==
  /\ path = "fast"
  /\ \E k \in 1..MaxPolls :
       /\ Taken(Leader, s, k)
       /\ ingress' = [ingress EXCEPT
            ![Leader] = [c \in Client |-> Echoes(@[c], s, c, k)]]
  /\ UNCHANGED verifying

pollLeaderSignedEchoes(t) ==
  /\ path = "slow"
  /\ \E k \in 1..MaxPolls :
       /\ Taken(t, Leader, k)
       /\ verifying' = [verifying EXCEPT ![t] = [c \in Client |->
            [verifying[t][c] EXCEPT
               !["leader"] = Offloads(verifying[t][c]["leader"], t, c, k)]]]
  /\ UNCHANGED ingress

PollAck(s, t) ==
  /\ outstanding[s][t] > 0 /\ ack_link[t][s] # << >>
  /\ LET ack == Head(ack_link[t][s]) IN
     IF ack > outstanding[s][t]
     THEN /\ blames' = blames \cup {"acked too much"}
          /\ UNCHANGED outstanding
     ELSE /\ outstanding' = [outstanding EXCEPT ![s][t] = @ - ack]
          /\ UNCHANGED blames
  /\ ack_link' = [ack_link EXCEPT ![t][s] = Tail(@)]
  /\ UNCHANGED <<path, client_vars, to_server, to_client, echo_link, ingress,
                 verify_vars, connected, smr_vars>>

-----------------------------------------------------------------------------
(* The servers: towards consensus and back *)

\* pollReceived, then consensus.acceptRequest.
PollReceived(s, c) ==
  /\ LET in == ingress[s][c]
         id == Jump(in, in.received)
     IN /\ DOMAIN in.requests # {} /\ id \in DOMAIN in.requests /\ id < in.below
        /\ ingress' = [ingress EXCEPT ![s][c].received = id + 1]
        /\ accepted' = [accepted EXCEPT ![s] =
             Append(@, Req(c, id, in.requests[id].value))]
  /\ UNCHANGED <<path, client_vars, to_server, to_client, link_vars, verify_vars,
                 connected, log, executed, blames>>

Propose(in, id) == id + 1

\* pollProposable: only what this server received.
PollProposable(c) ==
  /\ LET in == ingress[Leader][c]
         id == Jump(in, in.proposable)
     IN /\ DOMAIN in.requests # {} /\ id < in.received
        /\ id \in DOMAIN in.requests /\ Proposable(in.requests[id])
        /\ ingress' = [ingress EXCEPT ![Leader][c].proposable = Propose(in, id)]
        /\ log' = Append(log, Req(c, id, in.requests[id].value))
  /\ Len(log) < MaxRequest[path] * Cardinality(Client)
  /\ UNCHANGED <<path, client_vars, to_server, to_client, link_vars, verify_vars,
                 connected, accepted, executed, blames>>

\* Consensus decided the next request: the result is its place in the log.
\* A server that never heard from the client itself neither responds nor
\* moves the client's window.
Execute(s) ==
  /\ executed[s] < Len(log)
  /\ executed' = [executed EXCEPT ![s] = @ + 1]
  /\ LET r == log[executed[s] + 1] IN
     IF r.client \in connected[s]
     THEN /\ ingress' = [ingress EXCEPT ![s][r.client].below = r.id + Window + 1]
          /\ to_client' = IF s = Mute THEN to_client
               ELSE [to_client EXCEPT ![s][r.client] =
                       Send(@, Response(r.id, executed[s] + 1), Window)]
     ELSE UNCHANGED <<ingress, to_client>>
  /\ UNCHANGED <<path, client_vars, to_server, link_vars, verify_vars, connected,
                 accepted, log, blames>>

Next ==
  \/ \E c \in Client : Post(c) \/ Sign(c) \/ PollAnswer(c) \/ PollProposable(c)
  \/ \E s \in Server, c \in Client :
       \/ PollResponse(c, s) \/ PollReceived(s, c)
       \/ PollClientRequest(s, c) \/ PollClientSignedRequest(s, c)
       \/ Verify(s, c) \/ PollVerifiedSignature(s, c)
       \/ echoToLeader(s, c) \/ echoToFollower(s, c)
  \/ \E s, t \in Server : PollAck(s, t)
  \/ \E s \in Server :
       Execute(s) \/ pollFollowerEchoes(s) \/ pollLeaderSignedEchoes(s)

Spec == Init /\ [][Next]_vars

-----------------------------------------------------------------------------
SumOf(acks) ==
  LET sum[n \in 0..Len(acks)] == IF n = 0 THEN 0 ELSE sum[n - 1] + acks[n]
  IN  sum[Len(acks)]

(* Backpressure is exact: what a server counts as outstanding towards      *)
(* another is what is on the link plus what is acknowledged on the way     *)
(* back, so neither of the two links ever overwrites a message.            *)
CreditsBalance ==
  \A s, t \in Server :
    /\ outstanding[s][t] = Len(echo_link[s][t]) + SumOf(ack_link[t][s])
    /\ outstanding[s][t] <= ServerWindow

(* On the fast path a request is proposed only after every server received *)
(* the same request from the client itself and accepted it in consensus,   *)
(* though echoes may overtake the client's own message and the client may  *)
(* send different requests with one id.                                    *)
ProposedIsAcceptedByAll ==
  path = "fast" =>
    \A i \in DOMAIN log, s \in Server :
      \E j \in DOMAIN accepted[s] : accepted[s][j] = log[i]

(* Each server accepts, and the leader proposes, the requests of a client  *)
(* in increasing order and none twice, whatever the order in which the     *)
(* signatures were verified.                                               *)
OrderedOnce ==
  \A q \in {log} \cup {accepted[s] : s \in Server} :
    \A i, j \in DOMAIN q :
      i < j /\ q[i].client = q[j].client => q[i].id < q[j].id

(* A client gets the answers of its requests in order, each the result of  *)
(* that request, and at least a majority executed it.                      *)
AnswersAreResults ==
  \A c \in Client : \A i \in DOMAIN answers[c] :
    LET a == answers[c][i] IN
    /\ log[a.result].client = c /\ log[a.result].id = a.id
    /\ Cardinality({s \in Server : executed[s] >= a.result}) >= Quorum
    /\ \A j \in DOMAIN answers[c] : i < j => a.id < answers[c][j].id
===============================================================================
