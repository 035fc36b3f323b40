------------------------------- MODULE Evidence -------------------------------
(***************************************************************************)
(* The exchange of capacity evidence: fetch_evidence of net/evidence.cpp,   *)
(* the loop of EvidenceServer, the frame reader between them and the        *)
(* sockets under it, with the provider whose evidence the server hands out, *)
(* as tools/cfn-evidence-node.cpp implements one.                          *)
(*                                                                         *)
(* A client fetches once, over a connection of its own; the server serves   *)
(* one connection at a time.  A frame is sent in two pieces, and a receive  *)
(* takes whatever prefix of the stream has arrived.  A wait for the socket  *)
(* may end without it at any moment: the timeout passed, select was         *)
(* interrupted, or the connection was reset and took what was on its way.   *)
(* Each side then closes its end and forgets the connection.  A send waits  *)
(* so only before it begins: a reply that is larger than what the           *)
(* connection takes holds the server until the peer reads it or is gone.    *)
(* A peer need not be a fetch: it takes its turn, but may say nothing, read *)
(* nothing, or greet the server over and over.                             *)
(***************************************************************************)
EXTENDS Naturals, Sequences, Functions, FiniteSetsExt, Positions

CONSTANTS
  Clients,
  Options(_),    \* the options a client may fetch with
  Population,    \* the resources of the provider, in its order
  Authorised,    \* those whose evidence is authoritative
  Largest,       \* the largest epoch, generation and incarnation considered
  Limit,         \* max_evidence_records_per_response
  Taken          \* the records of a reply that a connection takes unread

Nobody == "nobody"

\* What the code's types hold; an option is of one of the two kinds of peer.
ASSUME EvidenceAssumption ==
  /\ Population \in Seq(Range(Population))
  /\ Nobody \notin Clients
  /\ Largest \in Nat \ {0} /\ Limit \in Nat /\ Taken \in Nat
  /\ \A c \in Clients : \A o \in Options(c) :
       /\ {o.epoch, o.generation, o.since, o.max} \subseteq Nat
       /\ {o.fetches, o.native} \subseteq BOOLEAN

VARIABLES
  provider,      \* epoch, boot and evidence generation, and what is held
  server,        \* where run() is, its connection, its reader and its reply
  stopping,      \* stopping_
  backlog,       \* connections that wait to be accepted
  option,        \* what each client requires, whether it is of the protocol's
                 \* version, and whether it is a fetch or some other peer
  client,        \* where each fetch is, its reader and what it has learnt
  toServer,      \* pieces on their way to the server
  toClient,
  ends,          \* the ends of each connection that are open
  asked,         \* what the provider held when the request was sent
  dropped        \* frames that a reader decoded and nobody was given

vars == <<provider, server, stopping, backlog, option, client, toServer, toClient, ends, asked, dropped>>
network == <<toServer, toClient, ends>>

Resources == Range(Population)
Unread == [kind |-> "none"]

-----------------------------------------------------------------------------
(* The provider *)

\* A record of the provider, of a generation of its resource and of a
\* generation of evidence.
Record(r) ==
  [resource |-> r, rgen |-> provider.held[r].rgen, egen |-> provider.held[r].egen,
   authoritative |-> r \in Authorised]

Capped(seq, n) == SubSeq(seq, 1, IF Len(seq) < n THEN Len(seq) ELSE n)

RecordsAt(positions) ==
  [i \in 1 .. Cardinality(positions) |-> Record(Population[InOrder(positions)[i]])]

\* Mutant of Fetched: what is of the generation asked for is left out too.
FetchedAfter(since, max) ==
  Capped(RecordsAt({i \in DOMAIN Population : provider.held[Population[i]].rgen > since}), max)

\* Records older than the generation asked for are left out, and the rest is
\* cut off at a number.
Fetched(since, max) ==
  Capped(RecordsAt({i \in DOMAIN Population : provider.held[Population[i]].rgen >= since}), max)

\* New evidence, which may be of a new generation of its resource.
Observe ==
  /\ provider.generation < Largest
  /\ \E r \in Resources, renewed \in {0, 1} :
       /\ provider.held[r].rgen + renewed <= Largest
       /\ provider' = [provider EXCEPT
            !.generation = @ + 1,
            !.held[r] = [rgen |-> @.rgen + renewed, egen |-> provider.generation + 1]]
  /\ UNCHANGED <<server, stopping, backlog, option, client, network, asked, dropped>>

AdvanceEpoch ==
  /\ provider.epoch < Largest
  /\ provider' = [provider EXCEPT !.epoch = @ + 1]
  /\ UNCHANGED <<server, stopping, backlog, option, client, network, asked, dropped>>

-----------------------------------------------------------------------------
(* Messages, which are encoded and decoded as they are, and their frames *)

Hello(o) == [kind |-> "hello", native |-> o.native]
Request(o) == [kind |-> "request", since |-> o.since, max |-> o.max]
Ack == [kind |-> "ack", epoch |-> 0, boot |-> 0, generation |-> 0]
Answer(request) ==
  [kind |-> "response", epoch |-> 0, boot |-> 0, generation |-> 0,
   since |-> request.since, max |-> request.max]
Response(reply, records) ==
  [kind |-> "response", epoch |-> reply.epoch, boot |-> reply.boot,
   generation |-> reply.generation, records |-> Capped(records, Limit)]
Failure == [kind |-> "failure"]
Bye == [kind |-> "bye"]

Frame(message) ==
  <<[message |-> message, last |-> FALSE], [message |-> message, last |-> TRUE]>>

Bytes(buffer, stream, n) == buffer \o SubSeq(stream, 1, n)
Completed(bytes) == {i \in DOMAIN bytes : bytes[i].last}
First(bytes) == bytes[Min(Completed(bytes))].message
Rest(bytes) ==
  IF bytes = <<>> \/ bytes[Len(bytes)].last THEN <<>> ELSE <<bytes[Len(bytes)]>>

\* receive_frame: the first of the frames a feed completes is returned, and
\* the others are forgotten with the vector they were decoded into.
Overlooked(bytes) ==
  IF Completed(bytes) = {} THEN 0 ELSE Cardinality(Completed(bytes)) - 1

-----------------------------------------------------------------------------
(* The client, fetch_evidence *)

Idle == [at |-> "idle", buffer |-> <<>>, ack |-> Unread, response |-> Unread, accepted |-> {}]

\* What a side sends is lost when the other has closed its end.
Sent(c, frames) == IF "server" \in ends[c] THEN [toServer EXCEPT ![c] = @ \o frames] ELSE toServer
Replied(c, reply) ==
  IF "client" \in ends[c] THEN [toClient EXCEPT ![c] = @ \o Frame(reply)] ELSE toClient

\* The client closes its end: what it has not read is lost.
ClientCloses(c) ==
  /\ ends' = [ends EXCEPT ![c] = @ \ {"client"}]
  /\ toClient' = [toClient EXCEPT ![c] = <<>>]

\* The fetch returns an error, and the socket is closed.
Abandons(c) ==
  /\ client' = [client EXCEPT ![c] = [Idle EXCEPT !.at = "failed"]]
  /\ ClientCloses(c)

Connect(c) ==
  /\ client[c].at = "idle"
  /\ \/ /\ backlog' = Append(backlog, c)
        /\ ends' = [ends EXCEPT ![c] = {"client", "server"}]
        /\ client' = [client EXCEPT ![c].at = "hello"]
     \/ /\ client' = [client EXCEPT ![c].at = "failed"]
        /\ UNCHANGED <<backlog, ends>>
  /\ UNCHANGED <<provider, server, stopping, option, toServer, toClient, asked, dropped>>

\* Mutant of SendHello: the request is sent along.
SendHelloAndRequest(c) ==
  /\ client[c].at = "hello"
  /\ toServer' = Sent(c, Frame(Hello(option[c])) \o Frame(Request(option[c])))
  /\ client' = [client EXCEPT ![c].at = "ack"]
  /\ UNCHANGED <<provider, server, stopping, backlog, option, toClient, ends, asked, dropped>>

SendHello(c) ==
  /\ client[c].at = "hello"
  /\ toServer' = Sent(c, Frame(Hello(option[c])))
  /\ client' = [client EXCEPT ![c].at = "ack"]
  /\ UNCHANGED <<provider, server, stopping, backlog, option, toClient, ends, asked, dropped>>

\* Mutant of Acceptable: the generation of the evidence is not looked at.
AcceptableOfAnyGeneration(ack, o) == ack.kind = "ack" /\ (o.epoch # 0 => ack.epoch >= o.epoch)

\* An acknowledgement is refused that is older than required.
Acceptable(ack, o) ==
  /\ ack.kind = "ack"
  /\ o.epoch # 0 => ack.epoch >= o.epoch
  /\ o.generation # 0 => ack.generation >= o.generation

\* A response is refused that is of another incarnation than the
\* acknowledgement, or of an older epoch than required.
SameIncarnation(response, ack, o) ==
  /\ response.kind = "response"
  /\ response.epoch = ack.epoch /\ response.boot = ack.boot
  /\ o.epoch # 0 => response.epoch >= o.epoch

\* A record counts when it is authoritative, and not older than what is
\* required or known.
Counted(record, o) ==
  /\ record.authoritative
  /\ o.generation # 0 => record.egen >= o.generation
  /\ record.rgen >= o.known[record.resource]

\* A receive: nothing whole has come yet, or a message is looked at.
ClientReceives(c) ==
  /\ client[c].at \in {"ack", "response"}
  /\ \E n \in 1 .. Len(toClient[c]) :
       LET k == client[c]
           bytes == Bytes(k.buffer, toClient[c], n)
           message == First(bytes)
           o == option[c]
           Continues(at, ack, response, accepted) ==
             /\ client' = [client EXCEPT ![c] =
                  [at |-> at, buffer |-> Rest(bytes), ack |-> ack, response |-> response,
                   accepted |-> accepted]]
             /\ toClient' = [toClient EXCEPT ![c] = SubSeq(@, n + 1, Len(@))]
             /\ ends' = ends
       IN  /\ dropped' = dropped + Overlooked(bytes)
           /\ IF Completed(bytes) = {} THEN Continues(k.at, k.ack, k.response, k.accepted)
              ELSE IF k.at = "ack" /\ Acceptable(message, o)
                THEN Continues("request", message, k.response, k.accepted)
              ELSE IF k.at = "response" /\ SameIncarnation(message, k.ack, o)
                THEN Continues("bye", k.ack, message,
                               {record \in Range(message.records) : Counted(record, o)})
                ELSE Abandons(c)
  /\ UNCHANGED <<provider, server, stopping, backlog, option, toServer, asked>>

SendRequest(c) ==
  /\ client[c].at = "request"
  /\ toServer' = Sent(c, Frame(Request(option[c])))
  /\ client' = [client EXCEPT ![c].at = "response"]
  /\ asked' = [asked EXCEPT ![c] = provider.held]
  /\ UNCHANGED <<provider, server, stopping, backlog, option, toClient, ends, dropped>>

\* The farewell is sent whether or not it gets through, and the fetch returns.
SendBye(c) ==
  /\ client[c].at = "bye"
  /\ toServer' = Sent(c, Frame(Bye))
  /\ client' = [client EXCEPT ![c] = [@ EXCEPT !.at = "ok", !.buffer = <<>>]]
  /\ ClientCloses(c)
  /\ UNCHANGED <<provider, server, stopping, backlog, option, asked, dropped>>

\* Mutant of ClientFails: only a peer that closes ends a wait.
ClientDisconnected(c) ==
  /\ client[c].at \in {"hello", "ack", "request", "response"}
  /\ "server" \notin ends[c] /\ toClient[c] = <<>>
  /\ Abandons(c)
  /\ UNCHANGED <<provider, server, stopping, backlog, option, toServer, asked, dropped>>

\* A send or a receive that fails: a timeout, an interrupted wait, a peer that
\* is gone.
ClientFails(c) ==
  /\ client[c].at \in {"hello", "ack", "request", "response"}
  /\ Abandons(c)
  /\ UNCHANGED <<provider, server, stopping, backlog, option, toServer, asked, dropped>>

Fetch(c) ==
  SendHello(c) \/ ClientReceives(c) \/ SendRequest(c) \/ SendBye(c) \/ ClientFails(c)

-----------------------------------------------------------------------------
(* The server, EvidenceServer::run *)

Listening == [at |-> "loop", peer |-> Nobody, buffer |-> <<>>, reply |-> Unread]

\* Mutant of Leaves: the reader outlives its connection.
LeavesReaderBehind(at) ==
  /\ server' = [Listening EXCEPT !.at = at, !.buffer = server.buffer]
  /\ ends' = [ends EXCEPT ![server.peer] = @ \ {"server"}]
  /\ toServer' = [toServer EXCEPT ![server.peer] = <<>>]

\* The connection is closed, what came over it is lost, and the loop begins
\* again or is left.
Leaves(at) ==
  /\ server' = [Listening EXCEPT !.at = at]
  /\ ends' = [ends EXCEPT ![server.peer] = @ \ {"server"}]
  /\ toServer' = [toServer EXCEPT ![server.peer] = <<>>]

\* stopping_ is looked at between two connections.
LooksAtStop ==
  /\ server.at = "loop"
  /\ server' = [server EXCEPT !.at = IF stopping THEN "stopped" ELSE "accept"]
  /\ UNCHANGED <<provider, stopping, backlog, option, client, network, asked, dropped>>

\* A connection is waited for, and not for long.
Accept ==
  /\ server.at = "accept"
  /\ \/ /\ backlog # <<>>
        /\ server' = [server EXCEPT !.at = "serve", !.peer = Head(backlog)]
        /\ backlog' = Tail(backlog)
     \/ /\ server' = [server EXCEPT !.at = "loop"]
        /\ UNCHANGED backlog
  /\ UNCHANGED <<provider, stopping, option, client, network, asked, dropped>>

\* The connection was given up before it was accepted, and accept fails.
AcceptFails ==
  /\ server.at = "accept" /\ backlog # <<>>
  /\ "client" \notin ends[Head(backlog)]
  /\ backlog' = Tail(backlog)
  /\ server' = [server EXCEPT !.at = IF stopping THEN "stopped" ELSE "failed"]
  /\ UNCHANGED <<provider, stopping, option, client, network, asked, dropped>>

\* What a message makes the server do: a reply is prepared, or the connection
\* ends.
ServerReceives ==
  /\ server.at = "serve"
  /\ \E n \in 1 .. Len(toServer[server.peer]) :
       LET bytes == Bytes(server.buffer, toServer[server.peer], n)
           message == First(bytes)
           Prepares(at, reply) ==
             /\ server' = [server EXCEPT !.buffer = Rest(bytes), !.at = at, !.reply = reply]
             /\ toServer' = [toServer EXCEPT ![server.peer] = SubSeq(@, n + 1, Len(@))]
             /\ ends' = ends
       IN  /\ dropped' = dropped + Overlooked(bytes)
           /\ IF Completed(bytes) = {} THEN Prepares("serve", Unread)
              ELSE IF message.kind = "hello"
                THEN IF message.native
                       THEN Prepares("epoch", Ack)
                       ELSE Prepares("refuse", Failure)
              ELSE IF message.kind = "request"
                THEN Prepares("epoch", Answer(message))
                ELSE Leaves("loop")
  /\ UNCHANGED <<provider, stopping, backlog, option, client, toClient, asked>>

\* The provider is asked for one thing after the other.
AskEpoch ==
  /\ server.at = "epoch"
  /\ server' = [server EXCEPT !.at = "generation",
                              !.reply.epoch = provider.epoch, !.reply.boot = provider.boot]
  /\ UNCHANGED <<provider, stopping, backlog, option, client, network, asked, dropped>>

AskGeneration ==
  /\ server.at = "generation"
  /\ server' = [server EXCEPT !.at = IF server.reply.kind = "ack" THEN "send" ELSE "fetch",
                              !.reply.generation = provider.generation]
  /\ UNCHANGED <<provider, stopping, backlog, option, client, network, asked, dropped>>

AskRecords ==
  /\ server.at = "fetch"
  /\ server' = [server EXCEPT
       !.at = "send",
       !.reply = Response(@, Fetched(@.since, IF @.max < Limit THEN @.max ELSE Limit))]
  /\ UNCHANGED <<provider, stopping, backlog, option, client, network, asked, dropped>>

\* The reply is out, and the next message is waited for.
Served ==
  /\ server' = [server EXCEPT !.at = "serve", !.reply = Unread]
  /\ UNCHANGED <<ends, toServer>>

\* The reply is sent.  It may not be: there was no room in time, the wait for
\* it was interrupted, the frame is too large; run() returns the error.  With
\* what the connection does not take at once the send waits.
SendReply ==
  /\ server.at = "send"
  /\ \/ /\ toClient' = Replied(server.peer, server.reply)
        /\ IF server.reply.kind = "response" /\ Len(server.reply.records) > Taken
             THEN server' = [server EXCEPT !.at = "sending"] /\ UNCHANGED <<ends, toServer>>
             ELSE Served
     \/ /\ Leaves("failed")
        /\ UNCHANGED toClient
  /\ UNCHANGED <<provider, stopping, backlog, option, client, asked, dropped>>

\* The send waits until the peer has read enough, for however long.  If the
\* peer is gone before it has read it all, the send fails, and what is left to
\* send raises SIGPIPE where the system has it, which ends the process.
ReplySent ==
  /\ server.at = "sending"
  /\ \/ Len(toClient[server.peer]) <= 1 /\ Served
     \/ /\ "client" \notin ends[server.peer] /\ client[server.peer].at # "ok"
        /\ Leaves("failed") \/ Leaves("killed")
  /\ UNCHANGED <<provider, stopping, backlog, option, client, toClient, asked, dropped>>

\* A client of another version is told so, if that can be sent.
Refuse ==
  /\ server.at = "refuse"
  /\ toClient' = Replied(server.peer, server.reply) \/ UNCHANGED toClient
  /\ Leaves("loop")
  /\ UNCHANGED <<provider, stopping, backlog, option, client, asked, dropped>>

\* Mutant of ServerGivesUp: it waits for as long as the peer does.
ServerWaits ==
  /\ server.at = "serve"
  /\ "client" \notin ends[server.peer] /\ toServer[server.peer] = <<>>
  /\ Leaves("loop")
  /\ UNCHANGED <<provider, stopping, backlog, option, client, toClient, asked, dropped>>

\* Nothing comes from the peer in time, or it is gone.
ServerGivesUp ==
  /\ server.at = "serve"
  /\ Leaves("loop")
  /\ UNCHANGED <<provider, stopping, backlog, option, client, toClient, asked, dropped>>

Serve ==
  \/ LooksAtStop \/ Accept \/ AcceptFails \/ ServerReceives \/ AskEpoch \/ AskGeneration
  \/ AskRecords \/ SendReply \/ ReplySent \/ Refuse \/ ServerGivesUp

-----------------------------------------------------------------------------
(* What happens to them *)

\* A peer that is not a fetch greets the server again when it was acknowledged.
GreetsAgain(c) ==
  /\ ~ option[c].fetches /\ client[c].at = "request"
  /\ client' = [client EXCEPT ![c] = [Idle EXCEPT !.at = "hello"]]
  /\ UNCHANGED <<provider, server, stopping, backlog, option, network, asked, dropped>>

Stop ==
  /\ ~ stopping
  /\ stopping' = TRUE
  /\ UNCHANGED <<provider, server, backlog, option, client, network, asked, dropped>>

\* The process of the server dies, and another takes its place: a new
\* incarnation, which numbers its evidence from anywhere.  What a send was
\* waiting with never becomes a message.
Restart ==
  /\ provider.boot < Largest
  /\ \E epoch \in {provider.epoch, provider.epoch + 1}, generation \in 1 .. Largest :
       /\ epoch <= Largest
       /\ provider' = [epoch |-> epoch, boot |-> provider.boot + 1, generation |-> generation,
                       held |-> [r \in Resources |-> [rgen |-> provider.held[r].rgen,
                                                      egen |-> generation]]]
  /\ server' = Listening
  /\ stopping' = FALSE
  /\ backlog' = <<>>
  /\ ends' = [c \in Clients |-> ends[c] \ {"server"}]
  /\ toServer' = [c \in Clients |-> <<>>]
  /\ toClient' = [c \in Clients |->
       IF server.at = "sending" /\ c = server.peer /\ Len(toClient[c]) > 1
         THEN <<>> ELSE toClient[c]]
  /\ UNCHANGED <<option, client, asked, dropped>>

-----------------------------------------------------------------------------
Init ==
  /\ provider = [epoch |-> 1, boot |-> 1, generation |-> 1,
                 held |-> [r \in Resources |-> [rgen |-> 1, egen |-> 1]]]
  /\ server = Listening /\ stopping = FALSE /\ backlog = <<>>
  /\ option \in {f \in [Clients -> UNION {Options(c) : c \in Clients}] :
                 \A c \in Clients : f[c] \in Options(c)}
  /\ client = [c \in Clients |-> Idle]
  /\ toServer = [c \in Clients |-> <<>>] /\ toClient = [c \in Clients |-> <<>>]
  /\ ends = [c \in Clients |-> {}]
  /\ asked = [c \in Clients |-> provider.held]
  /\ dropped = 0

Next ==
  \/ Observe \/ AdvanceEpoch \/ Serve \/ Stop \/ Restart
  \/ \E c \in Clients : Connect(c) \/ Fetch(c) \/ GreetsAgain(c)

Spec == Init /\ [][Next]_vars

\* A thread that fetches goes on: each of its waits has a timeout, and what it
\* sends always fits a connection.  So does the one that serves, as far as it
\* can: a send that the peer does not let end is no step it could take.  Nobody
\* has to connect, to stop the server or to kill it, and nothing is known of a
\* peer that is not a fetch.
FairSpec ==
  /\ Spec
  /\ WF_vars(Serve)
  /\ \A c \in Clients : WF_vars(option[c].fetches /\ Fetch(c))

-----------------------------------------------------------------------------
(* Properties *)

Serving == server.at \in {"serve", "epoch", "generation", "fetch", "send", "sending", "refuse"}

\* Every variable keeps its shape; a connection is waiting, being served or
\* neither, and what was read of it goes with it.
TypeOK ==
  /\ \A x \in {"epoch", "boot", "generation"} : provider[x] \in 1 .. Largest
  /\ \A r \in Resources : provider.held[r].egen \in 1 .. provider.generation
  /\ Serving \/ server.at \in {"loop", "accept", "stopped", "failed", "killed"}
  /\ Serving = (server.peer \in Clients)
  /\ IF Serving THEN Len(server.buffer) <= 1 ELSE server.buffer = <<>>
  /\ \A i, j \in DOMAIN backlog : backlog[i] = backlog[j] => i = j
  /\ server.peer \notin Range(backlog)
  /\ \A c \in Clients :
       /\ client[c].at \in {"idle", "hello", "ack", "request", "response", "bye", "failed", "ok"}
       /\ Len(client[c].buffer) <= 1
       /\ ends[c] \subseteq {"client", "server"}
  /\ stopping \in BOOLEAN

\* "Reject any response whose evidence generation is older than this": the
\* client looks at the generation of the acknowledgement alone, and at the
\* epoch of both, while the provider moves on between and during the two.
AnswersMeetRequirements ==
  \A c \in Clients :
    client[c].at = "ok" =>
      LET answer == client[c].response
      IN  /\ answer.epoch >= option[c].epoch
          /\ answer.generation >= option[c].generation
          /\ answer.boot = client[c].ack.boot
          /\ \A record \in client[c].accepted :
               /\ record.resource \in Authorised
               /\ record.egen >= option[c].generation

\* A client that got everything (a request without a limit) learns of each
\* resource of the generation it asked for, and nothing older than what the
\* provider held when it asked: no cached or half-read answer.
AnswersAreFresh ==
  \A c \in Clients :
    client[c].at = "ok" =>
      LET records == Range(client[c].response.records)
      IN  /\ \A record \in records :
               /\ record.egen >= asked[c][record.resource].egen
               /\ record.rgen >= asked[c][record.resource].rgen
          /\ option[c].max >= Len(Population) =>
               \A r \in Resources :
                 asked[c][r].rgen >= option[c].since =>
                   \E record \in records : record.resource = r

\* No frame is lost to the one that precedes it in a receive: the two sides
\* never have more than one on its way.
NothingOverlooked == dropped = 0

\* A fetch returns, whatever happens to the server.
FetchEnds ==
  \A c \in Clients :
    option[c].fetches /\ client[c].at = "hello" ~> client[c].at \in {"ok", "failed"}

\* run() has ended, unless the process was replaced by one that is not stopping.
Ended == server.at \in {"stopped", "failed", "killed"} \/ ~ stopping

\* A server that is told to stop returns from run(), if peers let it: they read
\* what it sends them or go away, and do not ask for something for ever.  That
\* they are silent, stay, or are of another version cannot prevent it.
StopEnds ==
  []<>(server.at # "sending") /\ <>[](server.at # "epoch") => (stopping ~> Ended)

\* "Readiness is always waited for with select() and a caller supplied
\* deadline, never with an indefinite block, so a wedged peer surfaces as an
\* error instead of a hang": a send ends, whatever the peer does.
WedgedPeersSurface == server.at = "sending" ~> server.at # "sending"

\* "Serves until stop() is called": a server that is told to stop returns from
\* run(), whatever its peers do.
ServesUntilStop == stopping ~> Ended

\* "Returns an error only on a listener fault": what happens to one connection
\* never ends the loop that serves the others.
ErrorsAreListenerFaults ==
  [][server'.at \in {"failed", "killed"} => server.at = "accept"]_server

=============================================================================
