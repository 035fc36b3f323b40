--------------------------- MODULE EvidenceProofs ---------------------------
(***************************************************************************)
(* What a fetch can rely on, for any clients, options and population, and   *)
(* however the provider moves on, sends split, peers vanish and servers are *)
(* restarted.  The two sides of a connection take turns: a message is on    *)
(* its way in one direction, or being answered, or one side is about to     *)
(* speak, and never two of these.  The last section is about the age of     *)
(* what a fetch is answered with.                                          *)
(***************************************************************************)
EXTENDS Evidence, ListLemmas, SequenceTheorems

-----------------------------------------------------------------------------
(* Messages and streams of them *)

TrueRecords ==
  {x \in [resource : Resources, rgen : Nat, egen : Nat, authoritative : BOOLEAN] :
     x.authoritative => x.resource \in Authorised}
Acks == [kind : {"ack"}, epoch : Nat, boot : Nat, generation : Nat]
Drafts == [kind : {"response"}, epoch : Nat, boot : Nat, generation : Nat, since : Nat, max : Nat]
Responses == [kind : {"response"}, epoch : Nat, boot : Nat, generation : Nat,
              records : Seq(TrueRecords)]

\* Acknowledgements that the provider, or one before it, can have given.
Given ==
  {m \in Acks : /\ m.boot <= provider.boot
                /\ m.boot = provider.boot => m.generation <= provider.generation}

\* Responses that are not older than an acknowledgement of their incarnation.
Newer(ack) == {m \in Responses : m.boot = ack.boot => m.generation >= ack.generation}

\* What a client may have on its way, and what may be on its way to it.
Outgoing(c) ==
  CASE client[c].at = "ack" -> {Hello(option[c])}
    [] client[c].at = "response" -> {Request(option[c])}
    [] OTHER -> {Hello(option[c]), Request(option[c]), Bye}
Incoming(c) ==
  IF client[c].at = "response" THEN Newer(client[c].ack) ELSE Given \cup {Failure}

Stream(M) == Seq([message : M, last : BOOLEAN])

\* No more than the two pieces of one frame.
OneFrame(s) ==
  /\ Len(s) <= 2
  /\ \A i \in 1 .. Len(s) : s[i].last <=> i = Len(s)

-----------------------------------------------------------------------------
(* The invariant *)

Held(c) == IF server.peer = c THEN server.buffer ELSE <<>>
OnWay(c) == Held(c) \o toServer[c]
Coming(c) == client[c].buffer \o toClient[c]
Replying(c) ==
  server.peer = c /\ server.at \in {"epoch", "generation", "fetch", "send", "refuse"}

ClientPlaces ==
  {"idle", "hello", "ack", "request", "response", "bye", "failed", "ok"}
ServerPlaces ==
  {"loop", "accept", "serve", "epoch", "generation", "fetch", "send", "sending", "refuse",
   "stopped", "failed", "killed"}

\* The variables have their shape, and generations of evidence only grow.
ShapeInv ==
  /\ provider \in [epoch : 1 .. Largest, boot : 1 .. Largest, generation : 1 .. Largest,
                   held : [Resources -> [rgen : Nat, egen : Nat]]]
  /\ \A r \in Resources : provider.held[r].egen \in 1 .. provider.generation
  /\ server = [at |-> server.at, peer |-> server.peer, buffer |-> server.buffer,
               reply |-> server.reply]
  /\ server.at \in ServerPlaces /\ stopping \in BOOLEAN
  /\ DOMAIN client = Clients /\ DOMAIN toServer = Clients /\ DOMAIN toClient = Clients
  /\ \A c \in Clients :
       /\ client[c] = [at |-> client[c].at, buffer |-> client[c].buffer, ack |-> client[c].ack,
                       response |-> client[c].response, accepted |-> client[c].accepted]
       /\ client[c].at \in ClientPlaces
       /\ Len(client[c].buffer) <= 1
       /\ option[c] \in Options(c)
  /\ ends \in [Clients -> SUBSET {"client", "server"}]

\* A connection waits to be accepted, or is served, or neither.
QueueInv ==
  /\ backlog \in Seq(Clients)
  /\ \A i, j \in DOMAIN backlog : backlog[i] = backlog[j] => i = j
  /\ \A i \in DOMAIN backlog : backlog[i] # server.peer /\ client[backlog[i]].at # "idle"
  /\ IF Serving THEN /\ server.peer \in Clients /\ Len(server.buffer) <= 1
                     /\ client[server.peer].at # "idle"
                ELSE server.peer = Nobody /\ server.buffer = <<>>

\* The streams of a connection, and whose turn it is.
StreamOK(c) ==
  /\ Held(c) \in Stream(Outgoing(c)) /\ toServer[c] \in Stream(Outgoing(c))
  /\ client[c].buffer \in Stream(Incoming(c)) /\ toClient[c] \in Stream(Incoming(c))
  /\ OneFrame(OnWay(c)) /\ OneFrame(Coming(c))
TurnOK(c) ==
  /\ client[c].at \in {"idle", "hello", "request", "bye"} =>
       OnWay(c) = <<>> /\ ~ Replying(c)
  /\ client[c].at \notin {"ack", "response"} => Coming(c) = <<>>
  /\ client[c].at \in {"idle", "failed", "ok"} => "client" \notin ends[c]
  /\ OnWay(c) # <<>> => ~ Replying(c) /\ Coming(c) = <<>>
  /\ Replying(c) => Coming(c) = <<>>

\* What the server is about to answer: to a hello an acknowledgement, and to a
\* request a response that is not older than the acknowledgement.
ReplyOK(c) ==
  LET reply == server.reply
  IN  /\ server.at = "epoch" => reply \in Acks \cup Drafts
      /\ server.at = "generation" => reply \in Acks \cup Drafts /\ reply.boot = provider.boot
      /\ server.at = "fetch" => reply \in Drafts
      /\ server.at \in {"epoch", "generation"} =>
           /\ client[c].at = "ack" => reply \in Acks
           /\ client[c].at = "response" => reply \in Drafts
      /\ client[c].at = "ack" => server.at # "fetch"
      /\ client[c].at = "response" => server.at # "refuse"
      /\ /\ server.at = "fetch" /\ client[c].at = "response"
         /\ reply.boot = client[c].ack.boot
         => reply.generation >= client[c].ack.generation
      /\ server.at = "send" => reply \in Acks \cup Responses
      /\ server.at = "refuse" => reply = Failure
      /\ server.at \in {"send", "refuse"} /\ client[c].at \in {"ack", "response"} =>
           reply \in Incoming(c)

\* What the client has learnt.
LearntOK(c) ==
  /\ client[c].at \in {"request", "response", "bye", "ok"} =>
       client[c].ack \in Given /\ Acceptable(client[c].ack, option[c])
  /\ client[c].at \in {"bye", "ok"} =>
       /\ client[c].response \in Newer(client[c].ack)
       /\ SameIncarnation(client[c].response, client[c].ack, option[c])
       /\ client[c].accepted \subseteq {x \in TrueRecords : Counted(x, option[c])}

Conn(c) == StreamOK(c) /\ TurnOK(c) /\ (Replying(c) => ReplyOK(c)) /\ LearntOK(c)

ExchangeInv ==
  /\ ShapeInv /\ QueueInv
  /\ \A c \in Clients : Conn(c)
  /\ dropped = 0

-----------------------------------------------------------------------------
(* Facts about streams *)

LEMMA StreamGrows ==
  ASSUME NEW M, NEW N, M \subseteq N
  PROVE  Stream(M) \subseteq Stream(N)
<1>1. [message : M, last : BOOLEAN] \subseteq [message : N, last : BOOLEAN]
  OBVIOUS
<1>2. QED
  BY <1>1, SeqMonotonic DEF Stream

\* A message is two pieces, of which the second completes it.
LEMMA FrameProperty ==
  ASSUME NEW M, NEW m \in M
  PROVE  Frame(m) \in Stream(M) /\ OneFrame(Frame(m)) /\ Frame(m) # <<>>
<1> DEFINE P == [message : M, last : BOOLEAN]
           x == [message |-> m, last |-> FALSE]
           y == [message |-> m, last |-> TRUE]
<1>1. x \in P /\ y \in P /\ ~ x.last /\ y.last
  OBVIOUS
<1>2. Frame(m) = <<x, y>>
  BY DEF Frame
<1> HIDE DEF P, x, y
<1>3. <<x, y>> \in Seq(P) /\ Len(<<x, y>>) = 2 /\ <<x, y>>[1] = x /\ <<x, y>>[2] = y
  BY <1>1
<1>4. Frame(m) \in Stream(M)
  BY <1>2, <1>3 DEF Stream, P
<1>5. OneFrame(Frame(m)) /\ Frame(m) # <<>>
  BY <1>1, <1>2, <1>3, EmptySeq DEF OneFrame
<1>6. QED
  BY <1>4, <1>5

\* What is sent on a silent connection is all there is on it.
LEMMA SendProperty ==
  ASSUME NEW M, NEW N, NEW m \in N, NEW b \in Stream(M), NEW s \in Stream(M), b \o s = <<>>
  PROVE  /\ b = <<>> /\ s = <<>>
         /\ s \o Frame(m) \in Stream(N)
         /\ b \o (s \o Frame(m)) = Frame(m)
<1>1. b = <<>> /\ s = <<>>
  BY ConcatEqualIffEmpty, ConcatProperties, EmptySeq DEF Stream
<1>2. Frame(m) \in Stream(N)
  BY FrameProperty
<1>3. <<>> \o Frame(m) = Frame(m)
  BY <1>2, ConcatEmptySeq DEF Stream
<1>4. QED
  BY <1>1, <1>2, <1>3

LEMMA EmptyProperty ==
  ASSUME NEW M
  PROVE  <<>> \in Stream(M) /\ <<>> \o <<>> = <<>> /\ OneFrame(<<>>)
BY EmptySeq, ConcatEmptySeq DEF Stream, OneFrame

\* A receive on a connection with one frame: it is not whole yet, and nothing
\* is lost of it, or it is, and nothing is left behind it.
Receives(M, b, s, n) ==
  /\ Rest(Bytes(b, s, n)) \in Stream(M) /\ SubSeq(s, n + 1, Len(s)) \in Stream(M)
  /\ Len(Rest(Bytes(b, s, n))) <= 1 /\ Overlooked(Bytes(b, s, n)) = 0
  /\ Completed(Bytes(b, s, n)) = {} =>
       Rest(Bytes(b, s, n)) \o SubSeq(s, n + 1, Len(s)) = b \o s
  /\ Completed(Bytes(b, s, n)) # {} =>
       /\ First(Bytes(b, s, n)) \in M
       /\ Rest(Bytes(b, s, n)) = <<>> /\ SubSeq(s, n + 1, Len(s)) = <<>>

LEMMA ReceiveProperty ==
  ASSUME NEW M, NEW b \in Stream(M), NEW s \in Stream(M), Len(b) <= 1, OneFrame(b \o s),
         NEW n \in 1 .. Len(s)
  PROVE  Receives(M, b, s, n)
<1> DEFINE P == [message : M, last : BOOLEAN]
           taken == SubSeq(s, 1, n)
           bytes == Bytes(b, s, n)
           rest == SubSeq(s, n + 1, Len(s))
<1>1. b \in Seq(P) /\ s \in Seq(P) /\ Len(b) \in Nat /\ Len(s) \in Nat /\ n \in Nat
  BY LenProperties DEF Stream
<1>2. /\ taken \in Seq(P) /\ Len(taken) = n
      /\ \A i \in 1 .. n : taken[i] = s[i]
  <2>1. \A i \in 1 .. Len(s) : s[i] \in P
    BY <1>1, ElementOfSeq
  <2>2. QED
    BY <1>1, <2>1, SubSeqProperties
<1>3. /\ rest \in Seq(P) /\ Len(rest) = Len(s) - n
      /\ \A i \in 1 .. Len(s) - n : rest[i] = s[n + i]
  <2>1. \A i \in 1 .. Len(s) : s[i] \in P
    BY <1>1, ElementOfSeq
  <2>2. QED
    BY <1>1, <2>1, SubSeqProperties
<1>4. /\ bytes \in Seq(P) /\ Len(bytes) = Len(b) + n
      /\ \A i \in 1 .. Len(b) + n : bytes[i] = (b \o s)[i]
  <2>1. /\ bytes \in Seq(P) /\ Len(bytes) = Len(b) + n
        /\ \A i \in 1 .. Len(b) + n : bytes[i] = IF i <= Len(b) THEN b[i] ELSE taken[i - Len(b)]
    BY <1>1, <1>2, ConcatProperties DEF Bytes
  <2>2. \A i \in 1 .. Len(b) + Len(s) : (b \o s)[i] = IF i <= Len(b) THEN b[i] ELSE s[i - Len(b)]
    BY <1>1, ConcatProperties
  <2>3. QED
    BY <1>1, <1>2, <2>1, <2>2
<1>5. bytes = Bytes(b, s, n) /\ rest = SubSeq(s, n + 1, Len(s)) /\ Stream(M) = Seq(P)
  BY DEF Stream
<1>6. \A x \in P : x.message \in M
  OBVIOUS
<1> HIDE DEF P, taken, bytes, rest
<1>7. Len(b \o s) = Len(b) + Len(s)
  BY <1>1, ConcatProperties
<1>8. Len(b) + Len(s) <= 2
  BY <1>7 DEF OneFrame
<1>9. DOMAIN bytes = 1 .. Len(b) + n
  BY <1>4, LenProperties
<1>10. \A i \in 1 .. Len(b) + n : bytes[i].last <=> i = Len(b) + Len(s)
  BY <1>1, <1>4, <1>7, <1>8 DEF OneFrame
<1>11. CASE n = Len(s)
  <2>1. Completed(bytes) = {Len(b) + n}
    BY <1>1, <1>9, <1>10, <1>11 DEF Completed
  <2>2. Overlooked(bytes) = 0
    <3>1. Cardinality({Len(b) + n}) = 1 /\ {Len(b) + n} # {}
      BY FS_Singleton
    <3>2. QED
      BY <2>1, <3>1 DEF Overlooked
  <2>3. First(bytes) \in M
    <3>1. Min(Completed(bytes)) = Len(b) + n
      BY <1>1, <2>1 DEF Min
    <3>2. bytes[Len(b) + n] \in P
      BY <1>1, <1>4, ElementOfSeq
    <3>3. QED
      BY <1>6, <3>1, <3>2 DEF First
  <2>4. Rest(bytes) = <<>> /\ rest = <<>>
    <3>1. bytes[Len(bytes)].last
      BY <1>1, <1>4, <1>10, <1>11
    <3>2. rest = <<>>
      BY <1>3, <1>11, EmptySeq
    <3>3. QED
      BY <3>1, <3>2 DEF Rest
  <2>5. QED
    BY <1>5, <2>1, <2>2, <2>3, <2>4, EmptySeq DEF Receives
<1>12. CASE n # Len(s)
  <2>1. n = 1 /\ Len(b) = 0 /\ Len(s) = 2
    <3>1. 1 <= n /\ n < Len(s)
      BY <1>1, <1>12
    <3>2. \A x, y, k \in Nat : 1 <= k /\ k < y /\ x + y <= 2 => k = 1 /\ x = 0 /\ y = 2
      OBVIOUS
    <3>3. QED
      BY <1>1, <1>8, <3>1, <3>2
  <2>2. Completed(bytes) = {}
    BY <1>9, <1>10, <2>1 DEF Completed
  <2>3. Rest(bytes) = <<bytes[1]>> /\ bytes[1] \in P
    <3>1. Len(bytes) = 1 /\ bytes # <<>> /\ ~ bytes[1].last
      BY <1>4, <1>10, <2>1
    <3>2. bytes[1] \in P
      BY <1>4, <3>1, ElementOfSeq
    <3>3. QED
      BY <3>1, <3>2 DEF Rest
  <2>4. Rest(bytes) \in Seq(P) /\ Len(Rest(bytes)) = 1 /\ Rest(bytes)[1] = bytes[1]
    BY <2>3
  <2>5. Rest(bytes) \o rest = b \o s
    <3> DEFINE u == Rest(bytes)
               t == u \o rest
               w == b \o s
    <3>1. /\ u \in Seq(P) /\ Len(u) = 1 /\ u[1] = bytes[1]
          /\ rest \in Seq(P) /\ Len(rest) = 1
      BY <1>3, <2>1, <2>4
    <3>2. t \in Seq(P) /\ Len(t) = 2 /\ t[1] = bytes[1] /\ t[2] = rest[1]
      <4> HIDE DEF u
      <4>1. /\ t \in Seq(P) /\ Len(t) = Len(u) + Len(rest)
            /\ \A i \in 1 .. Len(u) + Len(rest) :
                 t[i] = IF i <= Len(u) THEN u[i] ELSE rest[i - Len(u)]
        BY <3>1, ConcatProperties
      <4> HIDE DEF t
      <4>2. QED
        BY <3>1, <4>1
    <3>3. w \in Seq(P) /\ Len(w) = 2 /\ w[1] = bytes[1] /\ w[2] = rest[1]
      <4>1. w = s
        BY <1>1, <2>1, EmptySeq, ConcatEmptySeq
      <4>2. w[1] = bytes[1]
        <5>1. 1 \in 1 .. Len(b) + n
          BY <2>1
        <5>2. QED
          BY <1>4, <5>1
      <4>3. QED
        BY <1>1, <1>3, <2>1, <4>1, <4>2
    <3> HIDE DEF u, t, w
    <3>4. \A i \in 1 .. Len(t) : t[i] = w[i]
      BY <3>2, <3>3
    <3>5. t = w
      BY <3>2, <3>3, <3>4, SeqEqual
    <3>6. QED
      BY <3>5 DEF t, u, w
  <2>6. QED
    <3>1. Overlooked(bytes) = 0
      BY <2>2 DEF Overlooked
    <3>2. Rest(bytes) \in Stream(M) /\ rest \in Stream(M) /\ Len(Rest(bytes)) <= 1
      BY <1>5, <1>3, <2>4
    <3>3. QED
      BY <1>5, <2>2, <2>5, <3>1, <3>2 DEF Receives
<1>13. QED
  BY <1>5, <1>11, <1>12

-----------------------------------------------------------------------------
(* Facts about a connection *)

\* A connection on which nothing is on its way has empty buffers.
LEMMA QuietProperty ==
  ASSUME NEW c, StreamOK(c)
  PROVE  /\ OnWay(c) = <<>> <=> Held(c) = <<>> /\ toServer[c] = <<>>
         /\ Coming(c) = <<>> <=> client[c].buffer = <<>> /\ toClient[c] = <<>>
<1>1. ASSUME NEW M, NEW b \in Stream(M), NEW s \in Stream(M)
      PROVE  b \o s = <<>> <=> b = <<>> /\ s = <<>>
  BY ConcatEqualIffEmpty, ConcatProperties, EmptySeq DEF Stream
<1>2. QED
  BY <1>1 DEF StreamOK, OnWay, Coming

\* What a provider has given it has given for good: its generations only grow.
LEMMA GivenGrows ==
  ASSUME provider.boot \in Nat, provider.generation \in Nat,
         provider'.boot \in Nat, provider'.generation \in Nat,
         provider'.boot >= provider.boot,
         provider'.boot = provider.boot => provider'.generation >= provider.generation
  PROVE  Given \subseteq Given'
<1>1. ASSUME NEW m \in Given PROVE m \in Given'
  <2>1. m \in Acks /\ m.boot \in Nat /\ m.generation \in Nat
    BY DEF Given, Acks
  <2>2. m.boot <= provider.boot /\ (m.boot = provider.boot => m.generation <= provider.generation)
    BY DEF Given
  <2>3. m.boot <= provider'.boot /\ (m.boot = provider'.boot => m.generation <= provider'.generation)
    BY <2>1, <2>2
  <2>4. QED
    BY <2>1, <2>3 DEF Given
<1>2. QED
  BY <1>1

\* A connection whose client does nothing stays in order, when what the client
\* sent stays too or is lost, what is coming to it does so too, and what is
\* being answered does not change.
LEMMA ClientStays ==
  ASSUME NEW c, Conn(c), Given \subseteq Given',
         client'[c] = client[c], option'[c] = option[c],
         toClient'[c] = toClient[c] \/ (toClient'[c] = <<>> /\ client[c].buffer = <<>>),
         \/ Held(c)' = Held(c) /\ toServer'[c] = toServer[c]
         \/ Held(c)' = <<>> /\ toServer'[c] = <<>>,
         Replying(c)' => /\ Replying(c) /\ server'.at = server.at
                         /\ server'.reply = server.reply /\ provider'.boot = provider.boot,
         "client" \in ends'[c] => "client" \in ends[c]
  PROVE  Conn(c)'
<1>1. Outgoing(c)' = Outgoing(c) /\ Incoming(c) \subseteq Incoming(c)'
  BY DEF Outgoing, Incoming
<1>2. /\ OnWay(c)' = OnWay(c) \/ OnWay(c)' = <<>>
      /\ Coming(c)' = Coming(c) \/ Coming(c)' = <<>>
  BY EmptyProperty DEF OnWay, Coming
<1>3. StreamOK(c)'
  <2>1. Stream(Incoming(c)) \subseteq Stream(Incoming(c)')
    BY <1>1, StreamGrows
  <2>2. Held(c)' \in Stream(Outgoing(c)') /\ toServer'[c] \in Stream(Outgoing(c)')
    BY <1>1, EmptyProperty DEF Conn, StreamOK
  <2>3. OneFrame(OnWay(c)') /\ OneFrame(Coming(c)')
    BY <1>2, EmptyProperty DEF Conn, StreamOK
  <2>4. client'[c].buffer \in Stream(Incoming(c)') /\ toClient'[c] \in Stream(Incoming(c)')
    BY <2>1, EmptyProperty DEF Conn, StreamOK
  <2>5. QED
    BY <2>2, <2>3, <2>4 DEF StreamOK
<1>4. TurnOK(c)'
  BY <1>1, <1>2 DEF Conn, TurnOK
<1>5. Replying(c)' => ReplyOK(c)'
  BY <1>1 DEF Conn, ReplyOK
<1>6. LearntOK(c)'
  BY DEF Conn, LearntOK
<1>7. QED
  BY <1>3, <1>4, <1>5, <1>6 DEF Conn

-----------------------------------------------------------------------------
(* The steps of a client *)

\* A client that moves on keeps the shape of the state.
LEMMA ClientShape ==
  ASSUME ShapeInv, QueueInv, NEW c \in Clients, NEW v,
         v = [at |-> v.at, buffer |-> v.buffer, ack |-> v.ack, response |-> v.response,
              accepted |-> v.accepted],
         v.at \in ClientPlaces \ {"idle"}, Len(v.buffer) <= 1,
         client' = [client EXCEPT ![c] = v],
         UNCHANGED <<provider, server, stopping, option>>,
         backlog' = backlog,
         DOMAIN toServer' = Clients, DOMAIN toClient' = Clients,
         ends' \in [Clients -> SUBSET {"client", "server"}]
  PROVE  /\ ShapeInv' /\ QueueInv'
         /\ client'[c] = v /\ \A d \in Clients \ {c} : client'[d] = client[d]
<1>1. client'[c] = v /\ \A d \in Clients \ {c} : client'[d] = client[d]
  BY DEF ShapeInv
<1>2. ShapeInv'
  BY <1>1 DEF ShapeInv
<1>3. QueueInv'
  <2>1. \A i \in DOMAIN backlog : backlog[i] \in Clients
    BY ElementOfSeq DEF QueueInv
  <2>2. \A d \in Clients : client[d].at # "idle" => client'[d].at # "idle"
    BY <1>1
  <2>3. Serving' = Serving
    BY DEF Serving
  <2>4. QED
    BY <2>1, <2>2, <2>3 DEF QueueInv
<1>4. QED
  BY <1>1, <1>2, <1>3

\* What the other clients are at is not disturbed.
LEMMA OthersStay ==
  ASSUME ExchangeInv, NEW c \in Clients, NEW d \in Clients \ {c},
         client'[d] = client[d], option' = option, server' = server, provider' = provider,
         toServer'[d] = toServer[d], toClient'[d] = toClient[d], ends'[d] = ends[d]
  PROVE  Conn(d)'
<1>1. Held(d)' = Held(d) /\ Replying(d)' = Replying(d) /\ Given' = Given
  BY DEF Held, Replying, Given
<1>2. Conn(d)
  BY DEF ExchangeInv
<1>3. Given \subseteq Given' /\ option'[d] = option[d]
  BY <1>1
<1>4. QED
  BY <1>1, <1>2, <1>3, ClientStays

\* A client that gives up leaves its messages to the server and hears no more.
LEMMA AbandonProperty ==
  ASSUME ExchangeInv, NEW c \in Clients, Abandons(c),
         client[c].at \in {"hello", "ack", "request", "response"},
         UNCHANGED <<provider, server, stopping, backlog, option, toServer>>
  PROVE  ShapeInv' /\ QueueInv' /\ \A d \in Clients : Conn(d)'
<1> DEFINE v == [Idle EXCEPT !.at = "failed"]
<1>1. /\ ShapeInv /\ QueueInv /\ Conn(c)
  BY DEF ExchangeInv
<1>2. /\ v = [at |-> v.at, buffer |-> v.buffer, ack |-> v.ack, response |-> v.response,
              accepted |-> v.accepted]
      /\ v.at = "failed" /\ v.buffer = <<>>
  BY DEF Idle
<1>3. /\ client' = [client EXCEPT ![c] = v]
      /\ ends' = [ends EXCEPT ![c] = @ \ {"client"}]
      /\ toClient' = [toClient EXCEPT ![c] = <<>>]
  BY DEF Abandons, ClientCloses
<1> HIDE DEF v
<1>4. /\ ShapeInv' /\ QueueInv'
      /\ client'[c] = v /\ \A d \in Clients \ {c} : client'[d] = client[d]
  <2>1. Len(v.buffer) <= 1 /\ v.at \in ClientPlaces \ {"idle"}
    BY <1>2, EmptySeq DEF ClientPlaces
  <2>2. /\ DOMAIN toServer' = Clients /\ DOMAIN toClient' = Clients
        /\ ends' \in [Clients -> SUBSET {"client", "server"}]
    BY <1>1, <1>3 DEF ShapeInv
  <2>3. QED
    BY <1>1, <1>2, <1>3, <2>1, <2>2, ClientShape
<1>5. /\ toClient'[c] = <<>> /\ "client" \notin ends'[c]
      /\ \A d \in Clients \ {c} : toClient'[d] = toClient[d] /\ ends'[d] = ends[d]
  BY <1>1, <1>3 DEF ShapeInv
<1>6. Conn(c)'
  <2>1. Held(c)' = Held(c) /\ OnWay(c)' = OnWay(c) /\ Replying(c)' = Replying(c)
    BY DEF Held, OnWay, Replying
  <2>2. Outgoing(c) \subseteq Outgoing(c)'
    BY <1>2, <1>4 DEF Outgoing
  <2>3. Stream(Outgoing(c)) \subseteq Stream(Outgoing(c)')
    BY <2>2, StreamGrows
  <2>4. Coming(c)' = <<>>
    BY <1>2, <1>4, <1>5, EmptyProperty DEF Coming
  <2>5. StreamOK(c)'
    BY <1>1, <1>2, <1>4, <1>5, <2>1, <2>3, <2>4, EmptyProperty DEF Conn, StreamOK
  <2>6. TurnOK(c)'
    BY <1>1, <1>2, <1>4, <1>5, <2>1, <2>4 DEF Conn, TurnOK
  <2>7. Replying(c)' => ReplyOK(c)'
    BY <1>1, <1>2, <1>4, <2>1 DEF Conn, ReplyOK
  <2>8. LearntOK(c)'
    BY <1>2, <1>4 DEF LearntOK
  <2>9. QED
    BY <2>5, <2>6, <2>7, <2>8 DEF Conn
<1>7. \A d \in Clients \ {c} : Conn(d)'
  BY <1>4, <1>5, OthersStay
<1>8. QED
  BY <1>4, <1>6, <1>7

\* A client that connects, or cannot: nothing is on its way, and nothing was
\* learnt.
LEMMA ConnectStep ==
  ASSUME ExchangeInv, NEW c \in Clients, Connect(c)
  PROVE  ExchangeInv'
<1>1. /\ ShapeInv /\ QueueInv /\ Conn(c) /\ client[c].at = "idle"
      /\ UNCHANGED <<provider, server, stopping, option, toServer, toClient, dropped>>
  BY DEF ExchangeInv, Connect
<1>2. PICK p \in {"hello", "failed"} :
        /\ client' = [client EXCEPT ![c] = [client[c] EXCEPT !.at = p]]
        /\ IF p = "failed" THEN UNCHANGED <<backlog, ends>>
           ELSE /\ backlog' = Append(backlog, c)
                /\ ends' = [ends EXCEPT ![c] = {"client", "server"}]
  BY DEF Connect
<1> DEFINE v == [client[c] EXCEPT !.at = p]
<1>3. /\ v = [at |-> v.at, buffer |-> v.buffer, ack |-> v.ack, response |-> v.response,
              accepted |-> v.accepted]
      /\ v.at = p /\ v.buffer = client[c].buffer /\ client' = [client EXCEPT ![c] = v]
  BY <1>1, <1>2 DEF ShapeInv
<1> HIDE DEF v
<1>4. client'[c] = v /\ \A d \in Clients \ {c} : client'[d] = client[d]
  BY <1>1, <1>3 DEF ShapeInv
<1>5. /\ ends' \in [Clients -> SUBSET {"client", "server"}]
      /\ \A d \in Clients \ {c} : ends'[d] = ends[d]
      /\ p = "failed" => ends'[c] = ends[c]
  BY <1>1, <1>2 DEF ShapeInv
<1>6. ShapeInv'
  BY <1>1, <1>3, <1>4, <1>5 DEF ShapeInv, ClientPlaces
<1>7. QueueInv'
  <2>1. \A i \in DOMAIN backlog : backlog[i] \in Clients /\ backlog[i] # c
    BY <1>1, ElementOfSeq DEF QueueInv
  <2>2. c # server.peer
    BY <1>1, EvidenceAssumption DEF QueueInv
  <2>3. \A d \in Clients : client[d].at # "idle" => client'[d].at # "idle"
    BY <1>1, <1>3, <1>4
  <2>4. Serving' = Serving
    BY <1>1 DEF Serving
  <2>5. CASE p = "failed"
    BY <1>1, <1>2, <2>1, <2>3, <2>4, <2>5 DEF QueueInv
  <2>6. CASE p # "failed"
    <3>1. /\ backlog' \in Seq(Clients) /\ Len(backlog') = Len(backlog) + 1
          /\ DOMAIN backlog' = 1 .. Len(backlog) + 1 /\ DOMAIN backlog = 1 .. Len(backlog)
          /\ Len(backlog) \in Nat
          /\ \A i \in 1 .. Len(backlog) : backlog'[i] = backlog[i]
          /\ backlog'[Len(backlog) + 1] = c
      <4>1. backlog \in Seq(Clients) /\ backlog' = Append(backlog, c)
        BY <1>1, <1>2, <2>6 DEF QueueInv
      <4>2. QED
        BY <4>1, AppendProperties, LenProperties
    <3>2. \A i, j \in DOMAIN backlog' : backlog'[i] = backlog'[j] => i = j
      BY <1>1, <2>1, <3>1 DEF QueueInv
    <3>3. \A i \in DOMAIN backlog' : backlog'[i] # server'.peer /\ client'[backlog'[i]].at # "idle"
      BY <1>1, <1>3, <1>4, <2>1, <2>2, <2>3, <3>1 DEF QueueInv
    <3>4. QED
      BY <1>1, <2>3, <2>4, <3>1, <3>2, <3>3 DEF QueueInv
  <2>7. QED
    BY <2>5, <2>6
<1>8. Conn(c)'
  <2>1. /\ Held(c) = <<>> /\ toServer[c] = <<>> /\ client[c].buffer = <<>> /\ toClient[c] = <<>>
        /\ ~ Replying(c) /\ "client" \notin ends[c]
    BY <1>1, QuietProperty DEF Conn, TurnOK
  <2>2. /\ Held(c)' = <<>> /\ toServer'[c] = <<>> /\ client'[c].buffer = <<>> /\ toClient'[c] = <<>>
        /\ ~ Replying(c)'
    BY <1>1, <1>3, <1>4, <2>1 DEF Held, Replying
  <2>3. OnWay(c)' = <<>> /\ Coming(c)' = <<>>
    BY <2>2, EmptyProperty DEF OnWay, Coming
  <2>4. StreamOK(c)'
    BY <2>2, <2>3, EmptyProperty DEF StreamOK
  <2>5. TurnOK(c)'
    BY <1>3, <1>4, <1>5, <2>1, <2>2, <2>3 DEF TurnOK
  <2>6. LearntOK(c)'
    BY <1>3, <1>4 DEF LearntOK
  <2>7. QED
    BY <2>2, <2>4, <2>5, <2>6 DEF Conn
<1>9. \A d \in Clients \ {c} : Conn(d)'
  BY <1>1, <1>4, <1>5, OthersStay
<1>10. QED
  BY <1>1, <1>6, <1>7, <1>8, <1>9 DEF ExchangeInv

\* A client whose turn it is sends a message and goes on.
LEMMA SpeakProperty ==
  ASSUME ExchangeInv, NEW c \in Clients,
         client[c].at \in {"hello", "request", "bye"},
         \E v : /\ v = [at |-> v.at, buffer |-> v.buffer, ack |-> v.ack, response |-> v.response,
                       accepted |-> v.accepted]
                /\ v.at \in {"ack", "response", "ok"}
                /\ v.buffer = client[c].buffer \/ v.buffer = <<>>
                /\ v.at = "ok" => "client" \notin ends'[c]
                /\ client' = [client EXCEPT ![c] = v],
         \E m \in Outgoing(c)' : toServer' = Sent(c, Frame(m)),
         UNCHANGED <<provider, server, stopping, backlog, option>>,
         \/ UNCHANGED <<toClient, ends>>
         \/ ClientCloses(c),
         LearntOK(c)'
  PROVE  ShapeInv' /\ QueueInv' /\ \A d \in Clients : Conn(d)'
<1>9. PICK m \in Outgoing(c)' : toServer' = Sent(c, Frame(m))
  OBVIOUS
<1>10. PICK v : /\ v = [at |-> v.at, buffer |-> v.buffer, ack |-> v.ack, response |-> v.response,
                        accepted |-> v.accepted]
                /\ v.at \in {"ack", "response", "ok"}
                /\ v.buffer = client[c].buffer \/ v.buffer = <<>>
                /\ v.at = "ok" => "client" \notin ends'[c]
                /\ client' = [client EXCEPT ![c] = v]
  OBVIOUS
<1>1. ShapeInv /\ QueueInv /\ Conn(c)
  BY DEF ExchangeInv
<1>2. /\ Held(c) = <<>> /\ toServer[c] = <<>> /\ client[c].buffer = <<>> /\ toClient[c] = <<>>
      /\ ~ Replying(c)
  BY <1>1, QuietProperty DEF Conn, TurnOK
<1>3. /\ DOMAIN toServer' = Clients /\ DOMAIN toClient' = Clients
      /\ ends' \in [Clients -> SUBSET {"client", "server"}]
      /\ toClient'[c] = <<>>
      /\ toServer'[c] = toServer[c] \o Frame(m) \/ toServer'[c] = toServer[c]
      /\ \A d \in Clients \ {c} :
           toServer'[d] = toServer[d] /\ toClient'[d] = toClient[d] /\ ends'[d] = ends[d]
  <2>1. /\ DOMAIN toServer = Clients /\ DOMAIN toClient = Clients
        /\ ends \in [Clients -> SUBSET {"client", "server"}] /\ toClient[c] = <<>>
    BY <1>1, <1>2 DEF ShapeInv
  <2>2. toServer' = toServer \/ toServer' = [toServer EXCEPT ![c] = @ \o Frame(m)]
    BY <1>9 DEF Sent
  <2>3. /\ DOMAIN toServer' = Clients
        /\ toServer'[c] = toServer[c] \o Frame(m) \/ toServer'[c] = toServer[c]
        /\ \A d \in Clients \ {c} : toServer'[d] = toServer[d]
    BY <2>1, <2>2
  <2>4. CASE UNCHANGED <<toClient, ends>>
    BY <2>1, <2>3, <2>4
  <2>5. CASE ClientCloses(c)
    BY <2>1, <2>3, <2>5 DEF ClientCloses
  <2>6. QED
    BY <2>4, <2>5
<1>11. v.at \in {"ack", "response", "ok"} /\ (v.at = "ok" => "client" \notin ends'[c])
  BY <1>10
<1>12. v = [at |-> v.at, buffer |-> v.buffer, ack |-> v.ack, response |-> v.response,
            accepted |-> v.accepted]
  BY <1>10
<1>4. Len(v.buffer) <= 1 /\ v.buffer = <<>> /\ v.at \in ClientPlaces \ {"idle"}
  <2>1. v.buffer = <<>>
    BY <1>2, <1>10
  <2>2. Len(<<>>) = 0
    OBVIOUS
  <2>3. QED
    BY <1>11, <2>1, <2>2 DEF ClientPlaces
<1>5. /\ ShapeInv' /\ QueueInv'
      /\ client'[c] = v /\ \A d \in Clients \ {c} : client'[d] = client[d]
  <2>1. client' = [client EXCEPT ![c] = v]
    BY <1>10
  <2>2. QED
    BY <1>1, <1>3, <1>4, <1>12, <2>1, ClientShape
<1>6. Conn(c)'
  <2>1. Held(c)' = <<>> /\ ~ Replying(c)'
    BY <1>2 DEF Held, Replying
  <2>2. toServer'[c] = Frame(m) \/ toServer'[c] = <<>>
    <3>1. <<>> \o Frame(m) = Frame(m)
      BY FrameProperty, ConcatEmptySeq DEF Stream
    <3>2. QED
      BY <1>2, <1>3, <3>1
  <2>3. toServer'[c] \in Stream(Outgoing(c)') /\ OneFrame(OnWay(c)')
    <3>1. Frame(m) \in Stream(Outgoing(c)') /\ OneFrame(Frame(m))
      BY <1>9, FrameProperty
    <3>2. <<>> \o Frame(m) = Frame(m)
      BY <3>1, ConcatEmptySeq DEF Stream
    <3>3. QED
      BY <2>1, <2>2, <3>1, <3>2, EmptyProperty DEF OnWay
  <2>4. Coming(c)' = <<>>
    BY <1>3, <1>4, <1>5, EmptyProperty DEF Coming
  <2>5. StreamOK(c)'
    BY <1>3, <1>4, <1>5, <2>1, <2>3, <2>4, EmptyProperty DEF StreamOK
  <2>6. TurnOK(c)'
    BY <1>5, <1>11, <2>1, <2>4 DEF TurnOK
  <2>7. QED
    BY <2>1, <2>5, <2>6 DEF Conn
<1>7. \A d \in Clients \ {c} : Conn(d)'
  BY <1>3, <1>5, OthersStay
<1>8. QED
  BY <1>5, <1>6, <1>7

LEMMA SendHelloStep ==
  ASSUME ExchangeInv, NEW c \in Clients, SendHello(c)
  PROVE  ExchangeInv'
<1> DEFINE v == [client[c] EXCEPT !.at = "ack"]
<1>1. /\ ShapeInv /\ client[c].at = "hello"
      /\ UNCHANGED <<provider, server, stopping, backlog, option, toClient, ends, dropped>>
      /\ toServer' = Sent(c, Frame(Hello(option[c])))
      /\ client' = [client EXCEPT ![c] = v]
  BY DEF ExchangeInv, SendHello
<1>2. /\ v = [at |-> v.at, buffer |-> v.buffer, ack |-> v.ack, response |-> v.response,
              accepted |-> v.accepted]
      /\ v.at = "ack" /\ v.buffer = client[c].buffer
  BY <1>1 DEF ShapeInv
<1> HIDE DEF v
<1>3. client'[c] = v
  BY <1>1 DEF ShapeInv
<1>4. Hello(option[c]) \in Outgoing(c)' /\ LearntOK(c)'
  BY <1>1, <1>2, <1>3 DEF Outgoing, LearntOK, Hello
<1>5. ShapeInv' /\ QueueInv' /\ \A d \in Clients : Conn(d)'
  <2>1. UNCHANGED <<provider, server, stopping, backlog, option>> /\ UNCHANGED <<toClient, ends>>
    BY <1>1
  <2>2. v.at # "ok" /\ v.at \in {"ack", "response", "ok"} /\ client[c].at \in {"hello", "request", "bye"}
    BY <1>1, <1>2
  <2>3. QED
    BY <1>1, <1>2, <1>4, <2>1, <2>2, SpeakProperty
<1>6. QED
  BY <1>1, <1>5 DEF ExchangeInv

LEMMA SendRequestStep ==
  ASSUME ExchangeInv, NEW c \in Clients, SendRequest(c)
  PROVE  ExchangeInv'
<1> DEFINE v == [client[c] EXCEPT !.at = "response"]
<1>1. /\ ShapeInv /\ client[c].at = "request" /\ Conn(c)
      /\ UNCHANGED <<provider, server, stopping, backlog, option, toClient, ends, dropped>>
      /\ toServer' = Sent(c, Frame(Request(option[c])))
      /\ client' = [client EXCEPT ![c] = v]
  BY DEF ExchangeInv, SendRequest
<1>2. /\ v = [at |-> v.at, buffer |-> v.buffer, ack |-> v.ack, response |-> v.response,
              accepted |-> v.accepted]
      /\ v.at = "response" /\ v.buffer = client[c].buffer /\ v.ack = client[c].ack
  BY <1>1 DEF ShapeInv
<1> HIDE DEF v
<1>3. client'[c] = v
  BY <1>1 DEF ShapeInv
<1>4. Request(option[c]) \in Outgoing(c)'
  BY <1>1, <1>2, <1>3 DEF Outgoing, Request
<1>5. LearntOK(c)'
  BY <1>1, <1>2, <1>3 DEF Conn, LearntOK, Given
<1>6. ShapeInv' /\ QueueInv' /\ \A d \in Clients : Conn(d)'
  <2>1. UNCHANGED <<provider, server, stopping, backlog, option>> /\ UNCHANGED <<toClient, ends>>
    BY <1>1
  <2>2. v.at # "ok" /\ v.at \in {"ack", "response", "ok"} /\ client[c].at \in {"hello", "request", "bye"}
    BY <1>1, <1>2
  <2>3. QED
    BY <1>1, <1>2, <1>4, <1>5, <2>1, <2>2, SpeakProperty
<1>7. QED
  BY <1>1, <1>6 DEF ExchangeInv

LEMMA SendByeStep ==
  ASSUME ExchangeInv, NEW c \in Clients, SendBye(c)
  PROVE  ExchangeInv'
<1> DEFINE v == [at |-> "ok", buffer |-> <<>>, ack |-> client[c].ack,
                 response |-> client[c].response, accepted |-> client[c].accepted]
<1>1. /\ ShapeInv /\ client[c].at = "bye" /\ Conn(c)
      /\ UNCHANGED <<provider, server, stopping, backlog, option, dropped>>
      /\ ClientCloses(c)
      /\ toServer' = Sent(c, Frame(Bye))
  BY DEF ExchangeInv, SendBye
<1>2. /\ v = [at |-> v.at, buffer |-> v.buffer, ack |-> v.ack, response |-> v.response,
              accepted |-> v.accepted]
      /\ v.at = "ok" /\ v.buffer = <<>> /\ v.ack = client[c].ack
      /\ v.response = client[c].response /\ v.accepted = client[c].accepted
  OBVIOUS
<1>3. client' = [client EXCEPT ![c] = v]
  <2>1. client[c] = [at |-> client[c].at, buffer |-> client[c].buffer, ack |-> client[c].ack,
                     response |-> client[c].response, accepted |-> client[c].accepted]
    BY <1>1 DEF ShapeInv
  <2>2. [client[c] EXCEPT !.at = "ok", !.buffer = <<>>] = v
    <3> DEFINE k == client[c]
               l == [k EXCEPT !.at = "ok"]
    <3>1. l = [at |-> "ok", buffer |-> k.buffer, ack |-> k.ack, response |-> k.response,
               accepted |-> k.accepted]
      BY <2>1
    <3>2. l.ack = k.ack /\ l.response = k.response /\ l.accepted = k.accepted
      BY <3>1
    <3>3. [l EXCEPT !.buffer = <<>>] = v
      <4> HIDE DEF l
      <4>1. QED
        BY <3>1, <3>2
    <3>4. QED
      BY <3>3
  <2>3. client' = [client EXCEPT ![c] = [client[c] EXCEPT !.at = "ok", !.buffer = <<>>]]
    BY DEF SendBye
  <2>4. QED
    BY <2>2, <2>3
<1> HIDE DEF v
<1>4. client'[c] = v /\ "client" \notin ends'[c]
  BY <1>1, <1>3 DEF ShapeInv, ClientCloses
<1>5. Bye \in Outgoing(c)'
  BY <1>1, <1>2, <1>4 DEF Outgoing
<1>6. LearntOK(c)'
  BY <1>1, <1>2, <1>4 DEF Conn, LearntOK, Given
<1>7. ShapeInv' /\ QueueInv' /\ \A d \in Clients : Conn(d)'
  BY <1>1, <1>2, <1>3, <1>4, <1>5, <1>6, SpeakProperty
<1>8. QED
  BY <1>1, <1>7 DEF ExchangeInv

LEMMA ClientFailsStep ==
  ASSUME ExchangeInv, NEW c \in Clients, ClientFails(c)
  PROVE  ExchangeInv'
<1>1. ShapeInv' /\ QueueInv' /\ \A d \in Clients : Conn(d)'
  BY AbandonProperty DEF ClientFails
<1>2. QED
  BY <1>1 DEF ClientFails, ExchangeInv

\* A client takes some of what has come: a frame is not whole yet, or its
\* message is the answer that was waited for, and nothing else is on its way.
LEMMA ClientReceivesStep ==
  ASSUME ExchangeInv, NEW c \in Clients, ClientReceives(c)
  PROVE  ExchangeInv'
<1> DEFINE k == client[c]
<1>1. /\ ShapeInv /\ QueueInv /\ Conn(c) /\ k.at \in {"ack", "response"} /\ dropped = 0
      /\ UNCHANGED <<provider, server, stopping, backlog, option, toServer, asked>>
  BY DEF ExchangeInv, ClientReceives
<1>2. PICK n \in 1 .. Len(toClient[c]) :
        LET bytes == Bytes(k.buffer, toClient[c], n)
            message == First(bytes)
            o == option[c]
            Continues(at, ack, response, accepted) ==
              /\ client' = [client EXCEPT ![c] =
                   [at |-> at, buffer |-> Rest(bytes), ack |-> ack, response |-> response,
                    accepted |-> accepted]]
              /\ toClient' = [toClient EXCEPT ![c] = SubSeq(@, n + 1, Len(@))]
              /\ ends' = ends
        IN  /\ dropped' = dropped + Overlooked(bytes)
            /\ IF Completed(bytes) = {} THEN Continues(k.at, k.ack, k.response, k.accepted)
               ELSE IF k.at = "ack" /\ Acceptable(message, o)
                 THEN Continues("request", message, k.response, k.accepted)
               ELSE IF k.at = "response" /\ SameIncarnation(message, k.ack, o)
                 THEN Continues("bye", k.ack, message,
                                {record \in Range(message.records) : Counted(record, o)})
                 ELSE Abandons(c)
  BY DEF ClientReceives
<1> DEFINE bytes == Bytes(k.buffer, toClient[c], n)
           rest == SubSeq(toClient[c], n + 1, Len(toClient[c]))
           message == First(bytes)
           accepted == {record \in Range(message.records) : Counted(record, option[c])}
<1>3. /\ Rest(bytes) \in Stream(Incoming(c)) /\ rest \in Stream(Incoming(c))
      /\ Len(Rest(bytes)) <= 1 /\ Overlooked(bytes) = 0
      /\ Completed(bytes) = {} => Rest(bytes) \o rest = Coming(c)
      /\ Completed(bytes) # {} => message \in Incoming(c) /\ Rest(bytes) = <<>> /\ rest = <<>>
  <2>1. /\ k.buffer \in Stream(Incoming(c)) /\ toClient[c] \in Stream(Incoming(c))
        /\ Len(k.buffer) <= 1 /\ OneFrame(k.buffer \o toClient[c])
    BY <1>1 DEF Conn, StreamOK, ShapeInv, Coming
  <2>2. Receives(Incoming(c), k.buffer, toClient[c], n)
    BY <2>1, ReceiveProperty
  <2>3. Coming(c) = k.buffer \o toClient[c]
    BY DEF Coming
  <2>4. QED
    BY <2>2, <2>3 DEF Receives
<1>4. k = [at |-> k.at, buffer |-> k.buffer, ack |-> k.ack, response |-> k.response,
           accepted |-> k.accepted]
  BY <1>1 DEF ShapeInv
<1>5. Coming(c) # <<>> /\ OnWay(c) = <<>> /\ ~ Replying(c)
  <2>1. toClient[c] # <<>>
    <3>1. Len(<<>>) = 0
      OBVIOUS
    <3>2. n \in 1 .. Len(toClient[c])
      OBVIOUS
    <3>3. QED
      BY <3>1, <3>2
  <2>2. QED
    BY <1>1, <2>1, QuietProperty DEF Conn, TurnOK
<1>6. Held(c)' = Held(c) /\ OnWay(c)' = <<>> /\ ~ Replying(c)'
  BY <1>1, <1>5 DEF Held, OnWay, Replying
<1>7. Held(c) = <<>> /\ toServer[c] = <<>>
  BY <1>1, <1>5, QuietProperty DEF Conn
<1>8. dropped' = 0
  BY <1>1, <1>2, <1>3
<1>9. ASSUME NEW v, v \in {[at |-> k.at, buffer |-> Rest(bytes), ack |-> k.ack,
                            response |-> k.response, accepted |-> k.accepted],
                           [at |-> "request", buffer |-> Rest(bytes), ack |-> message,
                            response |-> k.response, accepted |-> k.accepted],
                           [at |-> "bye", buffer |-> Rest(bytes), ack |-> k.ack,
                            response |-> message, accepted |-> accepted]},
             client' = [client EXCEPT ![c] = v],
             toClient' = [toClient EXCEPT ![c] = rest], ends' = ends,
             Conn(c)'
      PROVE  ExchangeInv'
  <2>1. /\ v = [at |-> v.at, buffer |-> v.buffer, ack |-> v.ack, response |-> v.response,
                accepted |-> v.accepted]
        /\ v.at \in {"ack", "response", "request", "bye"} /\ v.buffer = Rest(bytes)
    BY <1>1, <1>9
  <2>2. v.at \in ClientPlaces \ {"idle"} /\ Len(v.buffer) <= 1
    BY <1>3, <2>1 DEF ClientPlaces
  <2>3. /\ DOMAIN toServer' = Clients /\ DOMAIN toClient' = Clients
        /\ ends' \in [Clients -> SUBSET {"client", "server"}]
        /\ \A d \in Clients \ {c} : toClient'[d] = toClient[d]
    BY <1>1, <1>9 DEF ShapeInv
  <2>4. ShapeInv' /\ QueueInv' /\ \A d \in Clients \ {c} : client'[d] = client[d]
    BY <1>1, <1>9, <2>1, <2>2, <2>3, ClientShape
  <2>5. \A d \in Clients \ {c} : Conn(d)'
    BY <1>1, <1>9, <2>3, <2>4, OthersStay
  <2>6. QED
    BY <1>8, <1>9, <2>4, <2>5 DEF ExchangeInv
<1>10. CASE Completed(bytes) = {}
  <2> DEFINE v == [at |-> k.at, buffer |-> Rest(bytes), ack |-> k.ack,
                   response |-> k.response, accepted |-> k.accepted]
  <2>1. /\ client' = [client EXCEPT ![c] = v]
        /\ toClient' = [toClient EXCEPT ![c] = rest] /\ ends' = ends
    BY <1>2, <1>10
  <2>2. client'[c] = v /\ toClient'[c] = rest
    BY <1>1, <2>1 DEF ShapeInv
  <2>3. /\ Outgoing(c)' = Outgoing(c) /\ Incoming(c)' = Incoming(c) /\ Coming(c)' = Coming(c)
    <3>1. client'[c].at = k.at /\ client'[c].ack = k.ack /\ client'[c].buffer = Rest(bytes)
      BY <2>2
    <3>2. Given' = Given /\ option' = option
      BY <1>1 DEF Given
    <3>3. Rest(bytes) \o rest = Coming(c)
      BY <1>3, <1>10
    <3> HIDE DEF k, bytes, rest
    <3>4. Coming(c)' = Coming(c)
      BY <2>2, <3>1, <3>3 DEF Coming
    <3>5. Outgoing(c)' = Outgoing(c)
      BY <3>1, <3>2 DEF Outgoing, k
    <3>6. Incoming(c)' = Incoming(c)
      BY <3>1, <3>2 DEF Incoming, Newer, k
    <3>7. QED
      BY <3>4, <3>5, <3>6
  <2>4. StreamOK(c)'
    BY <1>1, <1>3, <1>6, <1>7, <2>2, <2>3, EmptyProperty DEF Conn, StreamOK
  <2>5. TurnOK(c)'
    BY <1>1, <1>6, <2>1, <2>2, <2>3 DEF Conn, TurnOK
  <2>6. LearntOK(c)'
    BY <1>1, <2>2 DEF Conn, LearntOK, Given
  <2>7. Conn(c)'
    BY <1>6, <2>4, <2>5, <2>6 DEF Conn
  <2>8. QED
    BY <1>9, <2>1, <2>7
<1>11. CASE Completed(bytes) # {} /\ k.at = "ack" /\ Acceptable(message, option[c])
  <2> DEFINE v == [at |-> "request", buffer |-> Rest(bytes), ack |-> message,
                   response |-> k.response, accepted |-> k.accepted]
  <2>1. /\ client' = [client EXCEPT ![c] = v]
        /\ toClient' = [toClient EXCEPT ![c] = rest] /\ ends' = ends
    BY <1>2, <1>11
  <2>2. client'[c] = v /\ toClient'[c] = rest /\ rest = <<>> /\ Rest(bytes) = <<>>
    BY <1>1, <1>3, <1>11, <2>1 DEF ShapeInv
  <2>3. Coming(c)' = <<>>
    BY <2>2, EmptyProperty DEF Coming
  <2>4. StreamOK(c)'
    <3>1. /\ Held(c)' = <<>> /\ toServer'[c] = <<>>
          /\ client'[c].buffer = <<>> /\ toClient'[c] = <<>>
      BY <1>1, <1>6, <1>7, <2>2
    <3>2. QED
      BY <1>6, <2>3, <3>1, EmptyProperty DEF StreamOK
  <2>5. TurnOK(c)'
    BY <1>6, <2>2, <2>3 DEF TurnOK
  <2>6. message \in Given
    BY <1>3, <1>11 DEF Incoming, Acceptable, Failure
  <2>7. LearntOK(c)'
    BY <1>1, <1>11, <2>2, <2>6 DEF LearntOK, Given
  <2>8. Conn(c)'
    BY <1>6, <2>4, <2>5, <2>7 DEF Conn
  <2>9. QED
    BY <1>9, <2>1, <2>8
<1>12. CASE /\ Completed(bytes) # {} /\ k.at = "response"
            /\ SameIncarnation(message, k.ack, option[c])
  <2> DEFINE v == [at |-> "bye", buffer |-> Rest(bytes), ack |-> k.ack,
                   response |-> message, accepted |-> accepted]
  <2>1. /\ client' = [client EXCEPT ![c] = v]
        /\ toClient' = [toClient EXCEPT ![c] = rest] /\ ends' = ends
    BY <1>2, <1>12
  <2>2. client'[c] = v /\ toClient'[c] = rest /\ rest = <<>> /\ Rest(bytes) = <<>>
    BY <1>1, <1>3, <1>12, <2>1 DEF ShapeInv
  <2>3. Coming(c)' = <<>>
    BY <2>2, EmptyProperty DEF Coming
  <2>4. StreamOK(c)'
    <3>1. /\ Held(c)' = <<>> /\ toServer'[c] = <<>>
          /\ client'[c].buffer = <<>> /\ toClient'[c] = <<>>
      BY <1>1, <1>6, <1>7, <2>2
    <3>2. QED
      BY <1>6, <2>3, <3>1, EmptyProperty DEF StreamOK
  <2>5. TurnOK(c)'
    BY <1>6, <2>2, <2>3 DEF TurnOK
  <2>6. message \in Newer(k.ack)
    BY <1>3, <1>12 DEF Incoming
  <2>7. accepted \subseteq {x \in TrueRecords : Counted(x, option[c])}
    <3>1. message.records \in Seq(TrueRecords)
      BY <2>6 DEF Newer, Responses
    <3>2. Range(message.records) \subseteq TrueRecords
      BY <3>1, LenProperties DEF Range
    <3>3. QED
      BY <3>2
  <2>8. LearntOK(c)'
    <3>1. k.ack \in Given /\ Acceptable(k.ack, option[c])
      BY <1>1, <1>12 DEF Conn, LearntOK
    <3>2. Given' = Given /\ option' = option
      BY <1>1 DEF Given
    <3> HIDE DEF k, accepted, message
    <3>3. QED
      BY <1>12, <2>2, <2>6, <2>7, <3>1, <3>2 DEF LearntOK
  <2>9. Conn(c)'
    BY <1>6, <2>4, <2>5, <2>8 DEF Conn
  <2>10. QED
    BY <1>9, <2>1, <2>9
<1>13. CASE /\ Completed(bytes) # {}
            /\ ~ (k.at = "ack" /\ Acceptable(message, option[c]))
            /\ ~ (k.at = "response" /\ SameIncarnation(message, k.ack, option[c]))
  <2>1. Abandons(c)
    BY <1>2, <1>13
  <2>2. ShapeInv' /\ QueueInv' /\ \A d \in Clients : Conn(d)'
    BY <1>1, <2>1, AbandonProperty
  <2>3. QED
    BY <1>8, <2>2 DEF ExchangeInv
<1>14. QED
  BY <1>10, <1>11, <1>12, <1>13

\* A peer that greets the server again is where it was before it did so.
LEMMA GreetsAgainStep ==
  ASSUME ExchangeInv, NEW c \in Clients, GreetsAgain(c)
  PROVE  ExchangeInv'
<1> DEFINE v == [Idle EXCEPT !.at = "hello"]
<1>1. /\ ShapeInv /\ QueueInv /\ Conn(c) /\ client[c].at = "request" /\ dropped' = 0
      /\ UNCHANGED <<provider, server, stopping, backlog, option, toServer, toClient, ends>>
      /\ client' = [client EXCEPT ![c] = v]
  BY DEF ExchangeInv, GreetsAgain, network
<1>2. /\ v = [at |-> v.at, buffer |-> v.buffer, ack |-> v.ack, response |-> v.response,
              accepted |-> v.accepted]
      /\ v.at = "hello" /\ v.buffer = <<>>
  <2>1. /\ Idle = [at |-> Idle.at, buffer |-> Idle.buffer, ack |-> Idle.ack,
                   response |-> Idle.response, accepted |-> Idle.accepted]
        /\ Idle.buffer = <<>>
    BY DEF Idle
  <2>2. QED
    BY <2>1
<1> HIDE DEF v
<1>3. /\ ShapeInv' /\ QueueInv'
      /\ client'[c] = v /\ \A d \in Clients \ {c} : client'[d] = client[d]
  <2>1. Len(v.buffer) <= 1 /\ v.at \in ClientPlaces \ {"idle"}
    BY <1>2, EmptySeq DEF ClientPlaces
  <2>2. /\ DOMAIN toServer' = Clients /\ DOMAIN toClient' = Clients
        /\ ends' \in [Clients -> SUBSET {"client", "server"}]
    BY <1>1 DEF ShapeInv
  <2>3. QED
    BY <1>1, <1>2, <2>1, <2>2, ClientShape
<1>4. Conn(c)'
  <2>1. Held(c) = <<>> /\ toServer[c] = <<>> /\ toClient[c] = <<>> /\ ~ Replying(c)
    BY <1>1, QuietProperty DEF Conn, TurnOK
  <2>2. Held(c)' = <<>> /\ toServer'[c] = <<>> /\ toClient'[c] = <<>> /\ ~ Replying(c)'
    BY <1>1, <2>1 DEF Held, Replying
  <2>3. OnWay(c)' = <<>> /\ Coming(c)' = <<>>
    BY <1>2, <1>3, <2>2, EmptyProperty DEF OnWay, Coming
  <2>4. StreamOK(c)'
    BY <1>2, <1>3, <2>2, <2>3, EmptyProperty DEF StreamOK
  <2>5. TurnOK(c)' /\ LearntOK(c)'
    BY <1>2, <1>3, <2>2, <2>3 DEF TurnOK, LearntOK
  <2>6. QED
    BY <2>2, <2>4, <2>5 DEF Conn
<1>5. \A d \in Clients \ {c} : Conn(d)'
  BY <1>1, <1>3, OthersStay
<1>6. QED
  BY <1>1, <1>3, <1>4, <1>5 DEF ExchangeInv

-----------------------------------------------------------------------------
(* The steps of the server *)

LEMMA ServerShape ==
  ASSUME ShapeInv, NEW v,
         v = [at |-> v.at, peer |-> v.peer, buffer |-> v.buffer, reply |-> v.reply],
         v.at \in ServerPlaces, server' = v,
         UNCHANGED <<provider, stopping, option, client>>,
         DOMAIN toServer' = Clients, DOMAIN toClient' = Clients,
         ends' \in [Clients -> SUBSET {"client", "server"}]
  PROVE  ShapeInv'
BY DEF ShapeInv

LEMMA TailProperty ==
  ASSUME QueueInv, backlog # <<>>
  PROVE  /\ Tail(backlog) \in Seq(Clients) /\ Head(backlog) \in Clients
         /\ Head(backlog) = backlog[1] /\ 1 \in DOMAIN backlog
         /\ \A i \in DOMAIN Tail(backlog) : /\ i + 1 \in DOMAIN backlog
                                            /\ Tail(backlog)[i] = backlog[i + 1]
                                            /\ i \in Nat \ {0}
<1>1. backlog \in Seq(Clients)
  BY DEF QueueInv
<1>2. Len(backlog) \in Nat \ {0} /\ DOMAIN backlog = 1 .. Len(backlog)
  BY <1>1, EmptySeq, LenProperties
<1>3. /\ Head(backlog) = backlog[1] /\ Head(backlog) \in Clients
      /\ Tail(backlog) \in Seq(Clients) /\ Len(Tail(backlog)) = Len(backlog) - 1
      /\ \A i \in 1 .. Len(Tail(backlog)) : Tail(backlog)[i] = backlog[i + 1]
  BY <1>1, HeadTailProperties
<1>4. DOMAIN Tail(backlog) = 1 .. Len(backlog) - 1
  BY <1>3, LenProperties
<1>5. QED
  BY <1>2, <1>3, <1>4

\* A server that serves nobody goes round its loop, or accepts a connection.
LEMMA RoundProperty ==
  ASSUME ExchangeInv, ~ Serving,
         NEW a \in ServerPlaces, server' = [server EXCEPT !.at = a],
         a \notin {"serve", "epoch", "generation", "fetch", "send", "sending", "refuse"},
         backlog' = backlog \/ (backlog # <<>> /\ backlog' = Tail(backlog)),
         UNCHANGED <<provider, stopping, option, client, network, dropped>>
  PROVE  ExchangeInv'
<1>1. ShapeInv /\ QueueInv /\ server.peer = Nobody /\ server.buffer = <<>> /\ dropped' = 0
  BY DEF ExchangeInv, QueueInv
<1>2. /\ server' = [at |-> a, peer |-> server.peer, buffer |-> server.buffer, reply |-> server.reply]
      /\ toServer' = toServer /\ toClient' = toClient /\ ends' = ends
  BY <1>1 DEF ShapeInv, network
<1>3. ShapeInv'
  BY <1>1, <1>2, ServerShape DEF ShapeInv
<1>4. QueueInv'
  <2>1. server'.peer = Nobody /\ server'.buffer = <<>> /\ ~ Serving'
    BY <1>1, <1>2 DEF Serving
  <2>2. CASE backlog' = backlog
    BY <1>1, <2>1, <2>2 DEF QueueInv
  <2>3. CASE backlog # <<>> /\ backlog' = Tail(backlog)
    <3>1. \A i \in DOMAIN backlog' : /\ i + 1 \in DOMAIN backlog /\ backlog'[i] = backlog[i + 1]
                                     /\ i \in Nat \ {0}
      BY <1>1, <2>3, TailProperty
    <3>2. backlog' \in Seq(Clients)
      BY <1>1, <2>3, TailProperty
    <3>3. \A i, j \in DOMAIN backlog' : backlog'[i] = backlog'[j] => i = j
      BY <1>1, <3>1 DEF QueueInv
    <3>4. \A i \in DOMAIN backlog' : backlog'[i] # Nobody /\ client'[backlog'[i]].at # "idle"
      BY <1>1, <3>1 DEF QueueInv
    <3>5. QED
      BY <2>1, <3>2, <3>3, <3>4 DEF QueueInv
  <2>4. QED
    BY <2>2, <2>3
<1>5. ASSUME NEW c \in Clients PROVE Conn(c)'
  <2>1. Held(c)' = Held(c) /\ ~ Replying(c)' /\ Given' = Given
    BY <1>1, <1>2 DEF Held, Replying, Given
  <2>2. QED
    BY <1>2, <2>1, ClientStays DEF ExchangeInv
<1>6. QED
  BY <1>1, <1>3, <1>4, <1>5 DEF ExchangeInv

LEMMA LooksAtStopStep ==
  ASSUME ExchangeInv, LooksAtStop
  PROVE  ExchangeInv'
<1>1. PICK a \in {"stopped", "accept"} : server' = [server EXCEPT !.at = a]
  BY DEF LooksAtStop
<1>2. ~ Serving /\ a \in ServerPlaces
  BY DEF LooksAtStop, Serving, ServerPlaces
<1>3. QED
  BY <1>1, <1>2, RoundProperty DEF LooksAtStop

LEMMA AcceptStep ==
  ASSUME ExchangeInv, Accept
  PROVE  ExchangeInv'
<1>1. ShapeInv /\ QueueInv /\ ~ Serving /\ server.peer = Nobody /\ server.buffer = <<>>
  BY DEF ExchangeInv, QueueInv, Accept, Serving
<1>2. CASE server' = [server EXCEPT !.at = "loop"] /\ backlog' = backlog
  BY <1>1, <1>2, RoundProperty DEF Accept, ServerPlaces
<1>3. CASE /\ backlog # <<>> /\ server' = [server EXCEPT !.at = "serve", !.peer = Head(backlog)]
           /\ backlog' = Tail(backlog)
  <2>1. server' = [at |-> "serve", peer |-> Head(backlog), buffer |-> <<>>, reply |-> server.reply]
    BY <1>1, <1>3 DEF ShapeInv
  <2>2. UNCHANGED <<provider, stopping, option, client, dropped, toServer, toClient, ends>>
    BY DEF Accept, network
  <2>3. ShapeInv'
    BY <1>1, <2>1, <2>2, ServerShape DEF ShapeInv, ServerPlaces
  <2>4. QueueInv'
    <3>1. Serving' /\ server'.peer = backlog[1] /\ server'.buffer = <<>> /\ backlog[1] \in Clients
          /\ 1 \in DOMAIN backlog /\ client'[backlog[1]].at # "idle"
      BY <1>1, <1>3, <2>1, <2>2, TailProperty DEF Serving, QueueInv
    <3>2. \A i \in DOMAIN backlog' : /\ i + 1 \in DOMAIN backlog /\ backlog'[i] = backlog[i + 1]
                                     /\ i \in Nat \ {0}
      BY <1>1, <1>3, TailProperty
    <3>3. backlog' \in Seq(Clients)
      BY <1>1, <1>3, TailProperty
    <3>4. \A i, j \in DOMAIN backlog' : backlog'[i] = backlog'[j] => i = j
      BY <1>1, <3>2 DEF QueueInv
    <3>5. \A i \in DOMAIN backlog' : backlog'[i] # server'.peer /\ client'[backlog'[i]].at # "idle"
      <4>1. ASSUME NEW i \in DOMAIN backlog'
            PROVE  backlog'[i] # server'.peer /\ client'[backlog'[i]].at # "idle"
        <5>1. i + 1 \in DOMAIN backlog /\ backlog'[i] = backlog[i + 1] /\ i + 1 # 1
          BY <3>2
        <5>2. backlog[i + 1] # backlog[1]
          BY <1>1, <3>1, <5>1 DEF QueueInv
        <5>3. QED
          BY <1>1, <2>2, <3>1, <5>1, <5>2 DEF QueueInv
      <4>2. QED
        BY <4>1
    <3>6. Len(<<>>) <= 1
      OBVIOUS
    <3>7. QED
      BY <3>1, <3>3, <3>4, <3>5, <3>6 DEF QueueInv
  <2>5. ASSUME NEW c \in Clients PROVE Conn(c)'
    <3>1. Held(c)' = Held(c) /\ ~ Replying(c)' /\ Given' = Given
      BY <1>1, <2>1, <2>2 DEF Held, Replying, Given
    <3>2. QED
      BY <2>2, <3>1, ClientStays DEF ExchangeInv
  <2>6. QED
    BY <2>2, <2>3, <2>4, <2>5 DEF ExchangeInv
<1>4. QED
  BY <1>2, <1>3 DEF Accept

LEMMA AcceptFailsStep ==
  ASSUME ExchangeInv, AcceptFails
  PROVE  ExchangeInv'
<1>1. PICK a \in {"stopped", "failed"} : server' = [server EXCEPT !.at = a]
  BY DEF AcceptFails
<1>2. ~ Serving /\ a \in ServerPlaces
  BY DEF AcceptFails, Serving, ServerPlaces
<1>3. QED
  BY <1>1, <1>2, RoundProperty DEF AcceptFails

\* The connection that was served is closed: of the others nothing changes.
LEMMA LeavesProperty ==
  ASSUME ExchangeInv, NEW c \in Clients, server.peer = c,
         NEW a \in {"loop", "failed", "killed"}, Leaves(a),
         UNCHANGED <<provider, stopping, backlog, option, client>>,
         DOMAIN toClient' = Clients,
         \A d \in Clients \ {c} : toClient'[d] = toClient[d]
  PROVE  /\ ShapeInv' /\ QueueInv'
         /\ Held(c)' = <<>> /\ toServer'[c] = <<>> /\ ~ Replying(c)'
         /\ ends'[c] = ends[c] \ {"server"}
         /\ \A d \in Clients \ {c} : Conn(d)'
<1>1. ShapeInv /\ QueueInv
  BY DEF ExchangeInv
<1>2. /\ server' = [at |-> a, peer |-> Nobody, buffer |-> <<>>, reply |-> Unread]
      /\ ends' = [ends EXCEPT ![c] = @ \ {"server"}]
      /\ toServer' = [toServer EXCEPT ![c] = <<>>]
  BY DEF Leaves, Listening
<1>3. /\ DOMAIN toServer' = Clients /\ ends' \in [Clients -> SUBSET {"client", "server"}]
      /\ toServer'[c] = <<>>
      /\ ends'[c] = ends[c] \ {"server"}
      /\ \A d \in Clients \ {c} : toServer'[d] = toServer[d] /\ ends'[d] = ends[d]
  BY <1>1, <1>2 DEF ShapeInv
<1>4. ShapeInv'
  <2>1. a \in ServerPlaces
    BY DEF ServerPlaces
  <2>2. QED
    BY <1>1, <1>2, <1>3, <2>1, ServerShape
<1>5. QueueInv'
  <2>1. ~ Serving' /\ server'.peer = Nobody /\ server'.buffer = <<>>
    BY <1>2 DEF Serving
  <2>2. \A i \in DOMAIN backlog : backlog[i] \in Clients
    BY <1>1, ElementOfSeq DEF QueueInv
  <2>3. QED
    BY <1>1, <2>1, <2>2, EvidenceAssumption DEF QueueInv
<1>6. \A d \in Clients : Held(d)' = <<>> /\ ~ Replying(d)'
  BY <1>2 DEF Held, Replying
<1>7. ASSUME NEW d \in Clients \ {c} PROVE Conn(d)'
  <2>1. Held(d)' = Held(d) /\ Given' = Given
    BY <1>6 DEF Held, Given
  <2>2. QED
    BY <1>3, <1>6, <2>1, ClientStays DEF ExchangeInv
<1>8. QED
  BY <1>3, <1>4, <1>5, <1>6, <1>7

\* A connection that ends on the server's side with nothing said.
LEMMA LeavesSilently ==
  ASSUME ExchangeInv, Serving, NEW a \in {"loop", "failed", "killed"}, Leaves(a), dropped' = 0,
         UNCHANGED <<provider, stopping, backlog, option, client, toClient>>
  PROVE  ExchangeInv'
<1>1. PICK c \in Clients : server.peer = c
  BY DEF ExchangeInv, QueueInv
<1>2. /\ ShapeInv' /\ QueueInv'
      /\ Held(c)' = <<>> /\ toServer'[c] = <<>> /\ ~ Replying(c)'
      /\ ends'[c] = ends[c] \ {"server"}
      /\ \A d \in Clients \ {c} : Conn(d)'
  <2>1. DOMAIN toClient' = Clients
    BY DEF ExchangeInv, ShapeInv
  <2>2. QED
    BY <1>1, <2>1, LeavesProperty
<1>3. Conn(c)'
  <2>1. Given' = Given /\ Conn(c)
    BY DEF Given, ExchangeInv
  <2>2. QED
    BY <1>2, <2>1, ClientStays
<1>4. QED
  BY <1>2, <1>3 DEF ExchangeInv

LEMMA ServerGivesUpStep ==
  ASSUME ExchangeInv, ServerGivesUp
  PROVE  ExchangeInv'
BY LeavesSilently DEF ServerGivesUp, Serving, ExchangeInv

\* The connection that is served is served on: of the others nothing changes.
LEMMA ServesOn ==
  ASSUME ExchangeInv, NEW c \in Clients, server.peer = c,
         NEW v, v = [at |-> v.at, peer |-> c, buffer |-> v.buffer, reply |-> v.reply],
         v.at \in {"serve", "epoch", "generation", "fetch", "send", "sending", "refuse"},
         Len(v.buffer) <= 1, server' = v,
         UNCHANGED <<provider, stopping, backlog, option, client, ends>>,
         DOMAIN toServer' = Clients, DOMAIN toClient' = Clients,
         \A d \in Clients \ {c} : toServer'[d] = toServer[d] /\ toClient'[d] = toClient[d]
  PROVE  /\ ShapeInv' /\ QueueInv'
         /\ \A d \in Clients \ {c} : Conn(d)'
<1>1. ShapeInv /\ QueueInv /\ v.peer = c
  BY DEF ExchangeInv
<1>2. ShapeInv'
  <2>1. v.at \in ServerPlaces
    BY DEF ServerPlaces
  <2>2. ends' \in [Clients -> SUBSET {"client", "server"}]
    BY <1>1 DEF ShapeInv
  <2>3. QED
    BY <1>1, <2>1, <2>2, ServerShape
<1>3. QueueInv'
  <2>1. Serving /\ client[c].at # "idle"
    BY <1>1, EvidenceAssumption DEF QueueInv
  <2>2. Serving' /\ server'.peer = c /\ Len(server'.buffer) <= 1
    BY <1>1 DEF Serving
  <2>3. QED
    BY <1>1, <2>1, <2>2 DEF QueueInv
<1>4. ASSUME NEW d \in Clients \ {c} PROVE Conn(d)'
  <2>1. Held(d)' = Held(d) /\ ~ Replying(d)' /\ Given' = Given
    BY <1>1 DEF Held, Replying, Given
  <2>2. QED
    BY <2>1, ClientStays DEF ExchangeInv
<1>5. QED
  BY <1>2, <1>3, <1>4

\* A connection of which the server has read what there was, and which it is
\* about to answer.
LEMMA AnswersProperty ==
  ASSUME NEW c \in Clients, Conn(c), server.peer = c,
         UNCHANGED <<provider, option, client, toClient, ends>>,
         client[c].at \notin {"idle", "hello", "request", "bye"},
         Coming(c) = <<>>,
         Held(c)' = <<>>, toServer'[c] = <<>>, Replying(c)' => ReplyOK(c)'
  PROVE  Conn(c)'
<1>1. OnWay(c)' = <<>> /\ Given' = Given
  BY EmptyProperty DEF OnWay, Given
<1>2. /\ Outgoing(c)' = Outgoing(c) /\ Incoming(c)' = Incoming(c) /\ Coming(c)' = Coming(c)
  BY <1>1 DEF Outgoing, Incoming, Newer, Coming
<1>3. StreamOK(c)'
  BY <1>1, <1>2, EmptyProperty DEF Conn, StreamOK
<1>4. TurnOK(c)'
  BY <1>1, <1>2 DEF Conn, TurnOK
<1>5. LearntOK(c)'
  BY <1>1 DEF Conn, LearntOK
<1>6. QED
  BY <1>3, <1>4, <1>5 DEF Conn

\* The server goes on with what it is about to answer.
LEMMA AskProperty ==
  ASSUME ExchangeInv, NEW c \in Clients, server.peer = c, Replying(c),
         NEW a \in {"generation", "fetch", "send"}, NEW w,
         server' = [at |-> a, peer |-> c, buffer |-> server.buffer, reply |-> w],
         UNCHANGED <<provider, stopping, backlog, option, client, network, dropped>>,
         ReplyOK(c)'
  PROVE  ExchangeInv'
<1> DEFINE v == [at |-> a, peer |-> c, buffer |-> server.buffer, reply |-> w]
<1>1. /\ ShapeInv /\ QueueInv /\ Conn(c)
      /\ toServer' = toServer /\ toClient' = toClient /\ ends' = ends
  BY DEF ExchangeInv, network
<1>2. v.at = a /\ v.buffer = server.buffer /\ v.reply = w /\ v.peer = c
  OBVIOUS
<1> HIDE DEF v
<1>3. ShapeInv' /\ QueueInv' /\ \A d \in Clients \ {c} : Conn(d)'
  <2>1. v = [at |-> v.at, peer |-> c, buffer |-> v.buffer, reply |-> v.reply]
    BY DEF v
  <2>2. Len(v.buffer) <= 1 /\ DOMAIN toServer' = Clients /\ DOMAIN toClient' = Clients
    BY <1>1, <1>2, EvidenceAssumption DEF QueueInv, ShapeInv
  <2>3. v.at \in {"serve", "epoch", "generation", "fetch", "send", "sending", "refuse"} /\ server' = v
    BY <1>2 DEF v
  <2>4. \A d \in Clients \ {c} : toServer'[d] = toServer[d] /\ toClient'[d] = toClient[d]
    BY <1>1
  <2>5. UNCHANGED <<provider, stopping, backlog, option, client, ends>>
    BY <1>1
  <2>6. QED
    BY <2>1, <2>2, <2>3, <2>4, <2>5, ServesOn
<1>4. Conn(c)'
  <2>1. /\ OnWay(c) = <<>> /\ Coming(c) = <<>>
        /\ client[c].at \notin {"idle", "hello", "request", "bye"}
    BY <1>1 DEF Conn, TurnOK
  <2>2. Held(c) = <<>> /\ toServer[c] = <<>>
    BY <1>1, <2>1, QuietProperty DEF Conn
  <2>3. Held(c)' = <<>> /\ toServer'[c] = <<>>
    BY <1>1, <2>2 DEF Held
  <2>4. QED
    BY <1>1, <2>1, <2>3, AnswersProperty
<1>5. QED
  BY <1>3, <1>4 DEF ExchangeInv

LEMMA AskEpochStep ==
  ASSUME ExchangeInv, AskEpoch
  PROVE  ExchangeInv'
<1>1. PICK c \in Clients : server.peer = c
  BY DEF ExchangeInv, QueueInv, AskEpoch, Serving
<1> DEFINE reply == server.reply
           w == [[reply EXCEPT !.epoch = provider.epoch] EXCEPT !.boot = provider.boot]
<1>2. /\ ShapeInv /\ Conn(c) /\ Replying(c) /\ ReplyOK(c) /\ server.at = "epoch"
      /\ UNCHANGED <<provider, stopping, backlog, option, client, network, dropped>>
      /\ provider.epoch \in Nat /\ provider.boot \in Nat
  BY <1>1 DEF AskEpoch, Replying, ExchangeInv, ShapeInv, Conn
<1>3. server' = [at |-> "generation", peer |-> c, buffer |-> server.buffer, reply |-> w]
  BY <1>1, <1>2 DEF AskEpoch, ShapeInv
<1>4. /\ reply \in Acks \cup Drafts
      /\ client[c].at = "ack" => reply \in Acks
      /\ client[c].at = "response" => reply \in Drafts
  BY <1>2 DEF ReplyOK
<1>5. /\ reply \in Acks => w \in Acks
      /\ reply \in Drafts => w \in Drafts
      /\ w.boot = provider.boot
  BY <1>2, <1>4 DEF Acks, Drafts
<1> HIDE DEF w, reply
<1>6. ReplyOK(c)'
  <2>1. server'.at = "generation" /\ server'.reply = w
    BY <1>3
  <2>2. QED
    BY <1>2, <1>4, <1>5, <2>1 DEF ReplyOK
<1>7. QED
  BY <1>1, <1>2, <1>3, <1>6, AskProperty

LEMMA AskGenerationStep ==
  ASSUME ExchangeInv, AskGeneration
  PROVE  ExchangeInv'
<1>1. PICK c \in Clients : server.peer = c
  BY DEF ExchangeInv, QueueInv, AskGeneration, Serving
<1> DEFINE reply == server.reply
           w == [reply EXCEPT !.generation = provider.generation]
           a == IF reply.kind = "ack" THEN "send" ELSE "fetch"
<1>2. /\ ShapeInv /\ Conn(c) /\ Replying(c) /\ ReplyOK(c) /\ server.at = "generation"
      /\ UNCHANGED <<provider, stopping, backlog, option, client, network, dropped>>
      /\ provider.generation \in Nat /\ provider.boot \in Nat
  BY <1>1 DEF AskGeneration, Replying, ExchangeInv, ShapeInv, Conn
<1>3. server' = [at |-> a, peer |-> c, buffer |-> server.buffer, reply |-> w]
  BY <1>1, <1>2 DEF AskGeneration, ShapeInv
<1>4. /\ reply \in Acks \cup Drafts /\ reply.boot = provider.boot
      /\ client[c].at = "ack" => reply \in Acks
      /\ client[c].at = "response" => reply \in Drafts
  BY <1>2 DEF ReplyOK
<1>5. /\ reply \in Acks => w \in Acks /\ a = "send"
      /\ reply \in Drafts => w \in Drafts /\ a = "fetch"
      /\ w.boot = provider.boot /\ w.generation = provider.generation
  BY <1>2, <1>4 DEF Acks, Drafts
<1>6. client[c].at = "response" => client[c].ack \in Given
  BY <1>2 DEF Conn, LearntOK
<1> HIDE DEF w, reply, a
<1>7. ReplyOK(c)'
  <2>1. server'.at = a /\ server'.reply = w /\ client' = client /\ provider' = provider
    BY <1>2, <1>3
  <2>2. a = "fetch" => w \in Drafts /\ client[c].at # "ack"
    BY <1>4, <1>5
  <2>3. a = "send" => w \in Acks /\ client[c].at # "response"
    BY <1>4, <1>5
  <2>4. a = "fetch" /\ client[c].at = "response" /\ w.boot = client[c].ack.boot =>
          w.generation >= client[c].ack.generation
    BY <1>2, <1>5, <1>6 DEF Given, Acks
  <2>5. a = "send" /\ client[c].at = "ack" => w \in Incoming(c)'
    <3>1. Incoming(c)' = Incoming(c)
      BY <2>1, <1>2 DEF Incoming, Newer, Given
    <3>2. w \in Acks => w \in Given
      BY <1>2, <1>5 DEF Given
    <3>3. QED
      BY <2>3, <3>1, <3>2 DEF Incoming
  <2>6. a \in {"send", "fetch"}
    BY DEF a
  <2>7. QED
    BY <2>1, <2>2, <2>3, <2>4, <2>5, <2>6 DEF ReplyOK
<1>8. QED
  <2>1. a \in {"generation", "fetch", "send"}
    BY DEF a
  <2>2. QED
    BY <1>1, <1>2, <1>3, <1>7, <2>1, AskProperty

\* Cutting a sequence off.
LEMMA CappedProperty ==
  ASSUME NEW T, NEW s \in Seq(T), NEW n \in Nat
  PROVE  /\ Capped(s, n) \in Seq(T)
         /\ \A i \in 1 .. Len(Capped(s, n)) : Capped(s, n)[i] = s[i] /\ i <= Len(s)
         /\ Len(s) <= n => Len(Capped(s, n)) = Len(s)
<1> DEFINE k == IF Len(s) < n THEN Len(s) ELSE n
<1>1. Len(s) \in Nat /\ k \in Nat /\ k <= Len(s) /\ (Len(s) <= n => k = Len(s))
  BY LenProperties
<1>2. \A i \in 1 .. k : s[i] \in T
  <2>1. \A i \in 1 .. Len(s) : s[i] \in T
    BY ElementOfSeq
  <2>2. QED
    BY <1>1, <2>1
<1>3. Capped(s, n) = SubSeq(s, 1, k)
  BY DEF Capped
<1> HIDE DEF k
<1>4. /\ SubSeq(s, 1, k) \in Seq(T) /\ Len(SubSeq(s, 1, k)) = k
      /\ \A i \in 1 .. k : SubSeq(s, 1, k)[i] = s[i]
  BY <1>1, <1>2, SubSeqProperties
<1>5. QED
  BY <1>1, <1>3, <1>4

\* What the provider holds of a resource is a record of it.
LEMMA RecordProperty ==
  ASSUME ShapeInv, NEW r \in Resources
  PROVE  /\ Record(r) \in TrueRecords /\ Record(r).resource = r
         /\ Record(r).egen = provider.held[r].egen /\ Record(r).rgen = provider.held[r].rgen
<1>1. provider.held[r].rgen \in Nat /\ provider.held[r].egen \in Nat
  BY DEF ShapeInv
<1>2. PICK q \in BOOLEAN : (q <=> r \in Authorised) /\ q = (r \in Authorised)
  <2>1. CASE r \in Authorised
    <3>1. TRUE = (r \in Authorised)
      BY <2>1
    <3>2. QED
      BY <2>1, <3>1
  <2>2. CASE r \notin Authorised
    <3>1. FALSE = (r \in Authorised)
      BY <2>2
    <3>2. QED
      BY <2>2, <3>1
  <2>3. QED
    BY <2>1, <2>2
<1>3. q \in BOOLEAN /\ (q => r \in Authorised)
  BY <1>2
<1>4. Record(r) = [resource |-> r, rgen |-> provider.held[r].rgen,
                   egen |-> provider.held[r].egen, authoritative |-> q]
  BY <1>2 DEF Record
<1>5. QED
  BY <1>1, <1>3, <1>4 DEF TrueRecords

\* A fetch from the provider hands out what it holds, and of every resource of
\* the generation asked for, when as many are asked for as there are.
LEMMA FetchedProperty ==
  ASSUME ShapeInv, NEW since \in Nat, NEW max \in Nat
  PROVE  /\ Fetched(since, max) \in Seq({Record(r) : r \in Resources})
         /\ Len(Fetched(since, max)) <= Len(Population)
         /\ Len(Population) <= max =>
              \A r \in Resources : provider.held[r].rgen >= since =>
                \E i \in 1 .. Len(Fetched(since, max)) : Fetched(since, max)[i] = Record(r)
<1> DEFINE N == Len(Population)
           H == {i \in DOMAIN Population : provider.held[Population[i]].rgen >= since}
           n == Cardinality(H)
           T == {Record(r) : r \in Resources}
           s == RecordsAt(H)
<1>1. N \in Nat /\ DOMAIN Population = 1 .. N /\ H \in SUBSET (1 .. N)
  BY EvidenceAssumption, LenProperties
<1>2. /\ n \in Nat /\ InOrder(H) \in [1 .. n -> H]
      /\ \A a \in H : \E i \in 1 .. n : InOrder(H)[i] = a
  BY <1>1, InOrderType, InOrderComplete
<1>3. \A i \in 1 .. N : Population[i] \in Resources
  BY <1>1 DEF Resources, Range
<1>4. s = [i \in 1 .. n |-> Record(Population[InOrder(H)[i]])]
  BY DEF RecordsAt
<1>5. Fetched(since, max) = Capped(s, max)
  BY DEF Fetched
<1>6. n <= N
  <2>1. IsFiniteSet(1 .. N) /\ Cardinality(1 .. N) = N
    BY <1>1, FS_Interval
  <2>2. QED
    BY <1>1, <2>1, FS_Subset
<1> HIDE DEF N, H, n, s
<1>7. s \in Seq(T) /\ Len(s) = n
  <2>1. \A i \in 1 .. n : s[i] \in T
    BY <1>1, <1>2, <1>3, <1>4
  <2> HIDE DEF T
  <2>2. s \in [1 .. n -> T]
    BY <1>4, <2>1
  <2>3. QED
    BY <1>2, <2>2, SeqDef, LenProperties
<1>8. /\ Capped(s, max) \in Seq(T)
      /\ \A i \in 1 .. Len(Capped(s, max)) : Capped(s, max)[i] = s[i] /\ i <= n
      /\ n <= max => Len(Capped(s, max)) = n
      /\ Len(Capped(s, max)) <= n
  <2>1. /\ Capped(s, max) \in Seq(T)
        /\ \A i \in 1 .. Len(Capped(s, max)) : Capped(s, max)[i] = s[i] /\ i <= Len(s)
        /\ Len(s) <= max => Len(Capped(s, max)) = Len(s)
    BY <1>7, CappedProperty
  <2>2. Len(Capped(s, max)) \in Nat
    BY <2>1, LenProperties
  <2>3. Len(Capped(s, max)) <= n
    <3>1. CASE Len(Capped(s, max)) = 0
      BY <1>2, <3>1
    <3>2. CASE Len(Capped(s, max)) # 0
      BY <1>7, <2>1, <2>2, <3>2
    <3>3. QED
      BY <3>1, <3>2
  <2>4. QED
    BY <1>7, <2>1, <2>3
<1>9. ASSUME N <= max, NEW r \in Resources, provider.held[r].rgen >= since
      PROVE  \E i \in 1 .. Len(Capped(s, max)) : Capped(s, max)[i] = Record(r)
  <2>1. PICK a \in 1 .. N : Population[a] = r
    BY <1>1 DEF Resources, Range
  <2>2. a \in H
    BY <1>1, <1>9, <2>1 DEF H
  <2>3. PICK i \in 1 .. n : InOrder(H)[i] = a
    BY <1>2, <2>2
  <2>4. s[i] = Record(r)
    BY <1>4, <2>1, <2>3
  <2>5. Len(Capped(s, max)) = n
    <3>1. max \in Nat /\ n <= max
      BY <1>1, <1>2, <1>6, <1>9
    <3>2. QED
      BY <1>8, <3>1
  <2>6. QED
    BY <1>8, <2>3, <2>4, <2>5
<1>10. Len(Capped(s, max)) <= N
  <2>1. Len(Capped(s, max)) \in Nat
    BY <1>8, LenProperties
  <2>2. QED
    BY <1>1, <1>2, <1>6, <1>8, <2>1
<1>11. QED
  BY <1>5, <1>8, <1>9, <1>10 DEF N

\* A response to a draft.
LEMMA ResponseProperty ==
  ASSUME ShapeInv, NEW draft \in Drafts, NEW max \in Nat
  PROVE  /\ Response(draft, Fetched(draft.since, max)) \in Responses
         /\ Response(draft, Fetched(draft.since, max)).boot = draft.boot
         /\ Response(draft, Fetched(draft.since, max)).generation = draft.generation
<1> DEFINE f == Fetched(draft.since, max)
           T == {Record(r) : r \in Resources}
<1>1. draft.since \in Nat /\ draft.epoch \in Nat /\ draft.boot \in Nat /\ draft.generation \in Nat
  BY DEF Drafts
<1>2. f \in Seq(TrueRecords)
  <2>1. f \in Seq(T)
    BY <1>1, FetchedProperty
  <2>2. T \subseteq TrueRecords
    BY RecordProperty
  <2> HIDE DEF f, T
  <2>3. QED
    BY <2>1, <2>2, SeqMonotonic
<1> HIDE DEF f
<1>3. Capped(f, Limit) \in Seq(TrueRecords)
  BY <1>2, CappedProperty, EvidenceAssumption
<1>4. QED
  BY <1>1, <1>3 DEF Response, Responses, f

LEMMA AskRecordsStep ==
  ASSUME ExchangeInv, AskRecords
  PROVE  ExchangeInv'
<1>1. PICK c \in Clients : server.peer = c
  BY DEF ExchangeInv, QueueInv, AskRecords, Serving
<1> DEFINE reply == server.reply
           max == IF reply.max < Limit THEN reply.max ELSE Limit
           w == Response(reply, Fetched(reply.since, max))
<1>2. /\ ShapeInv /\ Conn(c) /\ Replying(c) /\ ReplyOK(c) /\ server.at = "fetch"
      /\ UNCHANGED <<provider, stopping, backlog, option, client, network, dropped>>
  BY <1>1 DEF AskRecords, Replying, ExchangeInv, Conn
<1>3. server' = [at |-> "send", peer |-> c, buffer |-> server.buffer, reply |-> w]
  BY <1>1, <1>2 DEF AskRecords, ShapeInv
<1>4. /\ reply \in Drafts /\ client[c].at # "ack"
      /\ client[c].at = "response" /\ reply.boot = client[c].ack.boot =>
           reply.generation >= client[c].ack.generation
  BY <1>2 DEF ReplyOK
<1>5. max \in Nat
  BY <1>4, EvidenceAssumption DEF Drafts
<1> HIDE DEF max
<1>6. w \in Responses /\ w.boot = reply.boot /\ w.generation = reply.generation
  BY <1>2, <1>4, <1>5, ResponseProperty
<1> HIDE DEF w, reply
<1>7. ReplyOK(c)'
  <2>1. server'.at = "send" /\ server'.reply = w /\ client' = client
    BY <1>2, <1>3
  <2>2. client[c].at = "response" => w \in Incoming(c)'
    BY <1>4, <1>6, <2>1 DEF Incoming, Newer
  <2>3. QED
    BY <1>4, <1>6, <2>1, <2>2 DEF ReplyOK
<1>8. QED
  BY <1>1, <1>2, <1>3, <1>7, AskProperty

\* What reaches the server is one of three messages.
LEMMA OutgoingProperty ==
  ASSUME NEW c, NEW m \in Outgoing(c)
  PROVE  /\ m = Hello(option[c]) \/ m = Request(option[c]) \/ m = Bye
         /\ client[c].at = "ack" => m = Hello(option[c])
         /\ client[c].at = "response" => m = Request(option[c])
BY DEF Outgoing

\* The server takes some of what has come: a frame is not whole yet, or its
\* message decides how the connection goes on, and nothing else is on its way.
LEMMA ServerReceivesStep ==
  ASSUME ExchangeInv, ServerReceives
  PROVE  ExchangeInv'
<1>1. PICK c \in Clients : server.peer = c
  BY DEF ExchangeInv, QueueInv, ServerReceives, Serving
<1>2. /\ ShapeInv /\ QueueInv /\ Conn(c) /\ server.at = "serve" /\ Serving /\ ~ Replying(c) /\ dropped = 0
      /\ UNCHANGED <<provider, stopping, backlog, option, client, toClient>>
      /\ Held(c) = server.buffer
  BY <1>1 DEF ExchangeInv, ServerReceives, Serving, Replying, Held
<1>3. PICK n \in 1 .. Len(toServer[c]) :
        LET bytes == Bytes(server.buffer, toServer[c], n)
            message == First(bytes)
            Prepares(at, reply) ==
              /\ server' = [server EXCEPT !.buffer = Rest(bytes), !.at = at, !.reply = reply]
              /\ toServer' = [toServer EXCEPT ![c] = SubSeq(@, n + 1, Len(@))]
              /\ ends' = ends
        IN  /\ dropped' = dropped + Overlooked(bytes)
            /\ IF Completed(bytes) = {} THEN Prepares("serve", Unread)
               ELSE IF message.kind = "hello"
                 THEN IF message.native
                        THEN Prepares("epoch", Ack)
                        ELSE Prepares("refuse", Failure)
               ELSE IF message.kind = "request"
                 THEN Prepares("epoch", Answer(message))
                 ELSE Leaves("loop")
  BY <1>1 DEF ServerReceives
<1> DEFINE bytes == Bytes(server.buffer, toServer[c], n)
           rest == SubSeq(toServer[c], n + 1, Len(toServer[c]))
           message == First(bytes)
<1>4. /\ Rest(bytes) \in Stream(Outgoing(c)) /\ rest \in Stream(Outgoing(c))
      /\ Len(Rest(bytes)) <= 1 /\ Overlooked(bytes) = 0
      /\ Completed(bytes) = {} => Rest(bytes) \o rest = OnWay(c)
      /\ Completed(bytes) # {} => message \in Outgoing(c) /\ Rest(bytes) = <<>> /\ rest = <<>>
  <2>1. /\ server.buffer \in Stream(Outgoing(c)) /\ toServer[c] \in Stream(Outgoing(c))
        /\ Len(server.buffer) <= 1 /\ OneFrame(server.buffer \o toServer[c])
    BY <1>2 DEF Conn, StreamOK, QueueInv, OnWay
  <2>2. Receives(Outgoing(c), server.buffer, toServer[c], n)
    BY <2>1, ReceiveProperty
  <2>3. OnWay(c) = server.buffer \o toServer[c]
    BY <1>2 DEF OnWay
  <2>4. QED
    BY <2>2, <2>3 DEF Receives
<1>5. OnWay(c) # <<>> /\ Coming(c) = <<>>
      /\ client[c].at \notin {"idle", "hello", "request", "bye"}
  <2>1. toServer[c] # <<>>
    <3>1. Len(<<>>) = 0 /\ n \in 1 .. Len(toServer[c])
      OBVIOUS
    <3>2. QED
      BY <3>1
  <2>2. QED
    BY <1>2, <2>1, QuietProperty DEF Conn, TurnOK
<1>6. dropped' = 0
  BY <1>2, <1>3, <1>4
<1>7. ASSUME NEW a \in {"serve", "epoch", "refuse"}, NEW w,
             server' = [server EXCEPT !.buffer = Rest(bytes), !.at = a, !.reply = w],
             toServer' = [toServer EXCEPT ![c] = rest], ends' = ends
      PROVE  /\ server' = [at |-> a, peer |-> c, buffer |-> Rest(bytes), reply |-> w]
             /\ toServer'[c] = rest /\ Held(c)' = Rest(bytes)
             /\ ShapeInv' /\ QueueInv' /\ \A d \in Clients \ {c} : Conn(d)'
  <2> DEFINE v == [at |-> a, peer |-> c, buffer |-> Rest(bytes), reply |-> w]
  <2>1. server' = v
    <3>1. server = [at |-> server.at, peer |-> c, buffer |-> server.buffer, reply |-> server.reply]
      BY <1>1, <1>2 DEF ShapeInv
    <3> DEFINE l1 == [server EXCEPT !.buffer = Rest(bytes)]
               l2 == [l1 EXCEPT !.at = a]
    <3>2. l1 = [at |-> server.at, peer |-> c, buffer |-> Rest(bytes), reply |-> server.reply]
      <4> HIDE DEF bytes
      <4>1. QED
        BY <3>1
    <3>3. server' = [l2 EXCEPT !.reply = w]
      BY <1>7
    <3> HIDE DEF l1, bytes
    <3>4. l2 = [at |-> a, peer |-> c, buffer |-> Rest(bytes), reply |-> server.reply]
      BY <3>2
    <3> HIDE DEF l2
    <3>5. QED
      BY <3>3, <3>4
  <2>2. v.at = a /\ v.peer = c /\ v.buffer = Rest(bytes) /\ v.reply = w
    OBVIOUS
  <2>3. /\ DOMAIN toServer' = Clients /\ DOMAIN toClient' = Clients
        /\ toServer'[c] = rest
        /\ \A d \in Clients \ {c} : toServer'[d] = toServer[d] /\ toClient'[d] = toClient[d]
    BY <1>2, <1>7 DEF ShapeInv
  <2>4. v = [at |-> v.at, peer |-> c, buffer |-> v.buffer, reply |-> v.reply]
    OBVIOUS
  <2> HIDE DEF v, bytes, rest
  <2>5. Held(c)' = Rest(bytes)
    BY <2>1, <2>2 DEF Held
  <2>6. ShapeInv' /\ QueueInv' /\ \A d \in Clients \ {c} : Conn(d)'
    <3>1. /\ Len(v.buffer) <= 1
          /\ v.at \in {"serve", "epoch", "generation", "fetch", "send", "sending", "refuse"}
          /\ UNCHANGED <<provider, stopping, backlog, option, client, ends>>
      BY <1>2, <1>4, <1>7, <2>2
    <3>2. QED
      BY <1>1, <2>1, <2>3, <2>4, <3>1, ServesOn
  <2>7. QED
    BY <2>1, <2>3, <2>5, <2>6 DEF v
<1>8. CASE Completed(bytes) = {}
  <2>1. /\ server' = [server EXCEPT !.buffer = Rest(bytes), !.at = "serve", !.reply = Unread]
        /\ toServer' = [toServer EXCEPT ![c] = rest] /\ ends' = ends
    BY <1>3, <1>8
  <2>2. /\ server' = [at |-> "serve", peer |-> c, buffer |-> Rest(bytes), reply |-> Unread]
        /\ toServer'[c] = rest /\ Held(c)' = Rest(bytes)
        /\ ShapeInv' /\ QueueInv' /\ \A d \in Clients \ {c} : Conn(d)'
    BY <1>7, <2>1
  <2>3. Conn(c)'
    <3>1. OnWay(c)' = OnWay(c) /\ ~ Replying(c)' /\ Given' = Given
      BY <1>2, <1>4, <1>8, <2>2 DEF OnWay, Replying, Given
    <3>2. /\ Outgoing(c)' = Outgoing(c) /\ Incoming(c)' = Incoming(c) /\ Coming(c)' = Coming(c)
      BY <1>2, <3>1 DEF Outgoing, Incoming, Newer, Coming
    <3>3. StreamOK(c)'
      <4>1. Held(c)' \in Stream(Outgoing(c)') /\ toServer'[c] \in Stream(Outgoing(c)')
        BY <1>4, <2>2, <3>2
      <4>2. /\ client'[c].buffer \in Stream(Incoming(c)') /\ toClient'[c] \in Stream(Incoming(c)')
            /\ OneFrame(OnWay(c)') /\ OneFrame(Coming(c)')
        BY <1>2, <3>1, <3>2 DEF Conn, StreamOK
      <4>3. QED
        BY <4>1, <4>2 DEF StreamOK
    <3>4. TurnOK(c)'
      BY <1>2, <2>1, <3>1, <3>2 DEF Conn, TurnOK
    <3>5. LearntOK(c)'
      BY <1>2, <3>1 DEF Conn, LearntOK
    <3>6. QED
      BY <3>1, <3>3, <3>4, <3>5 DEF Conn
  <2>4. QED
    BY <1>6, <2>2, <2>3 DEF ExchangeInv
<1>9. ASSUME Completed(bytes) # {}, NEW a \in {"epoch", "refuse"}, NEW w,
             server' = [server EXCEPT !.buffer = Rest(bytes), !.at = a, !.reply = w],
             toServer' = [toServer EXCEPT ![c] = rest], ends' = ends,
             a = "epoch" => /\ w \in Acks \cup Drafts
                            /\ client[c].at = "ack" => w \in Acks
                            /\ client[c].at = "response" => w \in Drafts,
             a = "refuse" => w = Failure /\ client[c].at # "response"
      PROVE  ExchangeInv'
  <2>1. /\ server' = [at |-> a, peer |-> c, buffer |-> <<>>, reply |-> w]
        /\ toServer'[c] = <<>> /\ Held(c)' = <<>>
        /\ ShapeInv' /\ QueueInv' /\ \A d \in Clients \ {c} : Conn(d)'
    BY <1>4, <1>7, <1>9
  <2>2. ReplyOK(c)'
    <3>1. server'.at = a /\ server'.reply = w /\ client' = client
      BY <1>2, <2>1
    <3>2. a = "refuse" /\ client[c].at = "ack" => w \in Incoming(c)'
      BY <1>9, <3>1 DEF Incoming
    <3>3. QED
      BY <1>9, <3>1, <3>2 DEF ReplyOK
  <2>3. Conn(c)'
    BY <1>1, <1>2, <1>5, <1>9, <2>1, <2>2, AnswersProperty
  <2>4. QED
    BY <1>6, <2>1, <2>3 DEF ExchangeInv
<1>10. ASSUME Completed(bytes) # {}
       PROVE  /\ message = Hello(option[c]) \/ message = Request(option[c]) \/ message = Bye
              /\ client[c].at = "ack" => message = Hello(option[c])
              /\ client[c].at = "response" => message = Request(option[c])
  BY <1>4, <1>10, OutgoingProperty
<1>11. CASE Completed(bytes) # {} /\ message.kind = "hello" /\ message.native
  <2>1. client[c].at # "response"
    BY <1>10, <1>11 DEF Request
  <2>2. Ack \in Acks
    BY DEF Ack, Acks
  <2>3. /\ server' = [server EXCEPT !.buffer = Rest(bytes), !.at = "epoch", !.reply = Ack]
        /\ toServer' = [toServer EXCEPT ![c] = rest] /\ ends' = ends
    BY <1>3, <1>11
  <2>4. QED
    BY <1>9, <1>11, <2>1, <2>2, <2>3
<1>12. CASE Completed(bytes) # {} /\ message.kind = "hello" /\ ~ message.native
  <2>1. client[c].at # "response"
    BY <1>10, <1>12 DEF Request
  <2>2. /\ server' = [server EXCEPT !.buffer = Rest(bytes), !.at = "refuse", !.reply = Failure]
        /\ toServer' = [toServer EXCEPT ![c] = rest] /\ ends' = ends
    BY <1>3, <1>12
  <2>3. QED
    BY <1>9, <1>12, <2>1, <2>2
<1>13. CASE Completed(bytes) # {} /\ message.kind # "hello" /\ message.kind = "request"
  <2>1. message = Request(option[c])
    BY <1>10, <1>13 DEF Hello, Bye
  <2>2. Answer(message) \in Drafts
    <3>1. option[c].since \in Nat /\ option[c].max \in Nat
      BY <1>2, EvidenceAssumption DEF ShapeInv
    <3>2. message.since = option[c].since /\ message.max = option[c].max
      BY <2>1 DEF Request
    <3>3. QED
      BY <3>1, <3>2 DEF Answer, Drafts
  <2>3. client[c].at # "ack"
    BY <1>10, <1>13 DEF Hello
  <2>4. /\ server' = [server EXCEPT !.buffer = Rest(bytes), !.at = "epoch", !.reply = Answer(message)]
        /\ toServer' = [toServer EXCEPT ![c] = rest] /\ ends' = ends
    BY <1>3, <1>13
  <2>5. QED
    BY <1>9, <1>13, <2>2, <2>3, <2>4
<1>14. CASE Completed(bytes) # {} /\ message.kind # "hello" /\ message.kind # "request"
  <2>1. Leaves("loop")
    BY <1>3, <1>14
  <2>2. QED
    BY <1>2, <1>6, <2>1, LeavesSilently
<1>15. QED
  BY <1>8, <1>11, <1>12, <1>13, <1>14

\* A connection on which the server has spoken.
LEMMA SpokenProperty ==
  ASSUME ExchangeInv, NEW c \in Clients, server.peer = c, Replying(c),
         server.at \in {"send", "refuse"},
         toClient' = Replied(c, server.reply) \/ toClient' = toClient,
         UNCHANGED <<provider, option, client>>,
         Held(c)' = <<>>, toServer'[c] = <<>>, ~ Replying(c)',
         "client" \in ends'[c] => "client" \in ends[c]
  PROVE  Conn(c)'
<1>1. /\ ShapeInv /\ Conn(c) /\ ReplyOK(c)
      /\ OnWay(c) = <<>> /\ Coming(c) = <<>>
      /\ client[c].at \notin {"idle", "hello", "request", "bye"}
  BY DEF ExchangeInv, Conn, TurnOK
<1>2. client[c].buffer = <<>> /\ toClient[c] = <<>>
  BY <1>1, QuietProperty DEF Conn
<1>3. OnWay(c)' = <<>> /\ Given' = Given
  BY EmptyProperty DEF OnWay, Given
<1>4. Outgoing(c)' = Outgoing(c) /\ Incoming(c)' = Incoming(c)
  BY <1>3 DEF Outgoing, Incoming, Newer
<1>5. /\ toClient'[c] = <<>> \/ (toClient'[c] = Frame(server.reply) /\ "client" \in ends[c])
  <2>1. toClient' = toClient \/ ("client" \in ends[c]
                                 /\ toClient' = [toClient EXCEPT ![c] = @ \o Frame(server.reply)])
    BY DEF Replied
  <2>2. DOMAIN toClient = Clients
    BY <1>1 DEF ShapeInv
  <2>3. <<>> \o Frame(server.reply) = Frame(server.reply)
    <3>1. Frame(server.reply) \in Stream({server.reply})
      BY FrameProperty
    <3>2. QED
      BY <3>1, ConcatEmptySeq DEF Stream
  <2>4. QED
    BY <1>2, <2>1, <2>2, <2>3
<1>6. CASE toClient'[c] = <<>>
  <2>1. Coming(c)' = <<>> /\ client'[c].buffer = <<>>
    BY <1>2, <1>6, EmptyProperty DEF Coming
  <2>2. StreamOK(c)'
    BY <1>3, <1>6, <2>1, EmptyProperty DEF StreamOK
  <2>3. TurnOK(c)'
    BY <1>1, <1>3, <2>1 DEF Conn, TurnOK
  <2>4. LearntOK(c)'
    BY <1>1, <1>3 DEF Conn, LearntOK
  <2>5. QED
    BY <2>2, <2>3, <2>4 DEF Conn
<1>7. CASE toClient'[c] = Frame(server.reply) /\ "client" \in ends[c]
  <2>1. client[c].at \in {"ack", "response"}
    <3>1. client[c].at \in ClientPlaces /\ client[c].at \notin {"failed", "ok"}
      BY <1>1, <1>7 DEF ShapeInv, Conn, TurnOK
    <3>2. QED
      BY <1>1, <3>1 DEF ClientPlaces
  <2>2. server.reply \in Incoming(c)
    BY <1>1, <2>1 DEF ReplyOK
  <2>3. /\ Frame(server.reply) \in Stream(Incoming(c)) /\ OneFrame(Frame(server.reply))
        /\ Coming(c)' = Frame(server.reply) /\ client'[c].buffer = <<>>
    <3>1. Frame(server.reply) \in Stream(Incoming(c)) /\ OneFrame(Frame(server.reply))
      BY <2>2, FrameProperty
    <3>2. <<>> \o Frame(server.reply) = Frame(server.reply)
      BY <3>1, ConcatEmptySeq DEF Stream
    <3>3. QED
      BY <1>2, <1>7, <3>1, <3>2 DEF Coming
  <2>4. StreamOK(c)'
    BY <1>3, <1>4, <1>7, <2>3, EmptyProperty DEF StreamOK
  <2>5. TurnOK(c)'
    BY <1>1, <1>3, <2>1 DEF Conn, TurnOK
  <2>6. LearntOK(c)'
    BY <1>1, <1>3 DEF Conn, LearntOK
  <2>7. QED
    BY <2>4, <2>5, <2>6 DEF Conn
<1>8. QED
  BY <1>5, <1>6, <1>7

LEMMA RepliedProperty ==
  ASSUME ShapeInv, NEW c \in Clients, NEW reply,
         toClient' = Replied(c, reply) \/ toClient' = toClient
  PROVE  DOMAIN toClient' = Clients /\ \A d \in Clients \ {c} : toClient'[d] = toClient[d]
BY DEF ShapeInv, Replied

LEMMA SendReplyStep ==
  ASSUME ExchangeInv, SendReply
  PROVE  ExchangeInv'
<1>1. PICK c \in Clients : server.peer = c
  BY DEF ExchangeInv, QueueInv, SendReply, Serving
<1>2. /\ ShapeInv /\ QueueInv /\ Conn(c) /\ Replying(c) /\ server.at = "send" /\ Serving
      /\ UNCHANGED <<provider, stopping, backlog, option, client>> /\ dropped' = 0
  BY <1>1 DEF SendReply, Replying, ExchangeInv, Serving
<1>3. CASE /\ toClient' = Replied(server.peer, server.reply)
           /\ UNCHANGED <<ends, toServer>>
           /\ \/ server' = [server EXCEPT !.at = "sending"]
              \/ server' = [server EXCEPT !.at = "serve", !.reply = Unread]
  <2>1. PICK v : /\ server' = v
                 /\ v = [at |-> v.at, peer |-> c, buffer |-> v.buffer, reply |-> v.reply]
                 /\ v.at \in {"serve", "sending"} /\ v.buffer = server.buffer
    <3>1. server = [at |-> "send", peer |-> c, buffer |-> server.buffer, reply |-> server.reply]
      BY <1>1, <1>2 DEF ShapeInv
    <3>2. CASE server' = [server EXCEPT !.at = "sending"]
      BY <3>1, <3>2
    <3>3. CASE server' = [server EXCEPT !.at = "serve", !.reply = Unread]
      <4>1. server' = [at |-> "serve", peer |-> c, buffer |-> server.buffer, reply |-> Unread]
        BY <1>1, <1>2, <3>3 DEF ShapeInv
      <4>2. QED
        BY <4>1
    <3>4. QED
      BY <1>3, <3>2, <3>3
  <2>2. v.peer = c
    BY <2>1
  <2>3. DOMAIN toClient' = Clients /\ \A d \in Clients \ {c} : toClient'[d] = toClient[d]
    BY <1>1, <1>2, <1>3, RepliedProperty
  <2>4. ShapeInv' /\ QueueInv' /\ \A d \in Clients \ {c} : Conn(d)'
    <3>1. /\ Len(v.buffer) <= 1
          /\ v.at \in {"serve", "epoch", "generation", "fetch", "send", "sending", "refuse"}
          /\ UNCHANGED <<provider, stopping, backlog, option, client, ends>>
      BY <1>2, <1>3, <2>1 DEF QueueInv
    <3>2. DOMAIN toServer' = Clients /\ \A d \in Clients \ {c} : toServer'[d] = toServer[d]
      BY <1>2, <1>3 DEF ShapeInv
    <3>3. QED
      BY <1>1, <2>1, <2>2, <2>3, <3>1, <3>2, ServesOn
  <2>5. Held(c) = <<>> /\ toServer[c] = <<>>
    BY <1>2, QuietProperty DEF Conn, TurnOK
  <2>6. Held(c)' = <<>> /\ toServer'[c] = <<>> /\ ~ Replying(c)'
    BY <1>1, <1>3, <2>1, <2>2, <2>5 DEF Held, Replying
  <2>7. Conn(c)'
    <3>1. toClient' = Replied(c, server.reply) /\ ends' = ends /\ server.at \in {"send", "refuse"}
      BY <1>1, <1>2, <1>3
    <3>2. QED
      BY <1>1, <1>2, <2>6, <3>1, SpokenProperty
  <2>8. QED
    BY <1>2, <2>4, <2>7 DEF ExchangeInv
<1>4. CASE Leaves("failed") /\ UNCHANGED toClient
  BY <1>2, <1>4, LeavesSilently
<1>5. QED
  BY <1>3, <1>4 DEF SendReply, Served

\* What the server waited to send has been read, or is in vain.
LEMMA ReplySentStep ==
  ASSUME ExchangeInv, ReplySent
  PROVE  ExchangeInv'
<1>1. PICK c \in Clients : server.peer = c
  BY DEF ExchangeInv, QueueInv, ReplySent, Serving
<1>2. /\ ShapeInv /\ QueueInv /\ Conn(c) /\ server.at = "sending" /\ Serving
      /\ UNCHANGED <<provider, stopping, backlog, option, client, toClient>> /\ dropped' = 0
  BY <1>1 DEF ReplySent, ExchangeInv, Serving
<1>3. CASE server' = [server EXCEPT !.at = "serve", !.reply = Unread] /\ UNCHANGED <<ends, toServer>>
  <2> DEFINE v == [at |-> "serve", peer |-> c, buffer |-> server.buffer, reply |-> Unread]
  <2>1. server' = v
    BY <1>1, <1>2, <1>3 DEF ShapeInv
  <2>2. /\ v = [at |-> v.at, peer |-> c, buffer |-> v.buffer, reply |-> v.reply]
        /\ v.at = "serve" /\ v.buffer = server.buffer /\ v.peer = c
    OBVIOUS
  <2> HIDE DEF v
  <2>3. /\ DOMAIN toServer' = Clients /\ DOMAIN toClient' = Clients
        /\ \A d \in Clients \ {c} : toServer'[d] = toServer[d] /\ toClient'[d] = toClient[d]
    BY <1>2, <1>3 DEF ShapeInv
  <2>4. ShapeInv' /\ QueueInv' /\ \A d \in Clients \ {c} : Conn(d)'
    <3>1. /\ Len(v.buffer) <= 1
          /\ v.at \in {"serve", "epoch", "generation", "fetch", "send", "sending", "refuse"}
          /\ UNCHANGED <<provider, stopping, backlog, option, client, ends>>
      BY <1>2, <1>3, <2>2 DEF QueueInv
    <3>2. QED
      BY <1>1, <2>1, <2>2, <2>3, <3>1, ServesOn
  <2>5. Held(c)' = Held(c) /\ ~ Replying(c)' /\ Given' = Given
    BY <1>1, <1>2, <2>1, <2>2 DEF Held, Replying, Given
  <2>6. Conn(c)'
    BY <1>2, <1>3, <2>5, ClientStays
  <2>7. QED
    BY <1>2, <2>4, <2>6 DEF ExchangeInv
<1>4. CASE Leaves("failed") \/ Leaves("killed")
  BY <1>2, <1>4, LeavesSilently
<1>5. QED
  BY <1>3, <1>4 DEF ReplySent, Served

LEMMA RefuseStep ==
  ASSUME ExchangeInv, Refuse
  PROVE  ExchangeInv'
<1>1. PICK c \in Clients : server.peer = c
  BY DEF ExchangeInv, QueueInv, Refuse, Serving
<1>2. /\ ShapeInv /\ Replying(c) /\ server.at = "refuse" /\ Leaves("loop")
      /\ UNCHANGED <<provider, stopping, backlog, option, client>> /\ dropped' = 0
      /\ toClient' = Replied(c, server.reply) \/ toClient' = toClient
  BY <1>1 DEF Refuse, Replying, ExchangeInv
<1>3. DOMAIN toClient' = Clients /\ \A d \in Clients \ {c} : toClient'[d] = toClient[d]
  BY <1>2, RepliedProperty
<1>4. /\ ShapeInv' /\ QueueInv'
      /\ Held(c)' = <<>> /\ toServer'[c] = <<>> /\ ~ Replying(c)'
      /\ ends'[c] = ends[c] \ {"server"}
      /\ \A d \in Clients \ {c} : Conn(d)'
  BY <1>1, <1>2, <1>3, LeavesProperty
<1>5. Conn(c)'
  <2>1. server.at \in {"send", "refuse"} /\ ("client" \in ends'[c] => "client" \in ends[c])
    BY <1>2, <1>4
  <2>2. QED
    BY <1>1, <1>2, <1>4, <2>1, SpokenProperty
<1>6. QED
  BY <1>2, <1>4, <1>5 DEF ExchangeInv

LEMMA ServeStep ==
  ASSUME ExchangeInv, Serve
  PROVE  ExchangeInv'
BY LooksAtStopStep, AcceptStep, AcceptFailsStep, ServerReceivesStep, AskEpochStep,
   AskGenerationStep, AskRecordsStep, SendReplyStep, ReplySentStep, RefuseStep, ServerGivesUpStep
   DEF Serve

-----------------------------------------------------------------------------
(* What happens to them *)

\* The provider moves on: what it gave stays given.
LEMMA ProviderProperty ==
  ASSUME ExchangeInv,
         provider' \in [epoch : 1 .. Largest, boot : 1 .. Largest, generation : 1 .. Largest,
                        held : [Resources -> [rgen : Nat, egen : Nat]]],
         \A r \in Resources : provider'.held[r].egen \in 1 .. provider'.generation,
         provider'.boot = provider.boot, provider'.generation >= provider.generation,
         UNCHANGED <<server, stopping, backlog, option, client, network, dropped>>
  PROVE  ExchangeInv'
<1>1. /\ ShapeInv /\ QueueInv /\ dropped' = 0
      /\ toServer' = toServer /\ toClient' = toClient /\ ends' = ends
  BY DEF ExchangeInv, network
<1>2. ShapeInv'
  BY <1>1 DEF ShapeInv
<1>3. QueueInv'
  BY <1>1 DEF QueueInv, Serving
<1>4. Given \subseteq Given'
  <2>1. provider.boot \in Nat /\ provider.generation \in Nat /\ provider'.generation \in Nat
    BY <1>1, EvidenceAssumption DEF ShapeInv
  <2>2. QED
    BY <2>1, GivenGrows
<1>5. ASSUME NEW c \in Clients PROVE Conn(c)'
  <2>1. Held(c)' = Held(c) /\ Replying(c)' = Replying(c)
    BY DEF Held, Replying
  <2>2. QED
    BY <1>1, <1>4, <2>1, ClientStays DEF ExchangeInv
<1>6. QED
  BY <1>1, <1>2, <1>3, <1>5 DEF ExchangeInv

LEMMA ObserveStep ==
  ASSUME ExchangeInv, Observe
  PROVE  ExchangeInv'
<1>1. PICK r \in Resources, renewed \in {0, 1} :
        provider' = [provider EXCEPT
            !.generation = @ + 1,
            !.held[r] = [rgen |-> @.rgen + renewed, egen |-> provider.generation + 1]]
  BY DEF Observe
<1>2. ShapeInv /\ provider.generation < Largest
  BY DEF ExchangeInv, Observe
<1> DEFINE h == [provider.held EXCEPT ![r] = [rgen |-> @.rgen + renewed, egen |-> provider.generation + 1]]
<1>3. /\ provider = [epoch |-> provider.epoch, boot |-> provider.boot,
                     generation |-> provider.generation, held |-> provider.held]
      /\ provider.epoch \in 1 .. Largest /\ provider.boot \in 1 .. Largest
      /\ provider.generation \in 1 .. Largest
      /\ provider.held \in [Resources -> [rgen : Nat, egen : Nat]]
      /\ provider.generation + 1 \in 1 .. Largest /\ provider.generation + 1 \in Nat
  BY <1>2, EvidenceAssumption DEF ShapeInv
<1>4. provider' = [epoch |-> provider.epoch, boot |-> provider.boot,
                   generation |-> provider.generation + 1, held |-> h]
  BY <1>1, <1>3
<1>5. /\ h \in [Resources -> [rgen : Nat, egen : Nat]]
      /\ \A x \in Resources : h[x].egen \in 1 .. provider.generation + 1
  <2>1. h[r].egen = provider.generation + 1 /\ \A x \in Resources \ {r} : h[x] = provider.held[x]
    BY <1>3
  <2>2. h \in [Resources -> [rgen : Nat, egen : Nat]]
    <3>1. provider.held[r].rgen + renewed \in Nat
      BY <1>3
    <3>2. QED
      BY <1>3, <3>1
  <2>3. \A x \in Resources : provider.held[x].egen \in 1 .. provider.generation
    BY <1>2 DEF ShapeInv
  <2> HIDE DEF h
  <2>4. QED
    BY <1>3, <2>1, <2>2, <2>3
<1> HIDE DEF h
<1>6. /\ provider' \in [epoch : 1 .. Largest, boot : 1 .. Largest, generation : 1 .. Largest,
                        held : [Resources -> [rgen : Nat, egen : Nat]]]
      /\ \A x \in Resources : provider'.held[x].egen \in 1 .. provider'.generation
      /\ provider'.boot = provider.boot /\ provider'.generation >= provider.generation
  <2>1. /\ provider'.epoch = provider.epoch /\ provider'.boot = provider.boot /\ provider'.held = h
        /\ provider'.generation = provider.generation + 1
    BY <1>4
  <2>2. provider.generation + 1 >= provider.generation
    BY <1>3
  <2>3. QED
    BY <1>3, <1>4, <1>5, <2>1, <2>2
<1>7. UNCHANGED <<server, stopping, backlog, option, client, network, dropped>>
  BY DEF Observe
<1>8. QED
  BY <1>6, <1>7, ProviderProperty

LEMMA AdvanceEpochStep ==
  ASSUME ExchangeInv, AdvanceEpoch
  PROVE  ExchangeInv'
<1>1. /\ ShapeInv /\ provider.epoch < Largest
      /\ provider' = [provider EXCEPT !.epoch = @ + 1]
  BY DEF ExchangeInv, AdvanceEpoch
<1>2. /\ provider = [epoch |-> provider.epoch, boot |-> provider.boot,
                     generation |-> provider.generation, held |-> provider.held]
      /\ provider.epoch + 1 \in 1 .. Largest /\ provider.boot \in 1 .. Largest
      /\ provider.generation \in 1 .. Largest
      /\ provider.held \in [Resources -> [rgen : Nat, egen : Nat]]
      /\ \A r \in Resources : provider.held[r].egen \in 1 .. provider.generation
  BY <1>1, EvidenceAssumption DEF ShapeInv
<1>3. provider' = [epoch |-> provider.epoch + 1, boot |-> provider.boot,
                   generation |-> provider.generation, held |-> provider.held]
  BY <1>1, <1>2
<1>4. /\ provider' \in [epoch : 1 .. Largest, boot : 1 .. Largest, generation : 1 .. Largest,
                        held : [Resources -> [rgen : Nat, egen : Nat]]]
      /\ \A x \in Resources : provider'.held[x].egen \in 1 .. provider'.generation
      /\ provider'.boot = provider.boot /\ provider'.generation >= provider.generation
  <2>1. /\ provider'.held = provider.held /\ provider'.boot = provider.boot
        /\ provider'.generation = provider.generation /\ provider.generation \in Nat
    BY <1>2, <1>3, EvidenceAssumption
  <2>2. QED
    BY <1>2, <1>3, <2>1
<1>5. UNCHANGED <<server, stopping, backlog, option, client, network, dropped>>
  BY DEF AdvanceEpoch
<1>6. QED
  BY <1>4, <1>5, ProviderProperty

LEMMA StopStep ==
  ASSUME ExchangeInv, Stop
  PROVE  ExchangeInv'
<1>1. /\ ShapeInv /\ QueueInv /\ dropped' = 0 /\ stopping' = TRUE
      /\ UNCHANGED <<provider, server, backlog, option, client, toServer, toClient, ends>>
  BY DEF ExchangeInv, Stop, network
<1>2. ShapeInv' /\ QueueInv'
  BY <1>1 DEF ShapeInv, QueueInv, Serving
<1>3. ASSUME NEW c \in Clients PROVE Conn(c)'
  <2>1. Held(c)' = Held(c) /\ Replying(c)' = Replying(c) /\ Given' = Given
    BY <1>1 DEF Held, Replying, Given
  <2>2. QED
    BY <1>1, <2>1, ClientStays DEF ExchangeInv
<1>4. QED
  BY <1>1, <1>2, <1>3 DEF ExchangeInv

LEMMA RestartStep ==
  ASSUME ExchangeInv, Restart
  PROVE  ExchangeInv'
<1>1. PICK epoch \in {provider.epoch, provider.epoch + 1}, generation \in 1 .. Largest :
        /\ epoch <= Largest
        /\ provider' = [epoch |-> epoch, boot |-> provider.boot + 1, generation |-> generation,
                        held |-> [r \in Resources |-> [rgen |-> provider.held[r].rgen,
                                                       egen |-> generation]]]
  BY DEF Restart
<1>2. /\ ShapeInv /\ QueueInv /\ dropped' = 0 /\ provider.boot < Largest
      /\ server' = [at |-> "loop", peer |-> Nobody, buffer |-> <<>>, reply |-> Unread]
      /\ stopping' = FALSE /\ backlog' = <<>>
      /\ ends' = [c \in Clients |-> ends[c] \ {"server"}]
      /\ toServer' = [c \in Clients |-> <<>>]
      /\ DOMAIN toClient' = Clients
      /\ \A c \in Clients :
           toClient'[c] = toClient[c] \/ (toClient'[c] = <<>> /\ Len(toClient[c]) > 1)
      /\ UNCHANGED <<option, client>>
  BY DEF ExchangeInv, Restart, Listening
<1>3. /\ provider' \in [epoch : 1 .. Largest, boot : 1 .. Largest, generation : 1 .. Largest,
                        held : [Resources -> [rgen : Nat, egen : Nat]]]
      /\ \A r \in Resources : provider'.held[r].egen \in 1 .. provider'.generation
      /\ provider'.boot = provider.boot + 1
  <2> DEFINE h == [r \in Resources |-> [rgen |-> provider.held[r].rgen, egen |-> generation]]
  <2>1. /\ provider.epoch \in 1 .. Largest /\ provider.boot \in 1 .. Largest /\ Largest \in Nat
        /\ \A r \in Resources : provider.held[r].rgen \in Nat
    BY <1>2, EvidenceAssumption DEF ShapeInv
  <2>2. /\ h \in [Resources -> [rgen : Nat, egen : Nat]]
        /\ \A r \in Resources : h[r].egen = generation
    BY <2>1
  <2>3. epoch \in 1 .. Largest /\ provider.boot + 1 \in 1 .. Largest
    BY <1>1, <1>2, <2>1
  <2>4. provider' = [epoch |-> epoch, boot |-> provider.boot + 1, generation |-> generation, held |-> h]
    BY <1>1
  <2>5. generation \in 1 .. generation
    BY <2>1
  <2> HIDE DEF h
  <2>6. QED
    BY <2>2, <2>3, <2>4, <2>5
<1>4. ShapeInv'
  <2>1. /\ server'.at = "loop" /\ "loop" \in ServerPlaces
        /\ server' = [at |-> server'.at, peer |-> server'.peer, buffer |-> server'.buffer,
                      reply |-> server'.reply]
    BY <1>2 DEF ServerPlaces
  <2>2. ends' \in [Clients -> SUBSET {"client", "server"}] /\ DOMAIN toServer' = Clients
    BY <1>2 DEF ShapeInv
  <2>3. QED
    BY <1>2, <1>3, <2>1, <2>2 DEF ShapeInv
<1>5. QueueInv'
  <2>1. ~ Serving' /\ server'.peer = Nobody /\ server'.buffer = <<>>
    BY <1>2 DEF Serving
  <2>2. backlog' \in Seq(Clients) /\ DOMAIN backlog' = {}
    BY <1>2, EmptySeq
  <2>3. QED
    BY <2>1, <2>2 DEF QueueInv
<1>6. Given \subseteq Given'
  <2>1. /\ provider.boot \in Nat /\ provider.generation \in Nat /\ provider'.generation \in Nat
        /\ provider'.boot \in Nat /\ provider'.boot > provider.boot
    BY <1>2, <1>3, EvidenceAssumption DEF ShapeInv
  <2>2. QED
    BY <2>1, GivenGrows
<1>7. ASSUME NEW c \in Clients PROVE Conn(c)'
  <2>1. /\ Held(c)' = <<>> /\ toServer'[c] = <<>> /\ ~ Replying(c)'
        /\ "client" \in ends'[c] => "client" \in ends[c]
    BY <1>2 DEF Held, Replying
  <2>2. ASSUME Len(toClient[c]) > 1 PROVE client[c].buffer = <<>>
    <3> DEFINE P == [message : Incoming(c), last : BOOLEAN]
               b == client[c].buffer
               s == toClient[c]
    <3>1. b \in Seq(P) /\ s \in Seq(P) /\ Len(b \o s) <= 2
      BY DEF ExchangeInv, Conn, StreamOK, OneFrame, Coming, Stream
    <3>2. Len(s) > 1
      BY <2>2
    <3> HIDE DEF P, b, s
    <3>3. Len(b \o s) = Len(b) + Len(s) /\ Len(b) \in Nat /\ Len(s) \in Nat
      BY <3>1, ConcatProperties, LenProperties
    <3>4. Len(b) = 0
      BY <3>1, <3>2, <3>3
    <3>5. b = <<>>
      BY <3>1, <3>4, EmptySeq
    <3>6. QED
      BY <3>5 DEF b
  <2>3. toClient'[c] = toClient[c] \/ (toClient'[c] = <<>> /\ client[c].buffer = <<>>)
    BY <1>2, <2>2
  <2>4. QED
    BY <1>2, <1>6, <2>1, <2>3, ClientStays DEF ExchangeInv
<1>8. QED
  BY <1>2, <1>4, <1>5, <1>7 DEF ExchangeInv

LEMMA ExchangeStep ==
  ASSUME ExchangeInv, [Next]_vars
  PROVE  ExchangeInv'
<1>1. CASE UNCHANGED vars
  <2>1. UNCHANGED <<provider, server, stopping, backlog, option, client, network, dropped>>
    BY <1>1 DEF vars, network
  <2>2. provider.generation \in Nat
    BY EvidenceAssumption DEF ExchangeInv, ShapeInv
  <2>3. provider' = provider /\ provider.generation >= provider.generation
    BY <2>1, <2>2
  <2>4. QED
    BY <2>1, <2>3, ProviderProperty DEF ExchangeInv, ShapeInv
<1>2. ASSUME NEW c \in Clients, Connect(c) \/ Fetch(c) \/ GreetsAgain(c) PROVE ExchangeInv'
  BY <1>2, ConnectStep, SendHelloStep, ClientReceivesStep, SendRequestStep, SendByeStep,
     ClientFailsStep, GreetsAgainStep DEF Fetch
<1>3. QED
  BY <1>1, <1>2, ObserveStep, AdvanceEpochStep, ServeStep, StopStep, RestartStep DEF Next

LEMMA ExchangeInit ==
  ASSUME Init
  PROVE  ExchangeInv
<1>1. /\ provider = [epoch |-> 1, boot |-> 1, generation |-> 1,
                     held |-> [r \in Resources |-> [rgen |-> 1, egen |-> 1]]]
      /\ server = [at |-> "loop", peer |-> Nobody, buffer |-> <<>>, reply |-> Unread]
      /\ stopping = FALSE /\ backlog = <<>> /\ dropped = 0
      /\ \A c \in Clients : option[c] \in Options(c)
      /\ client = [c \in Clients |-> Idle]
      /\ toServer = [c \in Clients |-> <<>>] /\ toClient = [c \in Clients |-> <<>>]
      /\ ends = [c \in Clients |-> {}]
  BY DEF Init, Listening
<1>2. ShapeInv
  <2>1. /\ provider \in [epoch : 1 .. Largest, boot : 1 .. Largest, generation : 1 .. Largest,
                         held : [Resources -> [rgen : Nat, egen : Nat]]]
        /\ \A r \in Resources : provider.held[r].egen \in 1 .. provider.generation
    <3> DEFINE h == [r \in Resources |-> [rgen |-> 1, egen |-> 1]]
    <3>1. h \in [Resources -> [rgen : Nat, egen : Nat]] /\ \A r \in Resources : h[r].egen = 1
      OBVIOUS
    <3>2. 1 \in 1 .. Largest /\ 1 \in 1 .. 1
      BY EvidenceAssumption
    <3>3. provider = [epoch |-> 1, boot |-> 1, generation |-> 1, held |-> h]
      BY <1>1
    <3> HIDE DEF h
    <3>4. QED
      BY <3>1, <3>2, <3>3
  <2>2. Len(<<>>) <= 1
    OBVIOUS
  <2>3. QED
    BY <1>1, <2>1, <2>2 DEF ShapeInv, ServerPlaces, ClientPlaces, Idle
<1>3. QueueInv
  <2>1. backlog \in Seq(Clients) /\ DOMAIN backlog = {}
    BY <1>1, EmptySeq
  <2>2. QED
    BY <1>1, <2>1 DEF QueueInv, Serving
<1>4. ASSUME NEW c \in Clients PROVE Conn(c)
  <2>1. /\ Held(c) = <<>> /\ toServer[c] = <<>> /\ ~ Replying(c)
        /\ client[c].at = "idle" /\ client[c].buffer = <<>> /\ toClient[c] = <<>> /\ ends[c] = {}
    BY <1>1 DEF Held, Replying, Idle
  <2>2. OnWay(c) = <<>> /\ Coming(c) = <<>>
    BY <2>1, EmptyProperty DEF OnWay, Coming
  <2>3. StreamOK(c)
    BY <2>1, <2>2, EmptyProperty DEF StreamOK
  <2>4. TurnOK(c) /\ LearntOK(c)
    BY <2>1, <2>2 DEF TurnOK, LearntOK
  <2>5. QED
    BY <2>1, <2>3, <2>4 DEF Conn
<1>5. QED
  BY <1>1, <1>2, <1>3, <1>4 DEF ExchangeInv

LEMMA ExchangeInvariant == Spec => []ExchangeInv
<1>1. Init => ExchangeInv
  BY ExchangeInit
<1>2. ExchangeInv /\ [Next]_vars => ExchangeInv'
  BY ExchangeStep
<1>3. QED
  BY <1>1, <1>2, PTL DEF Spec

-----------------------------------------------------------------------------
(* What they can rely on *)

\* Every variable keeps its shape; a connection is waiting, being served or
\* neither.
THEOREM ExchangeTypes == Spec => []TypeOK
<1>1. ExchangeInv => TypeOK
  <2> SUFFICES ASSUME ExchangeInv PROVE TypeOK
    OBVIOUS
  <2>1. ShapeInv /\ QueueInv
    BY DEF ExchangeInv
  <2>2. /\ \A x \in {"epoch", "boot", "generation"} : provider[x] \in 1 .. Largest
        /\ \A r \in Resources : provider.held[r].egen \in 1 .. provider.generation
        /\ stopping \in BOOLEAN
    BY <2>1 DEF ShapeInv
  <2>3. /\ Serving \/ server.at \in {"loop", "accept", "stopped", "failed", "killed"}
        /\ Serving = (server.peer \in Clients)
        /\ IF Serving THEN Len(server.buffer) <= 1 ELSE server.buffer = <<>>
    <3>1. server.at \in ServerPlaces
      BY <2>1 DEF ShapeInv
    <3>2. Serving \/ server.at \in {"loop", "accept", "stopped", "failed", "killed"}
      BY <3>1 DEF ServerPlaces, Serving
    <3>3. IF Serving THEN server.peer \in Clients /\ Len(server.buffer) <= 1
                     ELSE server.peer = Nobody /\ server.buffer = <<>>
      BY <2>1 DEF QueueInv
    <3>4. Serving <=> server.peer \in Clients
      BY <3>3, EvidenceAssumption
    <3>5. Serving = (server.peer \in Clients)
      BY <3>4 DEF Serving
    <3>6. QED
      BY <3>2, <3>3, <3>5
  <2>4. /\ \A i, j \in DOMAIN backlog : backlog[i] = backlog[j] => i = j
        /\ server.peer \notin Range(backlog)
    BY <2>1 DEF QueueInv, Range
  <2>5. \A c \in Clients : /\ client[c].at \in ClientPlaces /\ Len(client[c].buffer) <= 1
                           /\ ends[c] \subseteq {"client", "server"}
    BY <2>1 DEF ShapeInv
  <2>6. QED
    BY <2>2, <2>3, <2>4, <2>5 DEF TypeOK, ClientPlaces
<1>2. QED
  BY <1>1, ExchangeInvariant, PTL

\* No frame is lost to the one that precedes it in a receive, although
\* FrameReader::feed may complete several and receive_frame returns one.
THEOREM NoFrameIsOverlooked == Spec => []NothingOverlooked
<1>1. ExchangeInv => NothingOverlooked
  BY DEF ExchangeInv, NothingOverlooked
<1>2. QED
  BY <1>1, ExchangeInvariant, PTL

\* A fetch that returns has an answer of the incarnation that it greeted, of
\* no older epoch or generation than it required, and only records that count.
THEOREM AnswersAreAsRequired == Spec => []AnswersMeetRequirements
<1>1. ExchangeInv => AnswersMeetRequirements
  <2> SUFFICES ASSUME ExchangeInv, NEW c \in Clients, client[c].at = "ok"
               PROVE  LET answer == client[c].response
                      IN  /\ answer.epoch >= option[c].epoch
                          /\ answer.generation >= option[c].generation
                          /\ answer.boot = client[c].ack.boot
                          /\ \A record \in client[c].accepted :
                               /\ record.resource \in Authorised
                               /\ record.egen >= option[c].generation
    BY DEF AnswersMeetRequirements
  <2> DEFINE answer == client[c].response
             ack == client[c].ack
             o == option[c]
  <2>1. /\ ack \in Given /\ Acceptable(ack, o)
        /\ answer \in Newer(ack) /\ SameIncarnation(answer, ack, o)
        /\ client[c].accepted \subseteq {x \in TrueRecords : Counted(x, o)}
        /\ o \in Options(c)
    BY DEF ExchangeInv, Conn, LearntOK, ShapeInv
  <2>2. o.epoch \in Nat /\ o.generation \in Nat
    BY <2>1, EvidenceAssumption
  <2> HIDE DEF answer, ack, o
  <2>3. /\ answer.epoch \in Nat /\ answer.generation \in Nat /\ ack.generation \in Nat
        /\ answer.boot = ack.boot /\ answer.generation >= ack.generation
        /\ o.epoch # 0 => answer.epoch >= o.epoch
        /\ o.generation # 0 => ack.generation >= o.generation
    BY <2>1 DEF Newer, Given, Acks, Responses, SameIncarnation, Acceptable
  <2>4. answer.epoch >= o.epoch /\ answer.generation >= o.generation
    BY <2>2, <2>3
  <2>5. ASSUME NEW record \in client[c].accepted
        PROVE  record.resource \in Authorised /\ record.egen >= o.generation
    <3>1. record \in TrueRecords /\ Counted(record, o)
      BY <2>1
    <3>2. /\ record.egen \in Nat /\ (record.authoritative => record.resource \in Authorised)
          /\ record.authoritative /\ (o.generation # 0 => record.egen >= o.generation)
      BY <3>1 DEF TrueRecords, Counted
    <3>3. QED
      BY <2>2, <3>2
  <2>6. QED
    BY <2>3, <2>4, <2>5 DEF answer, ack, o
<1>2. QED
  BY <1>1, ExchangeInvariant, PTL

-----------------------------------------------------------------------------
(* Freshness *)

\* What the provider holds is not older than what it held when it was asked.
HeldSince(c) ==
  \A r \in Resources : /\ provider.held[r].egen >= asked[c][r].egen
                       /\ provider.held[r].rgen >= asked[c][r].rgen

\* Responses that are fresh, and whole when there was no limit.
Fresh(c) ==
  {m \in Responses :
     /\ \A i \in 1 .. Len(m.records) :
          /\ m.records[i].egen >= asked[c][m.records[i].resource].egen
          /\ m.records[i].rgen >= asked[c][m.records[i].resource].rgen
     /\ option[c].max >= Len(Population) =>
          \A r \in Resources : asked[c][r].rgen >= option[c].since =>
            \E i \in 1 .. Len(m.records) : m.records[i].resource = r}

\* The provider may lose what it held with its process, but with it goes what
\* was asked of it: a response is in hand, or is still to be made of evidence
\* that is no older than what there was when the client asked.
FreshOK(c) ==
  /\ client[c].at = "response" =>
       /\ client[c].buffer \in Stream(Fresh(c)) /\ toClient[c] \in Stream(Fresh(c))
       /\ OnWay(c) # <<>> => HeldSince(c)
       /\ Replying(c) /\ server.at # "send" =>
            /\ HeldSince(c)
            /\ server.reply.since = option[c].since /\ server.reply.max = option[c].max
       /\ Replying(c) /\ server.at = "send" => server.reply \in Fresh(c)
  /\ client[c].at \in {"bye", "ok"} => client[c].response \in Fresh(c)

AskedShape ==
  /\ DOMAIN asked = Clients
  /\ \A c \in Clients, r \in Resources : asked[c][r].egen \in Nat /\ asked[c][r].rgen \in Nat

FreshInv == AskedShape /\ \A c \in Clients : FreshOK(c)

\* A client that does nothing, of which nothing new is known to the server.
LEMMA FreshStays ==
  ASSUME NEW c, FreshOK(c),
         client'[c] = client[c], asked'[c] = asked[c], option'[c] = option[c],
         toClient'[c] = toClient[c] \/ toClient'[c] = <<>>,
         OnWay(c)' = OnWay(c) \/ OnWay(c)' = <<>>,
         Replying(c)' => /\ Replying(c) /\ server'.at = server.at
                         /\ server'.reply = server.reply,
         \/ HeldSince(c) => HeldSince(c)'
         \/ OnWay(c)' = <<>> /\ ~ Replying(c)'
  PROVE  FreshOK(c)'
<1>1. Fresh(c)' = Fresh(c)
  BY DEF Fresh
<1>2. OnWay(c)' # <<>> /\ HeldSince(c) => HeldSince(c)'
  OBVIOUS
<1>3. Replying(c)' /\ HeldSince(c) => HeldSince(c)'
  OBVIOUS
<1>4. client[c].at = "response" => toClient'[c] \in Stream(Fresh(c))
  BY EmptyProperty DEF FreshOK
<1>5. QED
  BY <1>1, <1>2, <1>3, <1>4 DEF FreshOK

\* A client that is not waiting for a response, or has none.
LEMMA FreshIdles ==
  ASSUME NEW c, client'[c].at \notin {"response", "bye", "ok"}
  PROVE  FreshOK(c)'
BY DEF FreshOK

\* What one client does leaves the answers of the others as they are.
LEMMA FreshOthers ==
  ASSUME NEW c \in Clients, NEW d \in Clients \ {c}, FreshOK(d),
         client'[d] = client[d], asked'[d] = asked[d], option' = option,
         server' = server, provider' = provider,
         toServer'[d] = toServer[d], toClient'[d] = toClient[d]
  PROVE  FreshOK(d)'
<1>1. OnWay(d)' = OnWay(d) /\ Replying(d)' = Replying(d) /\ (HeldSince(d) => HeldSince(d)')
  BY DEF OnWay, Held, Replying, HeldSince
<1>2. QED
  BY <1>1, FreshStays

\* What the server does for one connection leaves the others as they are.
LEMMA FreshUnserved ==
  ASSUME NEW c, NEW d, c # d, FreshOK(d), d # Nobody,
         server.peer = c, server'.peer \in {c, Nobody},
         client'[d] = client[d], asked' = asked, option' = option, provider' = provider,
         toServer'[d] = toServer[d], toClient'[d] = toClient[d]
  PROVE  FreshOK(d)'
<1>1. OnWay(d)' = OnWay(d) /\ ~ Replying(d)' /\ (HeldSince(d) => HeldSince(d)')
  BY DEF OnWay, Held, Replying, HeldSince
<1>2. QED
  BY <1>1, FreshStays

LEMMA SendFresh ==
  ASSUME ExchangeInv, FreshInv, NEW c \in Clients,
         SendHello(c) \/ SendRequest(c) \/ SendBye(c)
  PROVE  FreshInv'
<1>1. /\ ShapeInv /\ Conn(c) /\ client[c].at \in {"hello", "request", "bye"}
      /\ UNCHANGED <<provider, server, option>>
      /\ toClient' = toClient \/ toClient' = [toClient EXCEPT ![c] = <<>>]
      /\ \E frames : toServer' = Sent(c, frames)
      /\ client'[c].at \in {"ack", "response", "ok"}
      /\ \A d \in Clients \ {c} : client'[d] = client[d]
      /\ asked' = asked \/ asked' = [asked EXCEPT ![c] = provider.held]
      /\ client'[c].at = "response" => asked' = [asked EXCEPT ![c] = provider.held]
      /\ client'[c].at = "ok" => /\ client[c].at = "bye" /\ asked' = asked
                                 /\ client'[c].response = client[c].response
      /\ client'[c].buffer \in {client[c].buffer, <<>>}
  <2>1. ShapeInv /\ Conn(c)
    BY DEF ExchangeInv
  <2>2. client[c] = [at |-> client[c].at, buffer |-> client[c].buffer, ack |-> client[c].ack,
                     response |-> client[c].response, accepted |-> client[c].accepted]
        /\ DOMAIN client = Clients
    BY <2>1 DEF ShapeInv
  <2>3. CASE SendHello(c)
    BY <2>1, <2>2, <2>3 DEF SendHello
  <2>4. CASE SendRequest(c)
    BY <2>1, <2>2, <2>4 DEF SendRequest
  <2>5. CASE SendBye(c)
    <3> DEFINE k == client[c]
               l == [k EXCEPT !.at = "ok"]
               m == [l EXCEPT !.buffer = <<>>]
    <3>1. client' = [client EXCEPT ![c] = m]
      BY <2>5 DEF SendBye
    <3>2. l = [at |-> "ok", buffer |-> k.buffer, ack |-> k.ack, response |-> k.response,
               accepted |-> k.accepted]
      BY <2>2
    <3> HIDE DEF l
    <3>3. m = [at |-> "ok", buffer |-> <<>>, ack |-> k.ack, response |-> k.response,
               accepted |-> k.accepted]
      BY <3>2
    <3> HIDE DEF m
    <3>4. client'[c].at = "ok" /\ client'[c].response = client[c].response /\ client'[c].buffer = <<>>
      BY <2>2, <3>1, <3>3
    <3>5. \A d \in Clients \ {c} : client'[d] = client[d]
      BY <2>2, <3>1
    <3>6. /\ UNCHANGED <<provider, server, option, asked>> /\ client[c].at = "bye"
          /\ toClient' = [toClient EXCEPT ![c] = <<>>]
          /\ toServer' = Sent(c, Frame(Bye))
      BY <2>5 DEF SendBye, ClientCloses
    <3>7. QED
      BY <2>1, <3>4, <3>5, <3>6
  <2>6. QED
    BY <2>3, <2>4, <2>5
<1>2. PICK frames : toServer' = Sent(c, frames)
  BY <1>1
<1>3. \A d \in Clients \ {c} : /\ toServer'[d] = toServer[d] /\ toClient'[d] = toClient[d]
                               /\ asked'[d] = asked[d]
  BY <1>1, <1>2 DEF Sent, ShapeInv, FreshInv, AskedShape
<1>4. AskedShape'
  <2>1. \A r \in Resources : provider.held[r].egen \in Nat /\ provider.held[r].rgen \in Nat
    BY <1>1 DEF ShapeInv
  <2>2. QED
    BY <1>1, <2>1 DEF FreshInv, AskedShape
<1>5. \A d \in Clients \ {c} : FreshOK(d)'
  BY <1>1, <1>3, FreshOthers DEF FreshInv
<1>6. FreshOK(c)'
  <2>1. CASE client'[c].at = "ack"
    BY <2>1, FreshIdles
  <2>2. CASE client'[c].at = "response"
    <3>1. client[c].buffer = <<>> /\ toClient[c] = <<>> /\ ~ Replying(c)
      BY <1>1, QuietProperty DEF Conn, TurnOK
    <3>2. client'[c].buffer = <<>> /\ toClient'[c] = <<>> /\ ~ Replying(c)'
      BY <1>1, <3>1 DEF Replying, ShapeInv
    <3>3. HeldSince(c)'
      <4>1. asked'[c] = provider.held /\ provider' = provider
        BY <1>1, <2>2 DEF FreshInv, AskedShape
      <4>2. \A r \in Resources : provider.held[r].egen \in Nat /\ provider.held[r].rgen \in Nat
        BY <1>1 DEF ShapeInv
      <4>3. QED
        BY <4>1, <4>2 DEF HeldSince
    <3>4. QED
      BY <2>2, <3>2, <3>3, EmptyProperty DEF FreshOK
  <2>3. CASE client'[c].at = "ok"
    <3>1. client[c].at = "bye" /\ client'[c].response = client[c].response
          /\ asked' = asked /\ option' = option
      BY <1>1, <2>3
    <3>2. client[c].response \in Fresh(c)
      BY <1>1, <3>1 DEF FreshInv, FreshOK
    <3>3. Fresh(c)' = Fresh(c)
      BY <3>1 DEF Fresh
    <3>4. QED
      BY <2>3, <3>1, <3>2, <3>3 DEF FreshOK
  <2>4. QED
    BY <1>1, <2>1, <2>2, <2>3
<1>7. QED
  BY <1>4, <1>5, <1>6 DEF FreshInv

LEMMA EndsFresh ==
  ASSUME ExchangeInv, FreshInv, NEW c \in Clients, Connect(c) \/ ClientFails(c) \/ GreetsAgain(c)
  PROVE  FreshInv'
<1>1. /\ ShapeInv
      /\ UNCHANGED <<provider, server, option, toServer, asked>>
      /\ client'[c].at \notin {"response", "bye", "ok"}
      /\ \A d \in Clients \ {c} : client'[d] = client[d] /\ toClient'[d] = toClient[d]
  BY DEF ExchangeInv, ShapeInv, Connect, ClientFails, GreetsAgain, Abandons, Idle, ClientCloses, network
<1>2. \A d \in Clients \ {c} : FreshOK(d)'
  BY <1>1, FreshOthers DEF FreshInv
<1>3. FreshOK(c)'
  BY <1>1, FreshIdles
<1>4. QED
  BY <1>1, <1>2, <1>3 DEF FreshInv, AskedShape

\* What a client makes of what it receives.
LEMMA ReceivesFresh ==
  ASSUME ExchangeInv, FreshInv, NEW c \in Clients, ClientReceives(c)
  PROVE  FreshInv'
<1> DEFINE k == client[c]
<1>1. /\ ShapeInv /\ Conn(c) /\ FreshOK(c) /\ k.at \in {"ack", "response"}
      /\ UNCHANGED <<provider, server, option, toServer, asked>>
  BY DEF ExchangeInv, FreshInv, ClientReceives
<1>2. PICK n \in 1 .. Len(toClient[c]) :
        LET bytes == Bytes(k.buffer, toClient[c], n)
            message == First(bytes)
            o == option[c]
            Continues(at, ack, response, accepted) ==
              /\ client' = [client EXCEPT ![c] =
                   [at |-> at, buffer |-> Rest(bytes), ack |-> ack, response |-> response,
                    accepted |-> accepted]]
              /\ toClient' = [toClient EXCEPT ![c] = SubSeq(@, n + 1, Len(@))]
              /\ ends' = ends
        IN  IF Completed(bytes) = {} THEN Continues(k.at, k.ack, k.response, k.accepted)
            ELSE IF k.at = "ack" /\ Acceptable(message, o)
              THEN Continues("request", message, k.response, k.accepted)
            ELSE IF k.at = "response" /\ SameIncarnation(message, k.ack, o)
              THEN Continues("bye", k.ack, message,
                             {record \in Range(message.records) : Counted(record, o)})
              ELSE Abandons(c)
  BY DEF ClientReceives
<1> DEFINE bytes == Bytes(k.buffer, toClient[c], n)
           rest == SubSeq(toClient[c], n + 1, Len(toClient[c]))
           message == First(bytes)
           accepted == {record \in Range(message.records) : Counted(record, option[c])}
<1>3. ASSUME k.at = "response"
      PROVE  /\ Rest(bytes) \in Stream(Fresh(c)) /\ rest \in Stream(Fresh(c))
             /\ Completed(bytes) # {} => message \in Fresh(c)
  <2>1. /\ k.buffer \in Stream(Fresh(c)) /\ toClient[c] \in Stream(Fresh(c))
        /\ Len(k.buffer) <= 1 /\ OneFrame(k.buffer \o toClient[c])
    BY <1>1, <1>3 DEF FreshOK, ShapeInv, Coming, Conn, StreamOK
  <2>2. Receives(Fresh(c), k.buffer, toClient[c], n)
    BY <2>1, ReceiveProperty
  <2>3. QED
    BY <2>2 DEF Receives
<1>4. ASSUME NEW at, NEW ack, NEW response, NEW acc,
             client' = [client EXCEPT ![c] =
                          [at |-> at, buffer |-> Rest(bytes), ack |-> ack, response |-> response,
                           accepted |-> acc]],
             toClient' = [toClient EXCEPT ![c] = rest],
             at \in {k.at, "request", "bye"},
             at = "response" => k.at = "response",
             at = "bye" => response \in Fresh(c)
      PROVE  FreshInv'
  <2>1. /\ client'[c].at = at /\ client'[c].buffer = Rest(bytes) /\ client'[c].response = response
        /\ toClient'[c] = rest
        /\ \A d \in Clients \ {c} : client'[d] = client[d] /\ toClient'[d] = toClient[d]
    BY <1>1, <1>4 DEF ShapeInv
  <2>2. \A d \in Clients \ {c} : FreshOK(d)'
    BY <1>1, <2>1, FreshOthers DEF FreshInv
  <2>3. /\ Fresh(c)' = Fresh(c) /\ OnWay(c)' = OnWay(c) /\ Replying(c)' = Replying(c)
        /\ (HeldSince(c) => HeldSince(c)')
    BY <1>1 DEF Fresh, OnWay, Held, Replying, HeldSince
  <2>4. FreshOK(c)'
    <3> HIDE DEF bytes, rest
    <3>1. CASE at = "response"
      BY <1>1, <1>3, <1>4, <2>1, <2>3, <3>1 DEF FreshOK
    <3>2. CASE at = "bye"
      BY <1>4, <2>1, <2>3, <3>2 DEF FreshOK
    <3>3. CASE at \notin {"response", "bye"}
      BY <1>1, <1>4, <2>1, <3>3, FreshIdles
    <3>4. QED
      BY <3>1, <3>2, <3>3
  <2>5. QED
    BY <1>1, <2>2, <2>4 DEF FreshInv, AskedShape
<1>5. CASE Completed(bytes) = {}
  <2>1. /\ client' = [client EXCEPT ![c] =
                        [at |-> k.at, buffer |-> Rest(bytes), ack |-> k.ack, response |-> k.response,
                         accepted |-> k.accepted]]
        /\ toClient' = [toClient EXCEPT ![c] = rest]
    BY <1>2, <1>5
  <2>2. k.at # "bye"
    BY <1>1
  <2>3. QED
    BY <1>4, <2>1, <2>2
<1>6. CASE Completed(bytes) # {} /\ k.at = "ack" /\ Acceptable(message, option[c])
  <2>1. /\ client' = [client EXCEPT ![c] =
                        [at |-> "request", buffer |-> Rest(bytes), ack |-> message,
                         response |-> k.response, accepted |-> k.accepted]]
        /\ toClient' = [toClient EXCEPT ![c] = rest]
    BY <1>2, <1>6
  <2>2. PICK at, ack, response, acc :
          at = "request" /\ ack = message /\ response = k.response /\ acc = k.accepted
    OBVIOUS
  <2>3. /\ client' = [client EXCEPT ![c] =
                        [at |-> at, buffer |-> Rest(bytes), ack |-> ack, response |-> response,
                         accepted |-> acc]]
        /\ at \in {k.at, "request", "bye"} /\ at # "response" /\ at # "bye"
    BY <2>1, <2>2
  <2>4. QED
    BY <1>4, <2>1, <2>3
<1>7. CASE /\ Completed(bytes) # {} /\ k.at = "response"
           /\ SameIncarnation(message, k.ack, option[c])
  <2>1. /\ client' = [client EXCEPT ![c] =
                        [at |-> "bye", buffer |-> Rest(bytes), ack |-> k.ack,
                         response |-> message, accepted |-> accepted]]
        /\ toClient' = [toClient EXCEPT ![c] = rest]
    BY <1>2, <1>7
  <2>2. message \in Fresh(c)
    BY <1>3, <1>7
  <2>3. QED
    BY <1>4, <2>1, <2>2
<1>8. CASE /\ Completed(bytes) # {}
           /\ ~ (k.at = "ack" /\ Acceptable(message, option[c]))
           /\ ~ (k.at = "response" /\ SameIncarnation(message, k.ack, option[c]))
  <2>1. Abandons(c)
    BY <1>2, <1>8
  <2>2. /\ client'[c].at \notin {"response", "bye", "ok"}
        /\ \A d \in Clients \ {c} : client'[d] = client[d] /\ toClient'[d] = toClient[d]
    BY <1>1, <2>1 DEF ShapeInv, Abandons, Idle, ClientCloses
  <2>3. \A d \in Clients \ {c} : FreshOK(d)'
    BY <1>1, <2>2, FreshOthers DEF FreshInv
  <2>4. FreshOK(c)'
    BY <2>2, FreshIdles
  <2>5. QED
    BY <1>1, <2>3, <2>4 DEF FreshInv, AskedShape
<1>9. QED
  BY <1>5, <1>6, <1>7, <1>8

\* The server does nothing for a client that is being answered.
LEMMA RoundFresh ==
  ASSUME ExchangeInv, FreshInv, LooksAtStop \/ Accept \/ AcceptFails
  PROVE  FreshInv'
<1>1. /\ ShapeInv /\ server.peer = Nobody /\ server.buffer = <<>>
      /\ UNCHANGED <<provider, option, client, toServer, toClient, asked>>
  BY DEF ExchangeInv, QueueInv, Serving, LooksAtStop, Accept, AcceptFails, network
<1>2. server'.buffer = <<>> /\ server'.at \in {"loop", "accept", "stopped", "failed", "serve"}
  BY <1>1 DEF ShapeInv, LooksAtStop, Accept, AcceptFails
<1>3. ASSUME NEW c \in Clients PROVE FreshOK(c)'
  <2>1. Held(c)' = Held(c) /\ ~ Replying(c)'
    BY <1>1, <1>2 DEF Held, Replying
  <2>2. OnWay(c)' = OnWay(c) /\ (HeldSince(c) => HeldSince(c)')
    BY <1>1, <2>1 DEF OnWay, HeldSince
  <2>3. QED
    BY <1>1, <2>1, <2>2, FreshStays DEF FreshInv
<1>4. QED
  BY <1>1, <1>3 DEF FreshInv, AskedShape

\* A connection that ends on the server's side: what was asked is not answered.
LEMMA LeavesFresh ==
  ASSUME ExchangeInv, FreshInv, NEW c \in Clients, server.peer = c,
         NEW a \in {"loop", "failed", "killed"},
         Leaves(a), UNCHANGED <<provider, option, client, asked>>,
         \A d \in Clients \ {c} : toClient'[d] = toClient[d],
         client[c].at = "response" => toClient'[c] = toClient[c]
  PROVE  FreshInv'
<1>1. /\ server'.peer = Nobody /\ server'.buffer = <<>> /\ server'.at = a
      /\ toServer'[c] = <<>> /\ \A d \in Clients \ {c} : toServer'[d] = toServer[d]
  BY DEF Leaves, Listening, ExchangeInv, ShapeInv
<1>2. ASSUME NEW d \in Clients \ {c} PROVE FreshOK(d)'
  BY <1>1, EvidenceAssumption, FreshUnserved DEF FreshInv
<1>3. FreshOK(c)'
  <2>1. OnWay(c)' = <<>> /\ ~ Replying(c)' /\ Fresh(c)' = Fresh(c)
    BY <1>1, EmptyProperty, EvidenceAssumption DEF OnWay, Held, Replying, Fresh
  <2>2. QED
    BY <2>1 DEF FreshInv, FreshOK
<1>4. QED
  BY <1>2, <1>3 DEF FreshInv, AskedShape

\* What the server makes of what it receives: a request becomes the draft of a
\* response to it.
LEMMA ServerReceivesFresh ==
  ASSUME ExchangeInv, FreshInv, ServerReceives
  PROVE  FreshInv'
<1>1. PICK c \in Clients : server.peer = c
  BY DEF ExchangeInv, QueueInv, ServerReceives, Serving
<1>2. /\ ShapeInv /\ QueueInv /\ Conn(c) /\ FreshOK(c) /\ server.at = "serve" /\ Serving
      /\ UNCHANGED <<provider, option, client, toClient, asked>>
      /\ Held(c) = server.buffer
  BY <1>1 DEF ExchangeInv, FreshInv, ServerReceives, Serving, Held
<1>3. PICK n \in 1 .. Len(toServer[c]) :
        LET bytes == Bytes(server.buffer, toServer[c], n)
            message == First(bytes)
            Prepares(at, reply) ==
              /\ server' = [server EXCEPT !.buffer = Rest(bytes), !.at = at, !.reply = reply]
              /\ toServer' = [toServer EXCEPT ![c] = SubSeq(@, n + 1, Len(@))]
              /\ ends' = ends
        IN  IF Completed(bytes) = {} THEN Prepares("serve", Unread)
            ELSE IF message.kind = "hello"
              THEN IF message.native
                     THEN Prepares("epoch", Ack)
                     ELSE Prepares("refuse", Failure)
            ELSE IF message.kind = "request"
              THEN Prepares("epoch", Answer(message))
              ELSE Leaves("loop")
  BY <1>1 DEF ServerReceives
<1> DEFINE bytes == Bytes(server.buffer, toServer[c], n)
           rest == SubSeq(toServer[c], n + 1, Len(toServer[c]))
           message == First(bytes)
<1>4. ASSUME Completed(bytes) # {}, client[c].at = "response"
      PROVE  message = Request(option[c])
  <2>1. /\ server.buffer \in Stream(Outgoing(c)) /\ toServer[c] \in Stream(Outgoing(c))
        /\ Len(server.buffer) <= 1 /\ OneFrame(server.buffer \o toServer[c])
    BY <1>2 DEF Conn, StreamOK, QueueInv, OnWay
  <2>2. Receives(Outgoing(c), server.buffer, toServer[c], n)
    BY <2>1, ReceiveProperty
  <2>3. message \in Outgoing(c)
    BY <1>4, <2>2 DEF Receives
  <2>4. QED
    BY <1>4, <2>3, OutgoingProperty
<1>5. client[c].at = "response" => HeldSince(c)
  <2>1. toServer[c] # <<>>
    <3>1. Len(<<>>) = 0 /\ n \in 1 .. Len(toServer[c])
      OBVIOUS
    <3>2. QED
      BY <3>1
  <2>2. OnWay(c) # <<>>
    BY <1>2, <2>1, QuietProperty DEF Conn
  <2>3. QED
    BY <1>2, <2>2 DEF FreshOK
<1>6. ASSUME NEW a \in {"serve", "epoch", "refuse"}, NEW w,
             server' = [[[server EXCEPT !.buffer = Rest(bytes)] EXCEPT !.at = a] EXCEPT !.reply = w],
             toServer' = [toServer EXCEPT ![c] = rest],
             client[c].at = "response" =>
               \/ a = "serve"
               \/ w.since = option[c].since /\ w.max = option[c].max /\ a = "epoch"
      PROVE  FreshInv'
  <2>1. server'.at = a /\ server'.peer = c /\ server'.reply = w
    <3>1. server = [at |-> server.at, peer |-> c, buffer |-> server.buffer, reply |-> server.reply]
      BY <1>1, <1>2 DEF ShapeInv
    <3> DEFINE l1 == [server EXCEPT !.buffer = Rest(bytes)]
               l2 == [l1 EXCEPT !.at = a]
    <3>2. l1 = [at |-> server.at, peer |-> c, buffer |-> Rest(bytes), reply |-> server.reply]
      <4> HIDE DEF bytes
      <4>1. QED
        BY <3>1
    <3>3. server' = [l2 EXCEPT !.reply = w]
      BY <1>6
    <3> HIDE DEF l1, bytes
    <3>4. l2 = [at |-> a, peer |-> c, buffer |-> Rest(bytes), reply |-> server.reply]
      BY <3>2
    <3> HIDE DEF l2
    <3>5. QED
      BY <3>3, <3>4
  <2>2. \A d \in Clients \ {c} : toServer'[d] = toServer[d]
    BY <1>2, <1>6 DEF ShapeInv
  <2>3. ASSUME NEW d \in Clients \ {c} PROVE FreshOK(d)'
    BY <1>1, <1>2, <2>1, <2>2, EvidenceAssumption, FreshUnserved DEF FreshInv
  <2>4. FreshOK(c)'
    <3>1. Fresh(c)' = Fresh(c) /\ (HeldSince(c) => HeldSince(c)')
      BY <1>2 DEF Fresh, HeldSince
    <3>2. CASE client[c].at = "response"
      <4>1. client' = client /\ option' = option /\ toClient' = toClient /\ HeldSince(c)'
        BY <1>2, <1>5, <3>1, <3>2
      <4>2. Replying(c)' => a = "epoch"
        BY <1>6, <2>1, <3>2 DEF Replying
      <4>3. QED
        BY <1>2, <1>6, <2>1, <3>1, <3>2, <4>1, <4>2 DEF FreshOK
    <3>3. CASE client[c].at # "response"
      BY <1>2, <3>1, <3>3 DEF FreshOK
    <3>4. QED
      BY <3>2, <3>3
  <2>5. QED
    BY <1>2, <2>3, <2>4 DEF FreshInv, AskedShape
<1>7. CASE Completed(bytes) = {}
  <2>1. /\ server' = [server EXCEPT !.buffer = Rest(bytes), !.at = "serve", !.reply = Unread]
        /\ toServer' = [toServer EXCEPT ![c] = rest]
    BY <1>3, <1>7
  <2>2. QED
    BY <1>6, <2>1
<1>8. CASE Completed(bytes) # {} /\ message.kind = "hello"
  <2>1. client[c].at # "response"
    BY <1>4, <1>8 DEF Request
  <2>2. CASE message.native
    <3>1. /\ server' = [server EXCEPT !.buffer = Rest(bytes), !.at = "epoch", !.reply = Ack]
          /\ toServer' = [toServer EXCEPT ![c] = rest]
      BY <1>3, <1>8, <2>2
    <3>2. QED
      BY <1>6, <2>1, <3>1
  <2>3. CASE ~ message.native
    <3>1. /\ server' = [server EXCEPT !.buffer = Rest(bytes), !.at = "refuse", !.reply = Failure]
          /\ toServer' = [toServer EXCEPT ![c] = rest]
      BY <1>3, <1>8, <2>3
    <3>2. QED
      BY <1>6, <2>1, <3>1
  <2>4. QED
    BY <2>2, <2>3
<1>9. CASE Completed(bytes) # {} /\ message.kind # "hello" /\ message.kind = "request"
  <2>1. /\ server' = [server EXCEPT !.buffer = Rest(bytes), !.at = "epoch", !.reply = Answer(message)]
        /\ toServer' = [toServer EXCEPT ![c] = rest]
    BY <1>3, <1>9
  <2>2. ASSUME client[c].at = "response"
        PROVE  /\ Answer(message).since = option[c].since
               /\ Answer(message).max = option[c].max
    <3>1. message = Request(option[c])
      BY <1>4, <1>9, <2>2
    <3>2. message.since = option[c].since /\ message.max = option[c].max
      BY <3>1 DEF Request
    <3>3. QED
      BY <3>2 DEF Answer
  <2>3. QED
    BY <1>6, <2>1, <2>2
<1>10. CASE Completed(bytes) # {} /\ message.kind # "hello" /\ message.kind # "request"
  <2>1. Leaves("loop")
    BY <1>3, <1>10
  <2>2. QED
    BY <1>1, <1>2, <2>1, LeavesFresh
<1>11. QED
  BY <1>7, <1>8, <1>9, <1>10

\* The server asks its provider for the parts of an answer.
LEMMA AskFresh ==
  ASSUME ExchangeInv, FreshInv, NEW c \in Clients, server.peer = c, server'.peer = c,
         Replying(c), server.at \in {"epoch", "generation", "fetch"},
         UNCHANGED <<provider, option, client, toServer, toClient, asked>>,
         client[c].at = "response" =>
           \/ /\ server'.at \in {"generation", "fetch"}
              /\ server'.reply.since = server.reply.since
              /\ server'.reply.max = server.reply.max
           \/ server'.at = "send" /\ server'.reply \in Fresh(c)
  PROVE  FreshInv'
<1>1. /\ Conn(c) /\ FreshOK(c) /\ OnWay(c) = <<>>
  BY DEF ExchangeInv, FreshInv, Conn, TurnOK
<1>2. ASSUME NEW d \in Clients \ {c} PROVE FreshOK(d)'
  BY EvidenceAssumption, FreshUnserved DEF FreshInv
<1>3. FreshOK(c)'
  <2>1. Fresh(c)' = Fresh(c) /\ (HeldSince(c) => HeldSince(c)')
    BY DEF Fresh, HeldSince
  <2>2. CASE client[c].at = "response"
    <3>1. /\ server.reply.since = option[c].since /\ server.reply.max = option[c].max
          /\ HeldSince(c) /\ HeldSince(c)'
          /\ client[c].buffer \in Stream(Fresh(c)) /\ toClient[c] \in Stream(Fresh(c))
      BY <1>1, <2>1, <2>2 DEF FreshOK
    <3>2. QED
      BY <2>1, <2>2, <3>1 DEF FreshOK
  <2>3. CASE client[c].at # "response"
    BY <1>1, <2>1, <2>3 DEF FreshOK
  <2>4. QED
    BY <2>2, <2>3
<1>4. QED
  BY <1>2, <1>3 DEF FreshInv, AskedShape

LEMMA AskEpochFresh ==
  ASSUME ExchangeInv, FreshInv, AskEpoch
  PROVE  FreshInv'
<1>1. PICK c \in Clients : server.peer = c
  BY DEF ExchangeInv, QueueInv, AskEpoch, Serving
<1> DEFINE reply == server.reply
           w == [[reply EXCEPT !.epoch = provider.epoch] EXCEPT !.boot = provider.boot]
<1>2. /\ ShapeInv /\ Replying(c) /\ ReplyOK(c) /\ server.at = "epoch"
      /\ UNCHANGED <<provider, option, client, toServer, toClient, asked>>
  BY <1>1 DEF AskEpoch, Replying, ExchangeInv, Conn, network
<1>3. server' = [at |-> "generation", peer |-> c, buffer |-> server.buffer, reply |-> w]
  BY <1>1, <1>2 DEF AskEpoch, ShapeInv
<1>4. client[c].at = "response" => w.since = reply.since /\ w.max = reply.max
  BY <1>2 DEF ReplyOK, Drafts
<1>5. server'.at = "generation" /\ server'.peer = c /\ server'.reply = w
  BY <1>3
<1> HIDE DEF w
<1>6. QED
  BY <1>1, <1>2, <1>4, <1>5, AskFresh

LEMMA AskGenerationFresh ==
  ASSUME ExchangeInv, FreshInv, AskGeneration
  PROVE  FreshInv'
<1>1. PICK c \in Clients : server.peer = c
  BY DEF ExchangeInv, QueueInv, AskGeneration, Serving
<1> DEFINE reply == server.reply
           w == [reply EXCEPT !.generation = provider.generation]
           a == IF reply.kind = "ack" THEN "send" ELSE "fetch"
<1>2. /\ ShapeInv /\ Replying(c) /\ ReplyOK(c) /\ server.at = "generation"
      /\ UNCHANGED <<provider, option, client, toServer, toClient, asked>>
  BY <1>1 DEF AskGeneration, Replying, ExchangeInv, Conn, network
<1>3. server' = [at |-> a, peer |-> c, buffer |-> server.buffer, reply |-> w]
  BY <1>1, <1>2 DEF AskGeneration, ShapeInv
<1>4. client[c].at = "response" => a = "fetch" /\ w.since = reply.since /\ w.max = reply.max
  BY <1>2 DEF ReplyOK, Drafts
<1>5. server'.at = a /\ server'.peer = c /\ server'.reply = w
  BY <1>3
<1> HIDE DEF w, a
<1>6. QED
  BY <1>1, <1>2, <1>4, <1>5, AskFresh

\* The records that are handed out are those that are held.
LEMMA AskRecordsFresh ==
  ASSUME ExchangeInv, FreshInv, AskRecords, Len(Population) <= Limit
  PROVE  FreshInv'
<1>1. PICK c \in Clients : server.peer = c
  BY DEF ExchangeInv, QueueInv, AskRecords, Serving
<1> DEFINE reply == server.reply
           max == IF reply.max < Limit THEN reply.max ELSE Limit
           f == Fetched(reply.since, max)
           w == Response(reply, f)
           N == Len(Population)
           T == {Record(r) : r \in Resources}
<1>2. /\ ShapeInv /\ FreshOK(c) /\ Replying(c) /\ ReplyOK(c) /\ server.at = "fetch"
      /\ UNCHANGED <<provider, option, client, toServer, toClient, asked>>
  BY <1>1 DEF AskRecords, Replying, ExchangeInv, FreshInv, Conn, network
<1>3. server' = [at |-> "send", peer |-> c, buffer |-> server.buffer, reply |-> w]
  BY <1>1, <1>2 DEF AskRecords, ShapeInv
<1>4. reply \in Drafts /\ reply.since \in Nat /\ reply.max \in Nat /\ N \in Nat /\ Limit \in Nat
  BY <1>2, EvidenceAssumption, LenProperties DEF ReplyOK, Drafts
<1>5. max \in Nat /\ (N <= reply.max => N <= max) /\ N <= Limit
  BY <1>4
<1> HIDE DEF max
<1>6. /\ w \in Responses
      /\ f \in Seq(T) /\ Len(f) <= N
      /\ N <= max => \A r \in Resources : provider.held[r].rgen >= reply.since =>
                       \E i \in 1 .. Len(f) : f[i] = Record(r)
  BY <1>2, <1>4, <1>5, ResponseProperty, FetchedProperty
<1> HIDE DEF f, N, T
<1>7. /\ w.records \in Seq(T) /\ Len(w.records) = Len(f)
      /\ \A i \in 1 .. Len(w.records) : w.records[i] = f[i]
  <2>1. w.records = Capped(f, Limit)
    BY DEF Response
  <2>2. Len(f) \in Nat /\ Len(f) <= Limit
    BY <1>4, <1>5, <1>6, LenProperties
  <2>3. PICK g : g = Capped(f, Limit)
    OBVIOUS
  <2>4. /\ g \in Seq(T)
        /\ \A i \in 1 .. Len(g) : g[i] = f[i] /\ i <= Len(f)
        /\ Len(f) <= Limit => Len(g) = Len(f)
    BY <1>4, <1>6, <2>3, CappedProperty
  <2>5. w.records = g
    BY <2>1, <2>3
  <2> HIDE DEF w
  <2>6. QED
    BY <2>2, <2>4, <2>5
<1>8. ASSUME client[c].at = "response"
      PROVE  w \in Fresh(c)
  <2>1. /\ HeldSince(c) /\ reply.since = option[c].since /\ reply.max = option[c].max
    BY <1>2, <1>8 DEF FreshOK
  <2>2. ASSUME NEW i \in 1 .. Len(w.records)
        PROVE  /\ w.records[i].egen >= asked[c][w.records[i].resource].egen
               /\ w.records[i].rgen >= asked[c][w.records[i].resource].rgen
    <3>1. w.records[i] \in T
      BY <1>7, <2>2, ElementOfSeq
    <3>2. PICK r \in Resources : w.records[i] = Record(r)
      BY <3>1 DEF T
    <3>3. /\ w.records[i].resource = r /\ w.records[i].egen = provider.held[r].egen
          /\ w.records[i].rgen = provider.held[r].rgen
      BY <1>2, <3>2, RecordProperty
    <3>4. QED
      BY <2>1, <3>3 DEF HeldSince
  <2>3. ASSUME option[c].max >= Len(Population), NEW r \in Resources,
               asked[c][r].rgen >= option[c].since
        PROVE  \E i \in 1 .. Len(w.records) : w.records[i].resource = r
    <3>1. N <= max
      BY <1>4, <1>5, <2>1, <2>3 DEF N
    <3>2. provider.held[r].rgen >= reply.since
      <4>1. /\ provider.held[r].rgen \in Nat /\ asked[c][r].rgen \in Nat
            /\ provider.held[r].rgen >= asked[c][r].rgen
        BY <1>2, <2>1 DEF ShapeInv, FreshInv, AskedShape, HeldSince
      <4>2. QED
        BY <1>4, <2>1, <2>3, <4>1
    <3>3. PICK i \in 1 .. Len(f) : f[i] = Record(r)
      BY <1>6, <3>1, <3>2
    <3>4. w.records[i].resource = r
      BY <1>2, <1>7, <3>3, RecordProperty
    <3>5. QED
      BY <1>7, <3>4
  <2> HIDE DEF w
  <2>4. QED
    BY <1>6, <2>2, <2>3 DEF Fresh
<1>9. server'.at = "send" /\ server'.peer = c /\ server'.reply = w
  BY <1>3
<1> HIDE DEF w
<1>10. QED
  BY <1>1, <1>2, <1>8, <1>9, AskFresh

\* The server says what it has made.
LEMMA SendReplyFresh ==
  ASSUME ExchangeInv, FreshInv, SendReply
  PROVE  FreshInv'
<1>1. PICK c \in Clients : server.peer = c
  BY DEF ExchangeInv, QueueInv, SendReply, Serving
<1>2. /\ ShapeInv /\ Conn(c) /\ FreshOK(c) /\ Replying(c) /\ server.at = "send"
      /\ UNCHANGED <<provider, option, client, asked>>
  BY <1>1 DEF SendReply, Replying, ExchangeInv, FreshInv
<1>3. CASE /\ toClient' = Replied(server.peer, server.reply)
           /\ UNCHANGED <<ends, toServer>>
           /\ \/ server' = [server EXCEPT !.at = "sending"]
              \/ server' = [server EXCEPT !.at = "serve", !.reply = Unread]
  <2>1. /\ server'.at \in {"serve", "sending"} /\ server'.peer = c
        /\ server'.buffer = server.buffer
    BY <1>1, <1>2, <1>3 DEF ShapeInv
  <2>2. \A d \in Clients \ {c} : toClient'[d] = toClient[d]
    BY <1>1, <1>2, <1>3, RepliedProperty
  <2>3. ASSUME NEW d \in Clients \ {c} PROVE FreshOK(d)'
    BY <1>1, <1>2, <1>3, <2>1, <2>2, EvidenceAssumption, FreshUnserved DEF FreshInv
  <2>4. FreshOK(c)'
    <3>1. Fresh(c)' = Fresh(c) /\ OnWay(c)' = OnWay(c) /\ ~ Replying(c)'
          /\ (HeldSince(c) => HeldSince(c)')
      BY <1>1, <1>2, <1>3, <2>1 DEF Fresh, OnWay, Held, Replying, HeldSince
    <3>2. CASE client[c].at = "response"
      <4>1. toClient'[c] \in Stream(Fresh(c))
        <5>1. server.reply \in Fresh(c) /\ toClient[c] = <<>>
          BY <1>2, <3>2, QuietProperty DEF FreshOK, Conn, TurnOK
        <5>2. Frame(server.reply) \in Stream(Fresh(c)) /\ <<>> \in Stream(Fresh(c))
          BY <5>1, FrameProperty, EmptyProperty
        <5>3. <<>> \o Frame(server.reply) = Frame(server.reply)
          BY <5>2, ConcatEmptySeq DEF Stream
        <5>4. toClient'[c] = toClient[c] \o Frame(server.reply) \/ toClient'[c] = toClient[c]
          BY <1>1, <1>2, <1>3 DEF Replied, ShapeInv
        <5>5. QED
          BY <5>1, <5>2, <5>3, <5>4
      <4>2. QED
        BY <1>2, <3>1, <3>2, <4>1 DEF FreshOK
    <3>3. CASE client[c].at # "response"
      BY <1>2, <3>1, <3>3 DEF FreshOK
    <3>4. QED
      BY <3>2, <3>3
  <2>5. QED
    BY <1>2, <2>3, <2>4 DEF FreshInv, AskedShape
<1>4. CASE Leaves("failed") /\ UNCHANGED toClient
  BY <1>1, <1>2, <1>4, LeavesFresh
<1>5. QED
  BY <1>3, <1>4 DEF SendReply, Served

LEMMA ReplySentFresh ==
  ASSUME ExchangeInv, FreshInv, ReplySent
  PROVE  FreshInv'
<1>1. PICK c \in Clients : server.peer = c
  BY DEF ExchangeInv, QueueInv, ReplySent, Serving
<1>2. /\ ShapeInv /\ FreshOK(c) /\ UNCHANGED <<provider, option, client, toClient, asked>>
  BY DEF ReplySent, ExchangeInv, FreshInv
<1>3. CASE Served
  <2>1. /\ server'.at = "serve" /\ server'.peer = c /\ server'.buffer = server.buffer
        /\ toServer' = toServer
    BY <1>1, <1>2, <1>3 DEF ShapeInv, Served
  <2>2. ASSUME NEW d \in Clients \ {c} PROVE FreshOK(d)'
    BY <1>1, <1>2, <2>1, EvidenceAssumption, FreshUnserved DEF FreshInv
  <2>3. FreshOK(c)'
    <3>1. OnWay(c)' = OnWay(c) /\ ~ Replying(c)' /\ (HeldSince(c) => HeldSince(c)')
      BY <1>1, <1>2, <2>1 DEF OnWay, Held, Replying, HeldSince
    <3>2. QED
      BY <1>2, <3>1, FreshStays
  <2>4. QED
    BY <1>2, <2>2, <2>3 DEF FreshInv, AskedShape
<1>4. CASE Leaves("failed") \/ Leaves("killed")
  BY <1>1, <1>2, <1>4, LeavesFresh
<1>5. QED
  BY <1>3, <1>4 DEF ReplySent

LEMMA PartingFresh ==
  ASSUME ExchangeInv, FreshInv, Refuse \/ ServerGivesUp
  PROVE  FreshInv'
<1>1. PICK c \in Clients : server.peer = c
  BY DEF ExchangeInv, QueueInv, Refuse, ServerGivesUp, Serving
<1>2. /\ ShapeInv /\ Conn(c) /\ Leaves("loop") /\ UNCHANGED <<provider, option, client, asked>>
      /\ toClient' = Replied(c, server.reply) \/ toClient' = toClient
  BY <1>1 DEF Refuse, ServerGivesUp, ExchangeInv
<1>3. \A d \in Clients \ {c} : toClient'[d] = toClient[d]
  BY <1>2, RepliedProperty
<1>4. client[c].at = "response" => toClient'[c] = toClient[c]
  <2>1. CASE Refuse
    BY <1>1, <1>2, <2>1 DEF Refuse, Conn, ReplyOK, Replying
  <2>2. CASE ServerGivesUp
    BY <2>2 DEF ServerGivesUp
  <2>3. QED
    BY <2>1, <2>2
<1>5. QED
  BY <1>1, <1>2, <1>3, <1>4, LeavesFresh

\* The provider moves on, or is another one, and the server with it.
LEMMA EnvironmentFresh ==
  ASSUME ExchangeInv, FreshInv, Observe \/ AdvanceEpoch \/ Stop
  PROVE  FreshInv'
<1>1. /\ ShapeInv /\ UNCHANGED <<server, option, client, toServer, toClient, asked>>
  BY DEF ExchangeInv, Observe, AdvanceEpoch, Stop, network
<1>2. \A r \in Resources : /\ provider'.held[r].egen >= provider.held[r].egen
                           /\ provider'.held[r].rgen >= provider.held[r].rgen
                           /\ {provider.held[r].egen, provider'.held[r].egen,
                               provider.held[r].rgen, provider'.held[r].rgen} \subseteq Nat
  <2>1. /\ \A r \in Resources : provider.held[r].egen \in Nat /\ provider.held[r].rgen \in Nat
        /\ provider.held \in [Resources -> [rgen : Nat, egen : Nat]]
        /\ provider = [epoch |-> provider.epoch, boot |-> provider.boot,
                       generation |-> provider.generation, held |-> provider.held]
        /\ provider.generation \in Nat
        /\ \A r \in Resources : provider.held[r].egen <= provider.generation
    BY <1>1, EvidenceAssumption DEF ShapeInv
  <2>2. CASE provider'.held = provider.held
    BY <2>1, <2>2
  <2>3. CASE Observe
    <3>1. PICK r \in Resources, renewed \in {0, 1} :
            provider' = [provider EXCEPT
              !.generation = @ + 1,
              !.held[r] = [rgen |-> @.rgen + renewed, egen |-> provider.generation + 1]]
      BY <2>3 DEF Observe
    <3>2. provider'.held = [provider.held EXCEPT ![r] =
                              [rgen |-> @.rgen + renewed, egen |-> provider.generation + 1]]
      BY <2>1, <3>1
    <3>3. /\ provider'.held[r].egen = provider.generation + 1
          /\ provider'.held[r].rgen = provider.held[r].rgen + renewed
          /\ \A x \in Resources \ {r} : provider'.held[x] = provider.held[x]
      BY <2>1, <3>2
    <3>4. QED
      BY <2>1, <3>3
  <2>4. provider'.held = provider.held \/ Observe
    <3>1. CASE AdvanceEpoch
      BY <2>1, <3>1 DEF AdvanceEpoch
    <3>2. CASE Stop
      BY <3>2 DEF Stop
    <3>3. QED
      BY <3>1, <3>2
  <2>5. QED
    BY <2>2, <2>3, <2>4
<1>3. ASSUME NEW c \in Clients PROVE FreshOK(c)'
  <2>1. OnWay(c)' = OnWay(c) /\ Replying(c)' = Replying(c)
    BY <1>1 DEF OnWay, Held, Replying
  <2>2. HeldSince(c) => HeldSince(c)'
    <3>1. ASSUME HeldSince(c), NEW r \in Resources
          PROVE  /\ provider'.held[r].egen >= asked[c][r].egen
                 /\ provider'.held[r].rgen >= asked[c][r].rgen
      <4>1. asked[c][r].egen \in Nat /\ asked[c][r].rgen \in Nat
        BY DEF FreshInv, AskedShape
      <4>2. provider.held[r].egen >= asked[c][r].egen /\ provider.held[r].rgen >= asked[c][r].rgen
        BY <3>1 DEF HeldSince
      <4>3. QED
        BY <1>2, <4>1, <4>2
    <3>2. QED
      BY <1>1, <3>1 DEF HeldSince
  <2>3. QED
    BY <1>1, <2>1, <2>2, FreshStays DEF FreshInv
<1>4. QED
  BY <1>1, <1>3 DEF FreshInv, AskedShape

LEMMA RestartFresh ==
  ASSUME ExchangeInv, FreshInv, Restart
  PROVE  FreshInv'
<1>1. /\ server' = [at |-> "loop", peer |-> Nobody, buffer |-> <<>>, reply |-> Unread]
      /\ toServer' = [c \in Clients |-> <<>>]
      /\ \A c \in Clients : toClient'[c] = toClient[c] \/ toClient'[c] = <<>>
      /\ UNCHANGED <<option, client, asked>>
  BY DEF Restart, Listening
<1>2. ASSUME NEW c \in Clients PROVE FreshOK(c)'
  <2>1. OnWay(c)' = <<>> /\ ~ Replying(c)'
    BY <1>1, EmptyProperty DEF OnWay, Held, Replying
  <2>2. QED
    BY <1>1, <2>1, FreshStays DEF FreshInv
<1>3. QED
  BY <1>1, <1>2 DEF FreshInv, AskedShape

LEMMA FreshStep ==
  ASSUME ExchangeInv, FreshInv, [Next]_vars, Len(Population) <= Limit
  PROVE  FreshInv'
<1>1. CASE UNCHANGED vars
  <2>1. ASSUME NEW c \in Clients PROVE FreshOK(c)'
    <3>1. /\ OnWay(c)' = OnWay(c) /\ Replying(c)' = Replying(c) /\ (HeldSince(c) => HeldSince(c)')
      BY <1>1 DEF vars, OnWay, Held, Replying, HeldSince
    <3>2. QED
      BY <1>1, <3>1, FreshStays DEF vars, FreshInv
  <2>2. QED
    BY <1>1, <2>1 DEF vars, FreshInv, AskedShape
<1>2. ASSUME NEW c \in Clients, Connect(c) \/ Fetch(c) \/ GreetsAgain(c) PROVE FreshInv'
  BY <1>2, SendFresh, EndsFresh, ReceivesFresh DEF Fetch
<1>3. CASE Serve
  BY <1>3, RoundFresh, ServerReceivesFresh, AskEpochFresh, AskGenerationFresh, AskRecordsFresh,
     SendReplyFresh, ReplySentFresh, PartingFresh DEF Serve
<1>4. QED
  BY <1>1, <1>2, <1>3, EnvironmentFresh, RestartFresh DEF Next

LEMMA FreshInit ==
  ASSUME Init
  PROVE  FreshInv
<1>1. \A r \in Resources : provider.held[r].egen = 1 /\ provider.held[r].rgen = 1
  BY DEF Init
<1>2. AskedShape
  BY <1>1 DEF Init, AskedShape
<1>3. \A c \in Clients : client[c].at = "idle"
  BY DEF Init, Idle
<1>4. QED
  BY <1>2, <1>3 DEF FreshInv, FreshOK

\* A fetch that got everything it asked for learns of every resource of the
\* generation it asked for, and of none anything older than what the server
\* held when it was asked.  A server that holds more resources than a response
\* may have records leaves some out, however many were asked for.
THEOREM AnswersAreNotStale ==
  ASSUME Len(Population) <= Limit
  PROVE  Spec => []AnswersAreFresh
<1>1. Init => FreshInv
  BY FreshInit
<1>2. ExchangeInv /\ FreshInv /\ [Next]_vars => FreshInv'
  BY FreshStep
<1>3. FreshInv => AnswersAreFresh
  <2> SUFFICES ASSUME FreshInv, NEW c \in Clients, client[c].at = "ok"
               PROVE  LET records == Range(client[c].response.records)
                      IN  /\ \A record \in records :
                               /\ record.egen >= asked[c][record.resource].egen
                               /\ record.rgen >= asked[c][record.resource].rgen
                          /\ option[c].max >= Len(Population) =>
                               \A r \in Resources :
                                 asked[c][r].rgen >= option[c].since =>
                                   \E record \in records : record.resource = r
    BY DEF AnswersAreFresh
  <2> DEFINE s == client[c].response.records
  <2>1. client[c].response \in Fresh(c)
    BY DEF FreshInv, FreshOK
  <2>2. /\ s \in Seq(TrueRecords)
        /\ \A i \in 1 .. Len(s) : /\ s[i].egen >= asked[c][s[i].resource].egen
                                  /\ s[i].rgen >= asked[c][s[i].resource].rgen
        /\ option[c].max >= Len(Population) =>
             \A r \in Resources : asked[c][r].rgen >= option[c].since =>
               \E i \in 1 .. Len(s) : s[i].resource = r
    BY <2>1 DEF Fresh, Responses
  <2> HIDE DEF s
  <2>3. DOMAIN s = 1 .. Len(s)
    BY <2>2, LenProperties
  <2>4. Range(s) = {s[i] : i \in 1 .. Len(s)}
    BY <2>3 DEF Range
  <2>5. QED
    BY <2>2, <2>4 DEF s
<1>4. QED
  BY <1>1, <1>2, <1>3, ExchangeInvariant, PTL DEF Spec

=============================================================================
