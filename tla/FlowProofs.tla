----------------------------- MODULE FlowProofs -----------------------------
(***************************************************************************)
(* What the solver guarantees whoever calls it, for every network, every    *)
(* capacity and every sequence of calls: its flow is feasible after each of *)
(* its steps, and an answer that was not cut short by its limit comes with  *)
(* a saturated cut, which shows that no larger flow exists.                *)
(***************************************************************************)
EXTENDS Flow, ListLemmas, SequenceTheorems

-----------------------------------------------------------------------------
(* The invariant *)

Places == {"idle", "levels", "search", "reach", "solved", "exhausted", "cancelled"}

\* The network and what is known of its arcs, in every state.
NetworkOK ==
  /\ IsNetwork(net) /\ Capacitated(net, cap)
  /\ flow \in [Arcs(net) -> Int]

\* A call under way.
CallOK ==
  /\ call.source \in net.nodes /\ call.sink \in net.nodes \ {call.source}
  /\ call.limit \in 0 .. U64Max /\ total \in Nat
  /\ call.limit # U64Max => total <= call.limit
  /\ level \in [net.nodes -> Int]

\* The path leads up the level graph, one level after the other, over arcs that
\* can take more: so it holds no arc together with its partner, and what a
\* retreat does to the level of its last node disturbs none of the others.
PathOK ==
  /\ level[call.source] = 0
  /\ path \in Seq(Arcs(net))
  /\ \A i \in 1 .. Len(path) :
       /\ level[net.tail[path[i]]] = i - 1
       /\ level[net.head[path[i]]] = i
       /\ Residual(path[i]) > 0

\* While the level graph grows: whatever a scanned node can send to has a
\* level, as long as the sink has none.
LevelsOK ==
  /\ level[call.source] = 0
  /\ queue \in Seq(net.nodes)
  /\ \A i \in 1 .. Len(queue) : level[queue[i]] >= 0
  /\ level[call.sink] < 0 =>
       \A a \in Arcs(net) :
         Residual(a) > 0 /\ level[net.tail[a]] >= 0 /\ level[net.head[a]] < 0 =>
           \E i \in 1 .. Len(queue) : queue[i] = net.tail[a]

\* The nodes the last level graph reached.
Ranked == {v \in net.nodes : level[v] >= 0}

\* They hold the source and not the sink, and the flow fills every arc that
\* leads out of them.
SaturatedCut ==
  /\ call.source \in Ranked /\ call.sink \notin Ranked
  /\ \A a \in Arcs(net) :
       net.tail[a] \in Ranked /\ net.head[a] \notin Ranked => Residual(a) = 0

\* A solve that ended by itself pushed all it was asked for, or as much as the
\* network takes.
AnswerIsMaximal ==
  solver \in {"reach", "solved"} =>
    (call.limit # U64Max /\ total = call.limit) \/ SaturatedCut

SolverInv ==
  /\ solver \in Places
  /\ NetworkOK
  /\ FlowIsFeasible
  /\ solver # "idle" => CallOK
  /\ solver = "levels" => LevelsOK
  /\ solver = "search" => PathOK
  /\ AnswerIsMaximal

-----------------------------------------------------------------------------
(* Facts about arcs, residuals and charges *)

\* A capacity that is cast never grows.
LEMMA SignedProperty ==
  ASSUME NEW x \in 0 .. U64Max
  PROVE  Signed(x) \in Int /\ Signed(x) <= x
BY CheckedAssumption DEF Signed

\* Arcs come in pairs.
LEMMA PartnerProperty ==
  ASSUME NEW n, IsNetwork(n), NEW a \in Arcs(n)
  PROVE  /\ a \in Nat
         /\ Partner(a) \in Arcs(n) /\ Partner(a) # a /\ Partner(Partner(a)) = a
         /\ n.tail[a] \in n.nodes /\ n.head[a] \in n.nodes
         /\ n.tail[Partner(a)] = n.head[a] /\ n.head[Partner(a)] = n.tail[a]
<1>1. n.tail \in Seq(n.nodes) /\ n.head \in Seq(n.nodes) /\ Len(n.head) = Len(n.tail)
  BY DEF IsNetwork
<1>2. /\ Len(n.tail) \in Nat /\ Arcs(n) = 1 .. Len(n.tail)
      /\ n.tail \in [1 .. Len(n.tail) -> n.nodes] /\ n.head \in [1 .. Len(n.tail) -> n.nodes]
  BY <1>1, LenProperties DEF Arcs
<1>3. PICK k \in 0 .. Len(n.tail) : Len(n.tail) = 2 * k
  BY DEF IsNetwork
<1>4. a \in Nat /\ 1 <= a /\ a <= 2 * k /\ k \in Nat
  BY <1>2, <1>3
<1>5. Partner(a) \in 1 .. (2 * k) /\ Partner(a) # a /\ Partner(Partner(a)) = a
  <2>1. CASE a % 2 = 1
    <3>1. a + 1 <= 2 * k /\ (a + 1) % 2 # 1
      BY <1>4, <2>1
    <3>2. Partner(a) = a + 1 /\ Partner(a + 1) = a
      BY <1>4, <2>1, <3>1 DEF Partner
    <3>3. QED
      BY <1>4, <3>1, <3>2
  <2>2. CASE a % 2 # 1
    <3>1. 1 <= a - 1 /\ (a - 1) % 2 = 1
      BY <1>4, <2>2
    <3>2. Partner(a) = a - 1 /\ Partner(a - 1) = a
      BY <1>4, <2>2, <3>1 DEF Partner
    <3>3. QED
      BY <1>4, <3>1, <3>2
  <2>3. QED
    BY <2>1, <2>2
<1>6. n.tail[Partner(a)] = n.head[a] /\ n.head[Partner(a)] = n.tail[a]
  BY DEF IsNetwork
<1>7. QED
  BY <1>2, <1>3, <1>4, <1>5, <1>6

\* What is left of an arc fits under its capacity.
LEMMA ResidualProperty ==
  ASSUME NEW A, NEW c \in [A -> 0 .. U64Max], NEW f \in [A -> Int], NEW a \in A
  PROVE  /\ ResidualOf(c, f, a) \in Nat
         /\ ResidualOf(c, f, a) > 0 => f[a] + ResidualOf(c, f, a) <= c[a]
<1>1. c[a] \in 0 .. U64Max /\ f[a] \in Int
  OBVIOUS
<1>2. c[a] \in Int /\ Signed(c[a]) \in Int /\ Signed(c[a]) <= c[a]
  BY <1>1, SignedProperty, CheckedAssumption
<1>3. QED
  BY <1>1, <1>2 DEF ResidualOf

\* A charged step goes on where it wants to, or the call is over.
LEMMA ChargeProperty ==
  ASSUME NEW units, NEW next, Charge(units, next)
  PROVE  solver' \in {next, "exhausted", "cancelled"}
BY DEF Charge

\* An empty network fits its empty capacities.
LEMMA InitSolverInv ==
  ASSUME NEW nobody, FlowInit(nobody)
  PROVE  SolverInv
<1>1. Arcs(net) = {} /\ Len(net.tail) = 0 /\ Len(net.head) = 0
  BY DEF FlowInit, NoNetwork, Arcs
<1>2. IsNetwork(net)
  <2>1. net.tail \in Seq(net.nodes) /\ net.head \in Seq(net.nodes)
    BY DEF FlowInit, NoNetwork
  <2>2. QED
    BY <1>1, <2>1 DEF IsNetwork
<1>3. cap \in [Arcs(net) -> 0 .. U64Max] /\ flow \in [Arcs(net) -> Int]
  BY <1>1 DEF FlowInit
<1>4. QED
  BY <1>1, <1>2, <1>3
     DEF FlowInit, SolverInv, NetworkOK, Capacitated, FlowIsFeasible, AnswerIsMaximal, Places

-----------------------------------------------------------------------------
(* What the owner of the network does between two calls *)

\* A network without flow is feasible whatever its capacities are.
LEMMA NoFlowProperty ==
  ASSUME NEW n, IsNetwork(n), NEW c, Capacitated(n, c)
  PROVE  /\ NoFlow(n) \in [Arcs(n) -> Int]
         /\ \A a \in Arcs(n) : /\ NoFlow(n)[a] + NoFlow(n)[Partner(a)] = 0
                             /\ NoFlow(n)[a] <= c[a]
<1>1. NoFlow(n) \in [Arcs(n) -> Int]
  BY DEF NoFlow
<1>2. ASSUME NEW a \in Arcs(n)
      PROVE  NoFlow(n)[a] + NoFlow(n)[Partner(a)] = 0 /\ NoFlow(n)[a] <= c[a]
  <2>1. Partner(a) \in Arcs(n)
    BY PartnerProperty
  <2>2. NoFlow(n)[a] = 0 /\ NoFlow(n)[Partner(a)] = 0
    BY <2>1 DEF NoFlow
  <2>3. c[a] \in 0 .. U64Max
    BY DEF Capacitated
  <2>4. 0 <= c[a]
    BY <2>3
  <2>5. QED
    BY <2>2, <2>4
<1>3. QED
  BY <1>1, <1>2

LEMMA BuildPreserves ==
  ASSUME SolverInv, Build(net', cap')
  PROVE  SolverInv'
<1>1. /\ solver = "idle" /\ solver' = "idle"
      /\ IsNetwork(net') /\ Capacitated(net', cap') /\ flow' = NoFlow(net')
  BY DEF Build
<1>2. NetworkOK' /\ FlowIsFeasible'
  BY <1>1, NoFlowProperty DEF NetworkOK, FlowIsFeasible
<1>3. QED
  BY <1>1, <1>2 DEF SolverInv, AnswerIsMaximal, Places

LEMMA ResetPreserves ==
  ASSUME SolverInv, Reset(cap')
  PROVE  SolverInv'
<1>1. /\ solver = "idle" /\ solver' = "idle" /\ net' = net
      /\ IsNetwork(net') /\ Capacitated(net', cap') /\ flow' = NoFlow(net')
  BY DEF Reset, SolverInv, NetworkOK
<1>2. NetworkOK' /\ FlowIsFeasible'
  BY <1>1, NoFlowProperty DEF NetworkOK, FlowIsFeasible
<1>3. QED
  BY <1>1, <1>2 DEF SolverInv, AnswerIsMaximal, Places

\* Raised capacities hold the flow that the old ones held.
LEMMA RaisePreserves ==
  ASSUME SolverInv, Raise(cap')
  PROVE  SolverInv'
<1>1. /\ solver = "idle" /\ solver' = "idle" /\ net' = net /\ flow' = flow
      /\ IsNetwork(net) /\ Capacitated(net, cap) /\ Capacitated(net, cap')
      /\ flow \in [Arcs(net) -> Int] /\ \A a \in Arcs(net) : cap'[a] >= cap[a]
  BY DEF Raise, SolverInv, NetworkOK
<1>2. NetworkOK'
  BY <1>1 DEF NetworkOK
<1>3. ASSUME NEW a \in Arcs(net)
      PROVE  flow'[a] + flow'[Partner(a)] = 0 /\ flow'[a] <= cap'[a]
  <2>1. flow[a] + flow[Partner(a)] = 0 /\ flow[a] <= cap[a]
    BY DEF SolverInv, FlowIsFeasible
  <2>2. flow[a] \in Int /\ cap[a] \in Int /\ cap'[a] \in Int /\ cap'[a] >= cap[a]
    BY <1>1, CheckedAssumption DEF Capacitated
  <2>3. QED
    BY <1>1, <2>1, <2>2
<1>4. FlowIsFeasible'
  BY <1>1, <1>3 DEF FlowIsFeasible
<1>5. QED
  BY <1>1, <1>2, <1>4 DEF SolverInv, AnswerIsMaximal, Places

-----------------------------------------------------------------------------
(* The steps of a call *)

\* A step that moves no flow leaves it feasible.
LEMMA StillFeasible ==
  ASSUME SolverInv, UNCHANGED <<net, cap, flow>>
  PROVE  /\ NetworkOK' /\ FlowIsFeasible'
         /\ \A a : Residual(a)' = Residual(a)
BY DEF SolverInv, NetworkOK, FlowIsFeasible, Residual

\* A call that was given up has nothing to promise but its shape.
LEMMA GivenUp ==
  ASSUME solver' \in {"exhausted", "cancelled"}, NetworkOK', FlowIsFeasible', CallOK'
  PROVE  SolverInv'
BY DEF SolverInv, AnswerIsMaximal, Places

LEMMA OneInQueue ==
  ASSUME NEW S, NEW x \in S
  PROVE  <<x>> \in Seq(S) /\ Len(<<x>>) = 1 /\ <<x>>[1] = x
OBVIOUS

\* A new level graph begins with the source.
LEMMA FreshLevels ==
  ASSUME IsNetwork(net'), call'.source \in net'.nodes,
         level' = [v \in net'.nodes |-> IF v = call'.source THEN 0 ELSE -1],
         queue' = <<call'.source>>
  PROVE  level' \in [net'.nodes -> Int] /\ LevelsOK'
<1>1. level' \in [net'.nodes -> Int] /\ level'[call'.source] = 0
  OBVIOUS
<1>2. /\ queue' \in Seq(net'.nodes) /\ Len(queue') = 1 /\ queue'[1] = call'.source
  BY OneInQueue
<1>3. \A i \in 1 .. Len(queue') : level'[queue'[i]] >= 0
  BY <1>1, <1>2
<1>4. ASSUME NEW a \in Arcs(net'), level'[net'.tail[a]] >= 0
      PROVE  \E i \in 1 .. Len(queue') : queue'[i] = net'.tail[a]
  <2>1. net'.tail[a] \in net'.nodes
    BY PartnerProperty
  <2>2. net'.tail[a] = call'.source
    BY <1>4, <2>1
  <2>3. QED
    BY <1>2, <2>2
<1>5. QED
  BY <1>1, <1>2, <1>3, <1>4 DEF LevelsOK

LEMMA SolvePreserves ==
  ASSUME SolverInv, Solve(call'.source, call'.sink, call'.limit, call'.budget)
  PROVE  SolverInv'
<1>1. /\ call'.source \in net.nodes /\ call'.sink \in net.nodes \ {call'.source}
      /\ call'.limit \in 0 .. U64Max /\ total' = 0
      /\ solver' \in {"cancelled", "levels"}
      /\ level' = [v \in net.nodes |-> IF v = call'.source THEN 0 ELSE -1]
      /\ queue' = <<call'.source>>
      /\ UNCHANGED <<net, cap, flow>>
  BY DEF Solve
<1>2. NetworkOK' /\ FlowIsFeasible'
  BY <1>1, StillFeasible
<1>3. level' \in [net'.nodes -> Int] /\ LevelsOK'
  BY <1>1, <1>2, FreshLevels DEF NetworkOK
<1>4. CallOK'
  BY <1>1, <1>3, CheckedAssumption DEF CallOK
<1>5. QED
  BY <1>1, <1>2, <1>3, <1>4 DEF SolverInv, AnswerIsMaximal, Places

\* The arcs of a network: positions, with ends that are nodes.
LEMMA ArcsProperty ==
  ASSUME SolverInv
  PROVE  /\ Len(net.tail) \in Nat /\ Arcs(net) = 1 .. Len(net.tail)
         /\ \A a \in Arcs(net) : /\ net.tail[a] \in net.nodes /\ net.head[a] \in net.nodes
                                /\ Residual(a) \in Nat
<1>1. IsNetwork(net) /\ net.tail \in Seq(net.nodes)
  BY DEF SolverInv, NetworkOK, IsNetwork
<1>2. Len(net.tail) \in Nat /\ Arcs(net) = 1 .. Len(net.tail)
  BY <1>1, LenProperties DEF Arcs
<1>3. cap \in [Arcs(net) -> 0 .. U64Max] /\ flow \in [Arcs(net) -> Int]
  BY DEF SolverInv, NetworkOK, Capacitated
<1>4. ASSUME NEW a \in Arcs(net)
      PROVE  /\ net.tail[a] \in net.nodes /\ net.head[a] \in net.nodes
             /\ Residual(a) \in Nat
  BY <1>1, <1>3, PartnerProperty, ResidualProperty DEF Residual
<1>5. QED
  BY <1>2, <1>4

\* What a scan takes reaches every node that its node can send to and that has
\* no level, unless it reaches the sink.
LEMMA TakenProperty ==
  ASSUME SolverInv, NEW v,
         call.sink \notin {net.head[a] : a \in Taken(v)},
         NEW a \in Reaching(v)
  PROVE  \E b \in Taken(v) : net.head[b] = net.head[a]
<1> DEFINE first(w) == {b \in Reaching(v) : net.head[b] = w}
<1>1. Reaching(v) \subseteq Nat
  BY ArcsProperty DEF Reaching, Out
<1>2. ASSUME NEW b \in Reaching(v) PROVE net.head[b] # call.sink
  <2>1. SUFFICES ASSUME net.head[b] = call.sink PROVE FALSE
    OBVIOUS
  <2>2. first(call.sink) \in SUBSET Nat /\ first(call.sink) # {}
    BY <1>1, <2>1
  <2>3. PICK m \in first(call.sink) : \A n \in first(call.sink) : m <= n
    <3> HIDE DEF first
    <3>1. QED
      BY <2>2, LeastMember
  <2>4. \A c \in Reaching(v) : c < m => net.head[c] # call.sink
    BY <1>1, <2>3
  <2>5. m \in Taken(v)
    BY <2>3, <2>4 DEF Taken
  <2>6. QED
    BY <2>3, <2>5
<1>3. first(net.head[a]) \in SUBSET Nat /\ first(net.head[a]) # {}
  BY <1>1
<1>4. PICK m \in first(net.head[a]) : \A n \in first(net.head[a]) : m <= n
  <2> HIDE DEF first
  <2>1. QED
    BY <1>3, LeastMember
<1>5. \A c \in Reaching(v) : c < m => net.head[c] # net.head[a]
  BY <1>1, <1>4
<1>6. m \in Taken(v)
  BY <1>2, <1>4, <1>5 DEF Taken
<1>7. QED
  BY <1>4, <1>6

\* The nodes a scan appends to the queue are those its arcs lead to.
LEMMA HeadsProperty ==
  ASSUME SolverInv, NEW S \in SUBSET Arcs(net)
  PROVE  /\ Heads(InOrder(S)) \in Seq(net.nodes)
         /\ \A i \in 1 .. Len(Heads(InOrder(S))) :
              \E a \in S : Heads(InOrder(S))[i] = net.head[a]
         /\ \A a \in S : \E i \in 1 .. Len(Heads(InOrder(S))) :
              Heads(InOrder(S))[i] = net.head[a]
<1> DEFINE n == Cardinality(S)
           e == InOrder(S)
           h == Heads(e)
<1>1. Len(net.tail) \in Nat /\ S \in SUBSET (1 .. Len(net.tail))
  BY ArcsProperty
<1>2. n \in Nat /\ e \in [1 .. n -> S]
  BY <1>1, InOrderType
<1>3. \A a \in S : \E i \in 1 .. n : e[i] = a
  BY <1>1, InOrderComplete
<1>4. \A a \in S : net.head[a] \in net.nodes
  BY ArcsProperty
<1> HIDE DEF n, e
<1>5. h = [i \in 1 .. n |-> net.head[e[i]]]
  BY <1>2 DEF Heads
<1>6. \A i \in 1 .. n : h[i] = net.head[e[i]] /\ e[i] \in S
  BY <1>2, <1>5
<1>7. h \in Seq(net.nodes) /\ Len(h) = n
  BY <1>2, <1>4, <1>5, <1>6
<1> HIDE DEF h
<1>8. \A i \in 1 .. Len(h) : \E a \in S : h[i] = net.head[a]
  BY <1>6, <1>7
<1>9. \A a \in S : \E i \in 1 .. Len(h) : h[i] = net.head[a]
  BY <1>3, <1>6, <1>7
<1>10. QED
  BY <1>7, <1>8, <1>9 DEF h, e

LEMMA ScanPreserves ==
  ASSUME SolverInv, Scan
  PROVE  SolverInv'
<1> DEFINE v == Head(queue)
           found == {net.head[a] : a \in Taken(v)}
           onward == {a \in Taken(v) : net.head[a] # call.sink}
           new == Heads(InOrder(onward))
<1>1. /\ solver = "levels" /\ queue # <<>>
      /\ level' = [w \in net.nodes |-> IF w \in found THEN level[v] + 1 ELSE level[w]]
      /\ queue' = Tail(queue) \o new
      /\ UNCHANGED <<net, cap, flow, path, call, total>>
  BY DEF Scan
<1>2. NetworkOK' /\ FlowIsFeasible' /\ \A a : Residual(a)' = Residual(a)
  BY <1>1, StillFeasible
<1>3. /\ CallOK /\ LevelsOK /\ queue \in Seq(net.nodes) /\ level \in [net.nodes -> Int]
  BY <1>1 DEF SolverInv, CallOK, LevelsOK
<1>4. /\ Len(queue) \in Nat /\ Len(queue) >= 1 /\ v = queue[1] /\ v \in net.nodes
      /\ Tail(queue) \in Seq(net.nodes) /\ Len(Tail(queue)) = Len(queue) - 1
      /\ \A i \in 1 .. (Len(queue) - 1) : Tail(queue)[i] = queue[i + 1]
  BY <1>1, <1>3, LenProperties, HeadTailProperties
<1>5. Taken(v) \subseteq Reaching(v) /\ Reaching(v) \subseteq Arcs(net) /\ onward \subseteq Arcs(net)
  BY DEF Taken, Reaching, Out
<1>6. /\ new \in Seq(net.nodes)
      /\ \A i \in 1 .. Len(new) : \E a \in onward : new[i] = net.head[a]
      /\ \A a \in onward : \E i \in 1 .. Len(new) : new[i] = net.head[a]
  <2> HIDE DEF onward
  <2>1. QED
    BY <1>5, HeadsProperty
<1> DEFINE old == Tail(queue)
<1> HIDE DEF v, new, old
<1>7. /\ Len(new) \in Nat /\ Len(old) = Len(queue) - 1
      /\ queue' \in Seq(net.nodes) /\ Len(queue') = Len(old) + Len(new)
      /\ \A i \in 1 .. Len(old) : queue'[i] = old[i]
      /\ \A i \in 1 .. Len(new) : queue'[Len(old) + i] = new[i]
  BY <1>1, <1>4, <1>6, ConcatProperties, LenProperties DEF old
<1>8. \A w \in found : w \in net.nodes /\ level[w] < 0
  BY <1>5, ArcsProperty DEF Reaching
<1>9. level[v] \in Int /\ level[v] >= 0
  BY <1>3, <1>4 DEF LevelsOK
<1>10. /\ level' \in [net.nodes -> Int]
       /\ \A w \in net.nodes : level[w] >= 0 => level'[w] = level[w]
       /\ \A w \in found : level'[w] >= 0
       /\ \A w \in net.nodes \ found : level'[w] = level[w]
  BY <1>1, <1>3, <1>8, <1>9
<1>11. level'[call.source] = 0
  BY <1>3, <1>10 DEF CallOK, LevelsOK
<1>12. ASSUME NEW i \in 1 .. Len(queue') PROVE level'[queue'[i]] >= 0
  <2>1. CASE i <= Len(old)
    <3>1. queue'[i] = queue[i + 1] /\ i + 1 \in 1 .. Len(queue)
      BY <1>4, <1>7, <2>1 DEF old
    <3>2. level[queue[i + 1]] >= 0 /\ queue[i + 1] \in net.nodes
      BY <1>3, <3>1 DEF LevelsOK
    <3>3. QED
      BY <1>10, <3>1, <3>2
  <2>2. CASE ~ (i <= Len(old))
    <3>1. i - Len(old) \in 1 .. Len(new) /\ queue'[i] = new[i - Len(old)]
      BY <1>4, <1>7, <2>2
    <3>2. PICK a \in onward : new[i - Len(old)] = net.head[a]
      BY <1>6, <3>1
    <3>3. QED
      BY <1>10, <3>1, <3>2
  <2>3. QED
    BY <2>1, <2>2
<1>13. ASSUME level'[call.sink] < 0,
              NEW a \in Arcs(net), Residual(a) > 0,
              level'[net.tail[a]] >= 0, level'[net.head[a]] < 0
       PROVE  \E i \in 1 .. Len(queue') : queue'[i] = net.tail[a]
  <2>1. net.tail[a] \in net.nodes /\ net.head[a] \in net.nodes /\ call.sink \in net.nodes
    BY <1>3, ArcsProperty DEF CallOK
  <2>2. call.sink \notin found /\ level[call.sink] < 0
    BY <1>10, <1>13, <2>1
  <2>3. net.head[a] \notin found /\ level[net.head[a]] < 0
    BY <1>10, <1>13, <2>1
  <2>4. CASE net.tail[a] \in found
    <3>1. PICK b \in Taken(v) : net.head[b] = net.tail[a]
      BY <2>4
    <3>2. b \in onward
      BY <2>2, <2>4, <3>1
    <3>3. PICK i \in 1 .. Len(new) : new[i] = net.tail[a]
      BY <1>6, <3>1, <3>2
    <3>4. Len(old) + i \in 1 .. Len(queue') /\ queue'[Len(old) + i] = net.tail[a]
      BY <1>4, <1>7, <3>3
    <3>5. QED
      BY <3>4
  <2>5. CASE net.tail[a] \notin found
    <3>1. level[net.tail[a]] >= 0
      BY <1>10, <1>13, <2>1, <2>5
    <3>2. PICK i \in 1 .. Len(queue) : queue[i] = net.tail[a]
      BY <1>3, <1>13, <2>2, <2>3, <3>1 DEF LevelsOK
    <3>3. i # 1
      <4>1. SUFFICES ASSUME i = 1 PROVE FALSE
        OBVIOUS
      <4>2. a \in Reaching(v)
        BY <1>4, <1>13, <2>3, <3>2, <4>1 DEF Reaching, Out
      <4>3. \E b \in Taken(v) : net.head[b] = net.head[a]
        BY <2>2, <4>2, TakenProperty
      <4>4. QED
        BY <2>3, <4>3
    <3>4. i - 1 \in 1 .. Len(old) /\ queue'[i - 1] = net.tail[a]
      BY <1>4, <1>7, <3>2, <3>3 DEF old
    <3>5. i - 1 \in 1 .. Len(queue')
      BY <1>4, <1>7, <3>4
    <3>6. QED
      BY <3>4, <3>5
  <2>6. QED
    BY <2>4, <2>5
<1>14. LevelsOK'
  <2> HIDE DEF found
  <2>1. call' = call /\ net' = net
    BY <1>1
  <2>2. QED
    BY <1>2, <1>7, <1>11, <1>12, <1>13, <2>1 DEF LevelsOK
<1>15. CallOK'
  BY <1>1, <1>3, <1>10 DEF CallOK
<1>16. solver' \in {"levels", "exhausted", "cancelled"}
  BY ChargeProperty DEF Scan
<1>17. CASE solver' = "levels"
  BY <1>2, <1>14, <1>15, <1>17 DEF SolverInv, AnswerIsMaximal, Places
<1>18. QED
  BY <1>2, <1>15, <1>16, <1>17, GivenUp

\* When the search ends without the sink, the nodes it reached are a saturated
\* cut.
LEMMA LevelledPreserves ==
  ASSUME SolverInv, Levelled
  PROVE  SolverInv'
<1>1. /\ solver = "levels" /\ queue = <<>> /\ path' = <<>>
      /\ solver' = IF level[call.sink] < 0 THEN "reach" ELSE "search"
      /\ UNCHANGED <<net, cap, flow, level, call, total>>
  BY DEF Levelled
<1>2. NetworkOK' /\ FlowIsFeasible' /\ \A a : Residual(a)' = Residual(a)
  BY <1>1, StillFeasible
<1>3. CallOK /\ LevelsOK /\ CallOK'
  BY <1>1 DEF SolverInv, CallOK
<1>4. CASE level[call.sink] < 0
  <2>1. ASSUME NEW a \in Arcs(net), net.tail[a] \in Ranked, net.head[a] \notin Ranked
        PROVE  Residual(a) = 0
    <3>1. level[net.tail[a]] >= 0 /\ level[net.head[a]] < 0 /\ Residual(a) \in Nat
      BY <1>3, <2>1, ArcsProperty DEF Ranked, CallOK
    <3>2. ~ \E i \in 1 .. Len(queue) : queue[i] = net.tail[a]
      BY <1>1
    <3>3. ~ (Residual(a) > 0)
      BY <1>3, <1>4, <3>1, <3>2 DEF LevelsOK
    <3>4. QED
      BY <3>1, <3>3
  <2>2. call.source \in Ranked /\ call.sink \notin Ranked
    BY <1>3, <1>4 DEF Ranked, CallOK, LevelsOK
  <2>3. Ranked' = Ranked
    BY <1>1 DEF Ranked
  <2>4. SaturatedCut'
    BY <1>1, <1>2, <2>1, <2>2, <2>3 DEF SaturatedCut
  <2>5. solver' = "reach"
    BY <1>1, <1>4
  <2>6. QED
    BY <1>2, <1>3, <2>4, <2>5 DEF SolverInv, AnswerIsMaximal, Places
<1>5. CASE ~ (level[call.sink] < 0)
  <2>1. solver' = "search"
    BY <1>1, <1>5
  <2>2. PathOK'
    BY <1>1, <1>3 DEF PathOK, LevelsOK
  <2>3. QED
    BY <1>2, <1>3, <2>1, <2>2 DEF SolverInv, AnswerIsMaximal, Places
<1>6. QED
  BY <1>4, <1>5

\* The node at the end of the path is as high in the level graph as the path is
\* long.
LEMMA TopProperty ==
  ASSUME SolverInv, solver = "search"
  PROVE  /\ CallOK /\ PathOK
         /\ Len(path) \in Nat /\ path \in [1 .. Len(path) -> Arcs(net)]
         /\ Top \in net.nodes /\ level[Top] = Len(path)
         /\ path = <<>> => Len(path) = 0
         /\ path # <<>> => Len(path) >= 1
<1>1. CallOK /\ PathOK
  BY DEF SolverInv
<1>2. Len(path) \in Nat /\ path \in [1 .. Len(path) -> Arcs(net)]
  BY <1>1, LenProperties DEF PathOK
<1>3. CASE path = <<>>
  BY <1>1, <1>2, <1>3 DEF Top, CallOK, PathOK
<1>4. CASE path # <<>>
  <2>1. Len(path) >= 1
    BY <1>1, <1>2, <1>4, EmptySeq DEF PathOK
  <2>2. path[Len(path)] \in Arcs(net) /\ level[net.head[path[Len(path)]]] = Len(path)
    BY <1>1, <1>2, <2>1 DEF PathOK
  <2>3. QED
    BY <1>1, <1>2, <1>4, <2>1, <2>2, ArcsProperty DEF Top
<1>5. QED
  BY <1>3, <1>4

LEMMA AdvancePreserves ==
  ASSUME SolverInv, Advance
  PROVE  SolverInv'
<1>1. solver = "search" /\ UNCHANGED <<net, cap, flow, level, call, total>>
  BY DEF Advance
<1>2. PICK a \in Open(Top) : path' = Append(path, a)
  BY DEF Advance
<1>3. NetworkOK' /\ FlowIsFeasible' /\ \A b : Residual(b)' = Residual(b)
  BY <1>1, StillFeasible
<1>4. /\ CallOK /\ PathOK /\ Len(path) \in Nat /\ level[Top] = Len(path)
      /\ path \in Seq(Arcs(net))
  BY <1>1, TopProperty DEF PathOK
<1>5. /\ a \in Arcs(net) /\ net.tail[a] = Top /\ Residual(a) > 0
      /\ level[net.head[a]] = Len(path) + 1
  BY <1>4 DEF Open, Out
<1>6. /\ path' \in Seq(Arcs(net)) /\ Len(path') = Len(path) + 1
      /\ \A i \in 1 .. Len(path) : path'[i] = path[i]
      /\ path'[Len(path) + 1] = a
  BY <1>2, <1>4, <1>5, AppendProperties
<1>7. ASSUME NEW i \in 1 .. Len(path')
      PROVE  /\ level[net.tail[path'[i]]] = i - 1
             /\ level[net.head[path'[i]]] = i
             /\ Residual(path'[i]) > 0
  <2>1. CASE i = Len(path) + 1
    BY <1>4, <1>5, <1>6, <2>1
  <2>2. CASE i # Len(path) + 1
    <3>1. i \in 1 .. Len(path) /\ path'[i] = path[i]
      BY <1>4, <1>6, <2>2
    <3>2. QED
      BY <1>4, <3>1 DEF PathOK
  <2>3. QED
    BY <2>1, <2>2
<1>8. PathOK'
  <2>1. level'[call'.source] = 0 /\ Arcs(net)' = Arcs(net) /\ path' \in Seq(Arcs(net)')
    BY <1>1, <1>4, <1>6 DEF PathOK
  <2>2. \A i \in 1 .. Len(path') : /\ level'[net'.tail[path'[i]]] = i - 1
                                  /\ level'[net'.head[path'[i]]] = i
                                  /\ ResidualOf(cap', flow', path'[i]) > 0
    BY <1>1, <1>7 DEF Residual
  <2>3. QED
    BY <2>1, <2>2 DEF PathOK, Residual
<1>9. CallOK'
  BY <1>1, <1>4 DEF CallOK
<1>10. solver' \in {"search", "exhausted", "cancelled"}
  BY ChargeProperty DEF Advance
<1>11. CASE solver' = "search"
  BY <1>3, <1>8, <1>9, <1>11 DEF SolverInv, AnswerIsMaximal, Places
<1>12. QED
  BY <1>3, <1>9, <1>10, <1>11, GivenUp

\* The end of the path is given up: the nodes before it are lower, and keep
\* their levels.
LEMMA RetreatPreserves ==
  ASSUME SolverInv, Retreat
  PROVE  SolverInv'
<1>1. solver = "search" /\ UNCHANGED <<net, cap, flow, call, total>>
  BY DEF Retreat
<1>2. NetworkOK' /\ FlowIsFeasible' /\ \A b : Residual(b)' = Residual(b)
  BY <1>1, StillFeasible
<1>3. /\ CallOK /\ PathOK /\ Len(path) \in Nat /\ Top \in net.nodes /\ level[Top] = Len(path)
      /\ path \in Seq(Arcs(net)) /\ path \in [1 .. Len(path) -> Arcs(net)]
  BY <1>1, TopProperty DEF PathOK
<1>4. CASE path = <<>>
  <2>1. /\ level' = [v \in net.nodes |-> IF v = call.source THEN 0 ELSE -1]
        /\ queue' = <<call.source>>
        /\ Charge(Cardinality(Out(Top)) + 1, "levels")
    BY <1>4 DEF Retreat
  <2>2. level' \in [net'.nodes -> Int] /\ LevelsOK'
    BY <1>1, <1>2, <1>3, <2>1, FreshLevels DEF NetworkOK, CallOK
  <2>3. CallOK'
    BY <1>1, <1>3, <2>2 DEF CallOK
  <2>4. solver' \in {"levels", "exhausted", "cancelled"}
    BY <2>1, ChargeProperty
  <2>5. CASE solver' = "levels"
    BY <1>2, <2>2, <2>3, <2>5 DEF SolverInv, AnswerIsMaximal, Places
  <2>6. QED
    BY <1>2, <2>3, <2>4, <2>5, GivenUp
<1>5. CASE path # <<>>
  <2>1. /\ level' = [v \in net.nodes |-> IF v = Top THEN -1 ELSE level[v]]
        /\ path' = SubSeq(path, 1, Len(path) - 1)
        /\ Charge(Cardinality(Out(Top)) + 1, "search")
    BY <1>5 DEF Retreat
  <2>2. Len(path) >= 1
    BY <1>1, <1>5, TopProperty
  <2>3. /\ path' \in Seq(Arcs(net)) /\ Len(path') = Len(path) - 1
        /\ \A i \in 1 .. Len(path') : path'[i] = path[i] /\ i \in 1 .. Len(path) /\ i < Len(path)
    <3>1. \A i \in 1 .. (Len(path) - 1) : path[i] \in Arcs(net)
      BY <1>3
    <3>2. QED
      BY <1>3, <2>1, <2>2, <3>1, SubSeqProperties
  <2>4. level' \in [net.nodes -> Int] /\ level'[call.source] = 0
    BY <1>3, <2>1, <2>2 DEF CallOK, PathOK
  <2>5. ASSUME NEW i \in 1 .. Len(path')
        PROVE  /\ level'[net.tail[path'[i]]] = i - 1
               /\ level'[net.head[path'[i]]] = i
               /\ Residual(path'[i]) > 0
    <3>1. path'[i] = path[i] /\ i \in 1 .. Len(path) /\ i < Len(path) /\ path[i] \in Arcs(net)
      BY <1>3, <2>3
    <3>2. /\ level[net.tail[path[i]]] = i - 1 /\ level[net.head[path[i]]] = i
          /\ Residual(path[i]) > 0
      BY <1>3, <3>1 DEF PathOK
    <3>3. net.tail[path[i]] # Top /\ net.head[path[i]] # Top
      BY <1>3, <3>1, <3>2
    <3>4. net.tail[path[i]] \in net.nodes /\ net.head[path[i]] \in net.nodes
      BY <3>1, ArcsProperty
    <3>5. QED
      BY <2>1, <3>1, <3>2, <3>3, <3>4
  <2>6. PathOK'
    <3>1. level'[call'.source] = 0 /\ Arcs(net)' = Arcs(net) /\ path' \in Seq(Arcs(net)')
      BY <1>1, <2>3, <2>4
    <3>2. \A i \in 1 .. Len(path') : /\ level'[net'.tail[path'[i]]] = i - 1
                                    /\ level'[net'.head[path'[i]]] = i
                                    /\ ResidualOf(cap', flow', path'[i]) > 0
      BY <1>1, <2>5 DEF Residual
    <3>3. QED
      BY <3>1, <3>2 DEF PathOK, Residual
  <2>7. CallOK'
    BY <1>1, <1>3, <2>4 DEF CallOK
  <2>8. solver' \in {"search", "exhausted", "cancelled"}
    BY <2>1, ChargeProperty
  <2>9. CASE solver' = "search"
    BY <1>2, <2>6, <2>7, <2>9 DEF SolverInv, AnswerIsMaximal, Places
  <2>10. QED
    BY <1>2, <2>7, <2>8, <2>9, GivenUp
<1>6. QED
  BY <1>4, <1>5

\* What a path takes: as much as each of its arcs can take, and as much as the
\* limit leaves.
LEMMA BottleneckProperty ==
  ASSUME SolverInv, solver = "search",
         NEW b \in Bottlenecks, \A r \in Bottlenecks : b <= r
  PROVE  /\ b \in Nat
         /\ \A i \in 1 .. Len(path) : b <= Residual(path[i])
         /\ call.limit # U64Max => b <= Remaining
         /\ Remaining \in Nat
<1>1. CallOK /\ Len(path) \in Nat /\ path \in [1 .. Len(path) -> Arcs(net)]
  BY TopProperty
<1>2. Remaining \in Nat
  BY <1>1, CheckedAssumption DEF Remaining, CallOK
<1>3. \A i \in 1 .. Len(path) : Residual(path[i]) \in Nat /\ Residual(path[i]) \in Bottlenecks
  BY <1>1, ArcsProperty DEF Bottlenecks
<1>4. b \in Nat
  BY <1>1, <1>2, <1>3 DEF Bottlenecks
<1>5. call.limit # U64Max => Remaining \in Bottlenecks
  BY DEF Bottlenecks
<1>6. QED
  BY <1>2, <1>3, <1>4, <1>5

\* A path that rises holds no arc together with its partner, so that what is
\* pushed over it stays between an arc and its partner.
LEMMA PushedProperty ==
  ASSUME SolverInv, solver = "search",
         NEW b \in Nat, \A i \in 1 .. Len(path) : b <= Residual(path[i])
  PROVE  /\ Pushed(b) \in [Arcs(net) -> Int]
         /\ \A a \in Arcs(net) : /\ Pushed(b)[a] + Pushed(b)[Partner(a)] = 0
                                /\ Pushed(b)[a] <= cap[a]
<1> DEFINE P == {path[i] : i \in DOMAIN path}
<1>1. /\ CallOK /\ PathOK /\ Len(path) \in Nat /\ path \in [1 .. Len(path) -> Arcs(net)]
      /\ IsNetwork(net) /\ flow \in [Arcs(net) -> Int] /\ cap \in [Arcs(net) -> 0 .. U64Max]
  BY TopProperty DEF SolverInv, NetworkOK, Capacitated
<1>2. \A a \in Arcs(net) : flow[a] \in Int /\ cap[a] \in Int
  BY <1>1, CheckedAssumption
<1>3. ASSUME NEW a \in P
      PROVE  /\ a \in Arcs(net) /\ b <= Residual(a) /\ Residual(a) > 0
             /\ level[net.head[a]] = level[net.tail[a]] + 1 /\ level[net.tail[a]] \in Int
  <2>1. PICK i \in 1 .. Len(path) : a = path[i]
    BY <1>1
  <2>2. /\ level[net.tail[path[i]]] = i - 1 /\ level[net.head[path[i]]] = i
        /\ Residual(path[i]) > 0
    BY <1>1 DEF PathOK
  <2>3. QED
    BY <1>1, <2>1, <2>2
<1>4. ASSUME NEW a \in Arcs(net), a \in P PROVE Partner(a) \notin P
  <2>1. SUFFICES ASSUME Partner(a) \in P PROVE FALSE
    OBVIOUS
  <2>2. net.tail[Partner(a)] = net.head[a] /\ net.head[Partner(a)] = net.tail[a]
    BY <1>1, PartnerProperty
  <2>3. /\ level[net.head[a]] = level[net.tail[a]] + 1
        /\ level[net.tail[a]] = level[net.head[a]] + 1
        /\ level[net.tail[a]] \in Int
    BY <1>3, <1>4, <2>1, <2>2
  <2>4. QED
    BY <2>3
<1>5. \A a \in Arcs(net) :
        /\ a \in P => Pushed(b)[a] = flow[a] + b
        /\ a \notin P /\ Partner(a) \in P => Pushed(b)[a] = flow[a] - b
        /\ a \notin P /\ Partner(a) \notin P => Pushed(b)[a] = flow[a]
  <2>1. Pushed(b) = [a \in Arcs(net) |-> CASE a \in P -> flow[a] + b
                                          [] Partner(a) \in P -> flow[a] - b
                                          [] OTHER -> flow[a]]
    BY Zenon DEF Pushed
  <2> HIDE DEF P
  <2>2. ASSUME NEW a \in Arcs(net)
        PROVE  Pushed(b)[a] = CASE a \in P -> flow[a] + b
                                [] Partner(a) \in P -> flow[a] - b
                                [] OTHER -> flow[a]
    BY <2>1, Zenon
  <2>3. ASSUME NEW a \in Arcs(net), a \in P PROVE Pushed(b)[a] = flow[a] + b
    <3>1. Partner(a) \notin P
      BY <1>4, <2>3
    <3>2. QED
      BY <2>2, <2>3, <3>1
  <2>4. ASSUME NEW a \in Arcs(net), a \notin P PROVE
               Pushed(b)[a] = IF Partner(a) \in P THEN flow[a] - b ELSE flow[a]
    BY <2>2, <2>4
  <2>5. QED
    BY <2>3, <2>4
<1>6. Pushed(b) \in [Arcs(net) -> Int]
  BY <1>2 DEF Pushed
<1> HIDE DEF P
<1>7. ASSUME NEW a \in Arcs(net)
      PROVE  Pushed(b)[a] + Pushed(b)[Partner(a)] = 0 /\ Pushed(b)[a] <= cap[a]
  <2>1. /\ Partner(a) \in Arcs(net) /\ Partner(Partner(a)) = a
        /\ flow[a] + flow[Partner(a)] = 0 /\ flow[a] <= cap[a]
        /\ flow[a] \in Int /\ flow[Partner(a)] \in Int /\ cap[a] \in Int
    BY <1>1, <1>2, PartnerProperty DEF SolverInv, FlowIsFeasible
  <2>2. CASE a \in P
    <3>1. Pushed(b)[a] = flow[a] + b /\ Pushed(b)[Partner(a)] = flow[Partner(a)] - b
      BY <1>4, <1>5, <2>1, <2>2
    <3>2. b <= Residual(a) /\ Residual(a) > 0 /\ Residual(a) \in Nat
      BY <1>3, <2>2, ArcsProperty
    <3>3. flow[a] + Residual(a) <= cap[a]
      BY <1>1, <3>2, ResidualProperty DEF Residual
    <3>4. QED
      BY <2>1, <3>1, <3>2, <3>3
  <2>3. CASE a \notin P /\ Partner(a) \in P
    <3>1. Pushed(b)[a] = flow[a] - b /\ Pushed(b)[Partner(a)] = flow[Partner(a)] + b
      BY <1>5, <2>1, <2>3
    <3>2. QED
      BY <2>1, <3>1
  <2>4. CASE a \notin P /\ Partner(a) \notin P
    <3>1. Pushed(b)[a] = flow[a] /\ Pushed(b)[Partner(a)] = flow[Partner(a)]
      BY <1>5, <2>1, <2>4
    <3>2. QED
      BY <2>1, <3>1
  <2>5. QED
    BY <2>2, <2>3, <2>4
<1>8. QED
  BY <1>6, <1>7

LEMMA AugmentPreserves ==
  ASSUME SolverInv, Augment
  PROVE  SolverInv'
<1>1. solver = "search" /\ UNCHANGED <<net, cap, level, queue, call>>
  BY DEF Augment
<1>2. PICK b \in Bottlenecks :
        /\ \A r \in Bottlenecks : b <= r
        /\ b > 0 /\ flow' = Pushed(b) /\ total' = total + b
  BY DEF Augment
<1>3. /\ b \in Nat /\ Remaining \in Nat
      /\ \A i \in 1 .. Len(path) : b <= Residual(path[i])
      /\ call.limit # U64Max => b <= Remaining
  BY <1>1, <1>2, BottleneckProperty
<1>4. NetworkOK' /\ FlowIsFeasible'
  BY <1>1, <1>2, <1>3, PushedProperty DEF NetworkOK, FlowIsFeasible, SolverInv
<1>5. /\ CallOK /\ PathOK /\ Len(path) \in Nat
      /\ path \in Seq(Arcs(net)) /\ path \in [1 .. Len(path) -> Arcs(net)]
  BY <1>1, TopProperty DEF PathOK
<1>6. CallOK'
  <2>1. total' \in Nat /\ (call.limit # U64Max => total' <= call.limit)
    BY <1>2, <1>3, <1>5, CheckedAssumption DEF CallOK, Remaining
  <2>2. QED
    BY <1>1, <1>5, <2>1 DEF CallOK
<1> DEFINE saturated == {i \in DOMAIN path : ResidualOf(cap, flow', path[i]) = 0}
           kept == IF saturated = {} THEN 0
                   ELSE (CHOOSE i \in saturated : \A j \in saturated : i <= j) - 1
<1>7. path' = SubSeq(path, 1, kept)
  BY DEF Augment
<1>8. /\ kept \in 0 .. Len(path)
      /\ \A i \in 1 .. kept : i \in DOMAIN path /\ i \notin saturated
  <2>1. CASE saturated = {}
    BY <1>5, <2>1
  <2>2. CASE saturated # {}
    <3>1. saturated \in SUBSET Nat /\ saturated \subseteq 1 .. Len(path)
      BY <1>5
    <3> HIDE DEF saturated
    <3>2. \E i \in saturated : \A j \in saturated : i <= j
      BY <2>2, <3>1, LeastMember
    <3>3. PICK m \in saturated : (\A j \in saturated : m <= j) /\ kept = m - 1
      BY <2>2, <3>2
    <3>4. \A i \in 1 .. kept : i \in Nat /\ i < m
      BY <3>1, <3>3
    <3>5. \A i \in 1 .. kept : i \in 1 .. Len(path) /\ i \notin saturated
      BY <1>5, <3>1, <3>3, <3>4
    <3>6. QED
      BY <1>5, <3>1, <3>3, <3>5
  <2>3. QED
    BY <2>1, <2>2
<1>9. \A i \in 1 .. kept : ResidualOf(cap, flow', path[i]) > 0
  <2>1. flow' \in [Arcs(net) -> Int] /\ cap \in [Arcs(net) -> 0 .. U64Max]
    BY <1>1, <1>4 DEF NetworkOK, SolverInv, Capacitated
  <2>2. ASSUME NEW i \in 1 .. kept PROVE ResidualOf(cap, flow', path[i]) > 0
    <3>1. path[i] \in Arcs(net) /\ ResidualOf(cap, flow', path[i]) # 0
      BY <1>5, <1>8
    <3>2. ResidualOf(cap, flow', path[i]) \in Nat
      BY <2>1, <3>1, ResidualProperty
    <3>3. QED
      BY <3>1, <3>2
  <2>3. QED
    BY <2>2
<1> HIDE DEF kept
<1>10. /\ path' \in Seq(Arcs(net)) /\ Len(path') = kept
       /\ \A i \in 1 .. kept : path'[i] = path[i] /\ i \in 1 .. Len(path)
  <2>1. \A i \in 1 .. kept : path[i] \in Arcs(net)
    BY <1>5, <1>8
  <2>2. QED
    BY <1>5, <1>7, <1>8, <2>1, SubSeqProperties
<1>11. PathOK'
  <2>1. level'[call'.source] = 0 /\ Arcs(net)' = Arcs(net) /\ path' \in Seq(Arcs(net)')
    BY <1>1, <1>5, <1>10 DEF PathOK
  <2>2. \A i \in 1 .. Len(path') : /\ level'[net'.tail[path'[i]]] = i - 1
                                  /\ level'[net'.head[path'[i]]] = i
                                  /\ ResidualOf(cap', flow', path'[i]) > 0
    BY <1>1, <1>5, <1>9, <1>10 DEF PathOK
  <2>3. QED
    BY <2>1, <2>2 DEF PathOK, Residual
<1>12. solver' \in {"search", "exhausted", "cancelled"}
  BY ChargeProperty DEF Augment
<1>13. CASE solver' = "search"
  BY <1>4, <1>6, <1>11, <1>13 DEF SolverInv, AnswerIsMaximal, Places
<1>14. QED
  BY <1>4, <1>6, <1>12, <1>13, GivenUp

\* A path that can take more, of which nothing remains to be taken, has met the
\* limit.
LEMMA LimitReachedPreserves ==
  ASSUME SolverInv, LimitReached
  PROVE  SolverInv'
<1>1. /\ solver = "search" /\ solver' = "reach" /\ 0 \in Bottlenecks
      /\ UNCHANGED <<net, cap, flow, level, call, total>>
  BY DEF LimitReached
<1>2. NetworkOK' /\ FlowIsFeasible'
  BY <1>1, StillFeasible
<1>3. /\ CallOK /\ PathOK /\ Len(path) \in Nat /\ path \in [1 .. Len(path) -> Arcs(net)]
  BY <1>1, TopProperty
<1>4. call.limit # U64Max /\ Remaining = 0
  <2>1. \A i \in DOMAIN path : Residual(path[i]) # 0
    BY <1>3 DEF PathOK
  <2>2. QED
    BY <1>1, <2>1 DEF Bottlenecks
<1>5. total = call.limit
  BY <1>3, <1>4, CheckedAssumption DEF Remaining, CallOK
<1>6. CallOK'
  BY <1>1, <1>3 DEF CallOK
<1>7. QED
  BY <1>1, <1>2, <1>4, <1>5, <1>6 DEF SolverInv, AnswerIsMaximal, Places

LEMMA FinishPreserves ==
  ASSUME SolverInv, Finish
  PROVE  SolverInv'
<1>1. solver = "reach" /\ UNCHANGED <<net, cap, flow, level, call, total>>
  BY DEF Finish
<1>2. NetworkOK' /\ FlowIsFeasible' /\ \A a : Residual(a)' = Residual(a)
  BY <1>1, StillFeasible
<1>3. CallOK'
  BY <1>1 DEF SolverInv, CallOK
<1>4. AnswerIsMaximal'
  BY <1>1, <1>2 DEF SolverInv, AnswerIsMaximal, SaturatedCut, Ranked
<1>5. solver' \in {"solved", "exhausted", "cancelled"}
  BY ChargeProperty DEF Finish
<1>6. QED
  BY <1>2, <1>3, <1>4, <1>5 DEF SolverInv, Places

\* What neither moves flow nor goes on with the call keeps the invariant: the
\* answer is taken, the token is set, or nothing happens.
LEMMA OthersPreserve ==
  ASSUME SolverInv, Answered \/ Cancel \/ UNCHANGED flowVars
  PROVE  SolverInv'
<1>1. CASE Answered
  <2>1. solver' = "idle" /\ UNCHANGED <<net, cap, flow>>
    BY <1>1 DEF Answered
  <2>2. QED
    BY <2>1, StillFeasible DEF SolverInv, AnswerIsMaximal, Places
<1>2. CASE Cancel \/ UNCHANGED flowVars
  <2>1. UNCHANGED <<net, cap, flow, level, queue, path, call, total, solver>>
    BY <1>2 DEF Cancel, flowVars
  <2>2. NetworkOK' /\ FlowIsFeasible' /\ \A a : Residual(a)' = Residual(a)
    BY <2>1, StillFeasible
  <2>3. (solver # "idle" => CallOK)' /\ (solver = "levels" => LevelsOK)'
    BY <2>1, <2>2 DEF SolverInv, CallOK, LevelsOK
  <2>4. (solver = "search" => PathOK)' /\ AnswerIsMaximal'
    BY <2>1, <2>2 DEF SolverInv, PathOK, AnswerIsMaximal, SaturatedCut, Ranked
  <2>5. QED
    BY <2>1, <2>2, <2>3, <2>4 DEF SolverInv
<1>3. QED
  BY <1>1, <1>2

-----------------------------------------------------------------------------
(* The theorems *)

\* The invariant holds in every state of the solver, whoever drives it.
THEOREM SolverInvariant == FlowSpec => []SolverInv
<1>1. ASSUME \E nobody : FlowInit(nobody) PROVE SolverInv
  BY <1>1, InitSolverInv
<1>2. ASSUME SolverInv, [FlowNext]_flowVars PROVE SolverInv'
  <2>1. CASE Owned
    <3>1. CASE Build(net', cap')
      BY <1>2, <3>1, BuildPreserves
    <3>2. CASE Reset(cap')
      BY <1>2, <3>2, ResetPreserves
    <3>3. CASE Raise(cap')
      BY <1>2, <3>3, RaisePreserves
    <3>4. CASE Solve(call'.source, call'.sink, call'.limit, call'.budget)
      BY <1>2, <3>4, SolvePreserves
    <3>5. CASE Answered
      BY <1>2, <3>5, OthersPreserve
    <3>6. QED
      BY <2>1, <3>1, <3>2, <3>3, <3>4, <3>5 DEF Owned
  <2>2. CASE Step
    <3>1. CASE Scan
      BY <1>2, <3>1, ScanPreserves
    <3>2. CASE Levelled
      BY <1>2, <3>2, LevelledPreserves
    <3>3. CASE Advance
      BY <1>2, <3>3, AdvancePreserves
    <3>4. CASE Retreat
      BY <1>2, <3>4, RetreatPreserves
    <3>5. CASE Augment
      BY <1>2, <3>5, AugmentPreserves
    <3>6. CASE LimitReached
      BY <1>2, <3>6, LimitReachedPreserves
    <3>7. CASE Finish
      BY <1>2, <3>7, FinishPreserves
    <3>8. QED
      BY <2>2, <3>1, <3>2, <3>3, <3>4, <3>5, <3>6, <3>7 DEF Step
  <2>3. CASE Cancel \/ UNCHANGED flowVars
    BY <1>2, <2>3, OthersPreserve
  <2>4. QED
    BY <1>2, <2>1, <2>2, <2>3 DEF FlowNext
<1>3. QED
  BY <1>1, <1>2, PTL DEF FlowSpec

\* No sequence of calls, of capacities changed between them and of calls that
\* were cancelled or ran out of budget leaves a flow that oversells an arc, or
\* that an arc and its partner disagree about.
THEOREM FlowStaysFeasible == FlowSpec => []FlowIsFeasible
<1>1. SolverInv => FlowIsFeasible
  BY DEF SolverInv
<1>2. QED
  BY <1>1, SolverInvariant, PTL

\* A solve that was neither cancelled nor cut short pushed what it was asked
\* for, or shows a cut that its flow saturates: the answer is the maximum, and
\* not just what the search order happened to find.
THEOREM AnswersAreMaximal == FlowSpec => []AnswerIsMaximal
<1>1. SolverInv => AnswerIsMaximal
  BY DEF SolverInv
<1>2. QED
  BY <1>1, SolverInvariant, PTL

-----------------------------------------------------------------------------
(* Conservation: what enters a node leaves it *)

\* The path leads from the source on, arc by arc.
Connected ==
  solver = "search" =>
    /\ path # <<>> => net.tail[path[1]] = call.source
    /\ \A i \in 1 .. Len(path) - 1 : net.head[path[i]] = net.tail[path[i + 1]]

\* What is left of a path that is cut.
LEMMA CutPath ==
  ASSUME SolverInv, Connected, solver = "search", NEW k \in 0 .. Len(path),
         path' = SubSeq(path, 1, k), UNCHANGED <<net, call>>
  PROVE  Connected'
<1>1. path \in [1 .. Len(path) -> Arcs(net)] /\ Len(path) \in Nat
  BY TopProperty
<1>2. \A i \in 1 .. k : path[i] \in Arcs(net)
  BY <1>1
<1>3. Len(path') = k /\ \A i \in 1 .. k : path'[i] = path[i]
  BY <1>1, <1>2, SubSeqProperties
<1>4. path' # <<>> => k >= 1
  BY <1>1, <1>3
<1>5. path # <<>> \/ k = 0
  BY <1>1
<1>6. path' # <<>> => net.tail[path'[1]] = call.source
  BY <1>1, <1>3, <1>4, <1>5 DEF Connected
<1>7. \A i \in 1 .. k - 1 : net.head[path'[i]] = net.tail[path'[i + 1]]
  <2>1. TAKE i \in 1 .. k - 1
  <2>2. i \in 1 .. Len(path) - 1 /\ i \in 1 .. k /\ i + 1 \in 1 .. k
    BY <1>1
  <2>3. net.head[path[i]] = net.tail[path[i + 1]]
    BY <2>2 DEF Connected
  <2>4. QED
    BY <1>3, <2>2, <2>3
<1>8. QED
  BY <1>3, <1>6, <1>7 DEF Connected

\* An augmentation keeps the path up to an arc of it.
LEMMA AugmentCuts ==
  ASSUME SolverInv, Augment
  PROVE  \E k \in 0 .. Len(path) : path' = SubSeq(path, 1, k)
<1> DEFINE saturated == {i \in DOMAIN path : ResidualOf(cap, flow', path[i]) = 0}
           kept == IF saturated = {} THEN 0
                   ELSE (CHOOSE i \in saturated : \A j \in saturated : i <= j) - 1
<1>1. path' = SubSeq(path, 1, kept) /\ solver = "search"
  BY DEF Augment
<1>2. Len(path) \in Nat /\ path \in [1 .. Len(path) -> Arcs(net)]
  BY <1>1, TopProperty
<1>3. kept \in 0 .. Len(path)
  <2>1. CASE saturated = {}
    BY <1>2, <2>1
  <2>2. CASE saturated # {}
    <3>1. saturated \in SUBSET Nat /\ saturated \subseteq 1 .. Len(path)
      BY <1>2
    <3> HIDE DEF saturated
    <3>2. \E i \in saturated : \A j \in saturated : i <= j
      BY <2>2, <3>1, LeastMember
    <3>3. PICK m \in saturated : kept = m - 1
      BY <2>2, <3>2
    <3>4. QED
      BY <1>2, <3>1, <3>3
  <2>3. QED
    BY <2>1, <2>2
<1>4. QED
  BY <1>1, <1>3

\* Every step of the solver keeps its path in one piece.
LEMMA ConnectedStep ==
  ASSUME SolverInv, Connected, [FlowNext]_flowVars
  PROVE  Connected'
<1>1. CASE Build(net', cap') \/ Reset(cap') \/ Raise(cap')
           \/ Solve(call'.source, call'.sink, call'.limit, call'.budget) \/ Answered
  BY <1>1 DEF Build, Reset, Raise, Solve, Answered, Connected
<1>2. CASE Cancel \/ UNCHANGED flowVars
  BY <1>2 DEF Cancel, flowVars, Connected
<1>3. CASE Scan
  <2>1. solver' \in {"levels", "exhausted", "cancelled"}
    BY <1>3, ChargeProperty DEF Scan
  <2>2. QED
    BY <2>1 DEF Connected
<1>4. CASE Levelled
  <2>1. path' = <<>>
    BY <1>4 DEF Levelled
  <2>2. Len(path') = 0
    BY <2>1
  <2>3. \A i \in 1 .. Len(path') - 1 : FALSE
    BY <2>2
  <2>4. QED
    BY <2>1, <2>3 DEF Connected
<1>5. CASE Advance
  <2>1. PICK a \in Open(Top) : path' = Append(path, a)
    BY <1>5 DEF Advance
  <2>2. solver = "search" /\ UNCHANGED <<net, call>>
    BY <1>5 DEF Advance
  <2>3. path \in Seq(Arcs(net)) /\ Len(path) \in Nat /\ path \in [1 .. Len(path) -> Arcs(net)]
    BY <2>2, TopProperty DEF SolverInv, PathOK
  <2>4. a \in Arcs(net) /\ net.tail[a] = Top
    BY <2>1 DEF Open, Out
  <2>5. /\ Len(path') = Len(path) + 1
        /\ \A i \in 1 .. Len(path) : path'[i] = path[i]
        /\ path'[Len(path) + 1] = a
    BY <2>1, <2>3, <2>4, AppendProperties
  <2>6. net.tail[path'[1]] = call.source
    <3>1. CASE path = <<>>
      BY <2>4, <2>5, <3>1 DEF Top
    <3>2. CASE path # <<>>
      <4>1. 1 \in 1 .. Len(path)
        BY <2>3, <3>2
      <4>2. QED
        BY <2>2, <2>5, <3>2, <4>1 DEF Connected
    <3>3. QED
      BY <3>1, <3>2
  <2>7. ASSUME NEW i \in 1 .. Len(path) PROVE net.head[path'[i]] = net.tail[path'[i + 1]]
    <3>1. CASE i = Len(path)
      <4>1. path # <<>>
        BY <2>3, <2>7
      <4>2. Top = net.head[path[Len(path)]]
        BY <4>1 DEF Top
      <4>3. QED
        BY <2>4, <2>5, <3>1, <4>2
    <3>2. CASE i # Len(path)
      <4>3. PICK n \in Nat : n = Len(path)
        BY <2>3
      <4>4. i \in 1 .. n /\ i # n
        BY <2>7, <3>2, <4>3
      <4>5. i \in 1 .. n - 1 /\ i + 1 \in 1 .. n
        BY <4>4
      <4>1. i \in 1 .. Len(path) - 1 /\ i + 1 \in 1 .. Len(path)
        BY <4>3, <4>5
      <4>2. QED
        BY <2>2, <2>5, <4>1 DEF Connected
    <3>3. QED
      BY <3>1, <3>2
  <2>8. \A i \in 1 .. Len(path') - 1 : i \in 1 .. Len(path)
    BY <2>3, <2>5
  <2>9. QED
    BY <2>2, <2>6, <2>7, <2>8 DEF Connected
<1>6. CASE Retreat
  <2>1. CASE path = <<>>
    <3>1. solver' \in {"levels", "exhausted", "cancelled"}
      BY <1>6, <2>1, ChargeProperty DEF Retreat
    <3>2. QED
      BY <3>1 DEF Connected
  <2>2. CASE path # <<>>
    <3>1. solver = "search" /\ path' = SubSeq(path, 1, Len(path) - 1) /\ UNCHANGED <<net, call>>
      BY <1>6, <2>2 DEF Retreat
    <3>2. Len(path) \in Nat /\ path \in [1 .. Len(path) -> Arcs(net)]
      BY <3>1, TopProperty
    <3>3. Len(path) - 1 \in 0 .. Len(path)
      BY <2>2, <3>2
    <3>4. QED
      BY <3>1, <3>3, CutPath
  <2>3. QED
    BY <2>1, <2>2
<1>7. CASE Augment
  <2>1. solver = "search" /\ UNCHANGED <<net, call>>
    BY <1>7 DEF Augment
  <2>2. \E k \in 0 .. Len(path) : path' = SubSeq(path, 1, k)
    BY <1>7, AugmentCuts
  <2>3. QED
    BY <2>1, <2>2, CutPath
<1>8. CASE LimitReached
  BY <1>8 DEF LimitReached, Connected
<1>9. CASE Finish
  <2>1. solver' \in {"solved", "exhausted", "cancelled"}
    BY <1>9, ChargeProperty DEF Finish
  <2>2. QED
    BY <2>1 DEF Connected
<1>10. QED
  BY <1>1, <1>2, <1>3, <1>4, <1>5, <1>6, <1>7, <1>8, <1>9 DEF FlowNext, Owned, Step

\* The path goes up the levels: a node is the tail of one of its arcs at most,
\* and the head of one at most.
LEMMA PathProperty ==
  ASSUME SolverInv, solver = "search"
  PROVE  /\ Len(path) \in Nat /\ \A i \in 1 .. Len(path) : path[i] \in Arcs(net)
         /\ \A i, j \in 1 .. Len(path) :
              \/ net.tail[path[i]] = net.tail[path[j]]
              \/ net.head[path[i]] = net.head[path[j]]
              => i = j
         /\ \A i, j \in 1 .. Len(path) : path[i] # Partner(path[j])
<1>1. /\ PathOK /\ Len(path) \in Nat /\ path \in [1 .. Len(path) -> Arcs(net)] /\ IsNetwork(net)
  BY TopProperty DEF SolverInv, NetworkOK
<1>2. \A i \in 1 .. Len(path) : path[i] \in Arcs(net)
  BY <1>1
<1>3. \A i \in 1 .. Len(path) :
        level[net.tail[path[i]]] = i - 1 /\ level[net.head[path[i]]] = i
  BY <1>1 DEF PathOK
<1>4. ASSUME NEW i \in 1 .. Len(path), NEW j \in 1 .. Len(path),
             net.tail[path[i]] = net.tail[path[j]] \/ net.head[path[i]] = net.head[path[j]]
      PROVE  i = j
  <2>1. i - 1 = j - 1 \/ i = j
    BY <1>3, <1>4
  <2>2. i \in Int /\ j \in Int
    OBVIOUS
  <2>3. QED
    BY <2>1, <2>2
<1>5. ASSUME NEW i \in 1 .. Len(path), NEW j \in 1 .. Len(path), path[i] = Partner(path[j])
      PROVE  FALSE
  <2>1. net.tail[path[i]] = net.head[path[j]] /\ net.head[path[i]] = net.tail[path[j]]
    BY <1>1, <1>2, <1>5, PartnerProperty
  <2>2. i - 1 = j /\ i = j - 1
    BY <1>3, <2>1
  <2>3. i \in Int /\ j \in Int
    OBVIOUS
  <2>4. QED
    BY <2>2, <2>3
<1>6. QED
  BY <1>1, <1>2, <1>4, <1>5

\* What a path of b units adds to what leaves a node: b where it leads out, less
\* b where it leads in.
OnPath == {path[i] : i \in 1 .. Len(path)}
Up(b) == [a \in Arcs(net) |-> IF a \in OnPath THEN b ELSE 0]
Down(b) == [a \in Arcs(net) |-> IF Partner(a) \in OnPath THEN 0 - b ELSE 0]

\* The arcs out of a node are finitely many.
LEMMA OutFinite ==
  ASSUME SolverInv
  PROVE  \A v : IsFiniteSet(Out(v)) /\ Out(v) \subseteq Arcs(net)
<1>1. IsFiniteSet(Arcs(net))
  BY ArcsProperty, FS_Interval
<1>2. QED
  BY <1>1, FS_Subset DEF Out

\* What a path sends out of a node: its units, where it leads through the node.
LEMMA UpSum ==
  ASSUME SolverInv, solver = "search", NEW b \in Nat, NEW v
  PROVE  /\ \A i \in 1 .. Len(path) :
              net.tail[path[i]] = v => SumFunctionOnSet(Up(b), Out(v)) = b
         /\ (\A i \in 1 .. Len(path) : net.tail[path[i]] # v) => SumFunctionOnSet(Up(b), Out(v)) = 0
<1>1. IsFiniteSet(Out(v)) /\ Out(v) \subseteq Arcs(net)
  BY OutFinite
<1>2. \A a \in Out(v) : Up(b)[a] = IF a \in OnPath THEN b ELSE 0
  BY <1>1 DEF Up
<1>3. ASSUME NEW i \in 1 .. Len(path), net.tail[path[i]] = v
      PROVE  SumFunctionOnSet(Up(b), Out(v)) = b
  <2>1. path[i] \in Out(v) /\ path[i] \in OnPath
    BY <1>3, PathProperty DEF Out, OnPath
  <2>2. \A a \in Out(v) : a \in OnPath => a = path[i]
    BY <1>3, PathProperty DEF Out, OnPath
  <2>3. Up(b)[path[i]] = b /\ \A a \in Out(v) \ {path[i]} : Up(b)[a] = 0
    BY <1>2, <2>1, <2>2
  <2>4. QED
    BY <1>1, <2>1, <2>3, SumSingle
<1>4. ASSUME \A i \in 1 .. Len(path) : net.tail[path[i]] # v
      PROVE  SumFunctionOnSet(Up(b), Out(v)) = 0
  <2>1. \A a \in Out(v) : a \notin OnPath
    BY <1>4 DEF Out, OnPath
  <2>2. \A a \in Out(v) : Up(b)[a] = 0
    BY <1>2, <2>1
  <2>3. QED
    BY <1>1, <2>2, SumZero
<1>5. QED
  BY <1>3, <1>4

\* And what its partners send back.
LEMMA DownSum ==
  ASSUME SolverInv, solver = "search", NEW b \in Nat, NEW v
  PROVE  /\ \A i \in 1 .. Len(path) :
              net.head[path[i]] = v => SumFunctionOnSet(Down(b), Out(v)) = 0 - b
         /\ (\A i \in 1 .. Len(path) : net.head[path[i]] # v) => SumFunctionOnSet(Down(b), Out(v)) = 0
<1>1. IsFiniteSet(Out(v)) /\ Out(v) \subseteq Arcs(net)
  BY OutFinite
<1>2. \A a \in Out(v) : Down(b)[a] = IF Partner(a) \in OnPath THEN 0 - b ELSE 0
  BY <1>1 DEF Down
<1>3. \A a \in Arcs(net) : /\ Partner(a) \in Arcs(net) /\ Partner(Partner(a)) = a
                          /\ net.tail[Partner(a)] = net.head[a] /\ net.head[Partner(a)] = net.tail[a]
  BY PartnerProperty DEF SolverInv, NetworkOK
<1>4. ASSUME NEW i \in 1 .. Len(path), net.head[path[i]] = v
      PROVE  SumFunctionOnSet(Down(b), Out(v)) = 0 - b
  <2>1. path[i] \in Arcs(net)
    BY PathProperty
  <2>2. Partner(path[i]) \in Out(v) /\ Partner(Partner(path[i])) \in OnPath
    BY <1>3, <1>4, <2>1 DEF Out, OnPath
  <2>3. ASSUME NEW a \in Out(v), Partner(a) \in OnPath PROVE a = Partner(path[i])
    <3>1. PICK j \in 1 .. Len(path) : Partner(a) = path[j]
      BY <2>3 DEF OnPath
    <3>2. a \in Arcs(net) /\ net.tail[a] = v
      BY DEF Out
    <3>3. net.head[path[j]] = v /\ Partner(path[j]) = a
      BY <1>3, <3>1, <3>2
    <3>4. i = j
      BY <1>4, <3>3, PathProperty
    <3>5. QED
      BY <3>3, <3>4
  <2> DEFINE y == Partner(path[i])
  <2>4. Down(b)[y] = 0 - b /\ \A a \in Out(v) \ {y} : Down(b)[a] = 0
    BY <1>2, <2>2, <2>3
  <2>5. y \in Out(v) /\ Down(b)[y] \in Int
    BY <2>2, <2>4
  <2> HIDE DEF y
  <2>6. SumFunctionOnSet(Down(b), Out(v)) = Down(b)[y]
    BY <1>1, <2>4, <2>5, SumSingle
  <2>7. QED
    BY <2>4, <2>6
<1>5. ASSUME \A i \in 1 .. Len(path) : net.head[path[i]] # v
      PROVE  SumFunctionOnSet(Down(b), Out(v)) = 0
  <2>1. ASSUME NEW a \in Out(v), Partner(a) \in OnPath PROVE FALSE
    <3>1. PICK j \in 1 .. Len(path) : Partner(a) = path[j]
      BY <2>1 DEF OnPath
    <3>2. a \in Arcs(net) /\ net.tail[a] = v
      BY DEF Out
    <3>3. net.head[path[j]] = v
      BY <1>3, <3>1, <3>2
    <3>4. QED
      BY <1>5, <3>3
  <2>2. \A a \in Out(v) : Down(b)[a] = 0
    BY <1>2, <2>1
  <2>3. QED
    BY <1>1, <2>2, SumZero
<1>6. QED
  BY <1>4, <1>5

\* An augmentation of b units: b more leave the source and b less the sink, and
\* as much leaves every other node as enters it.
Conserves(b) ==
  /\ total' = total + b
  /\ \A v \in net.nodes :
       Leaving(v)' = Leaving(v) + (IF v = call.source THEN b ELSE IF v = call.sink THEN 0 - b ELSE 0)

\* An augmentation of some units is conserved.
LEMMA AugmentConserves ==
  ASSUME SolverInv, Connected, Augment
  PROVE  \E b \in Nat : Conserves(b)
<1>1. solver = "search" /\ UNCHANGED <<net, cap, call>> /\ Top = call.sink
  BY DEF Augment
<1>2. PICK b \in Bottlenecks :
        /\ \A r \in Bottlenecks : b <= r
        /\ flow' = Pushed(b) /\ total' = total + b
  BY DEF Augment
<1>3. b \in Nat
  BY <1>1, <1>2, BottleneckProperty
<1>4. /\ Len(path) \in Nat /\ \A i \in 1 .. Len(path) : path[i] \in Arcs(net)
      /\ \A i, j \in 1 .. Len(path) : path[i] # Partner(path[j])
      /\ \A i, j \in 1 .. Len(path) : net.tail[path[i]] = net.tail[path[j]] => i = j
      /\ \A i, j \in 1 .. Len(path) : net.head[path[i]] = net.head[path[j]] => i = j
  BY <1>1, PathProperty
<1>5. /\ CallOK /\ level[Top] = Len(path) /\ path \in [1 .. Len(path) -> Arcs(net)]
      /\ flow \in [Arcs(net) -> Int] /\ IsNetwork(net)
  BY <1>1, TopProperty DEF SolverInv, NetworkOK
<1>6. \A a \in Arcs(net) : flow'[a] = flow[a] + Up(b)[a] + Down(b)[a]
  <2>1. DOMAIN path = 1 .. Len(path)
    BY <1>5
  <2> DEFINE P == {path[i] : i \in DOMAIN path}
  <2>6. flow' = [a \in Arcs(net) |-> CASE a \in P -> flow[a] + b
                                       [] Partner(a) \in P -> flow[a] - b
                                       [] OTHER -> flow[a]]
    BY <1>2, Zenon DEF Pushed
  <2>7. P = OnPath
    BY <2>1 DEF OnPath
  <2> HIDE DEF P
  <2>2. flow' = [a \in Arcs(net) |-> CASE a \in OnPath -> flow[a] + b
                                       [] Partner(a) \in OnPath -> flow[a] - b
                                       [] OTHER -> flow[a]]
    BY <2>6, <2>7
  <2>3. ASSUME NEW a \in Arcs(net), a \in OnPath PROVE Partner(a) \notin OnPath
    <3>1. PICK i \in 1 .. Len(path) : a = path[i]
      BY <2>3 DEF OnPath
    <3>2. \A j \in 1 .. Len(path) : path[j] # Partner(path[i])
      BY <1>4
    <3>3. QED
      BY <3>1, <3>2 DEF OnPath
  <2>4. ASSUME NEW a \in Arcs(net) PROVE flow'[a] = flow[a] + Up(b)[a] + Down(b)[a]
    <3>1. flow[a] \in Int
      BY <1>5
    <3>2. /\ Up(b)[a] = IF a \in OnPath THEN b ELSE 0
          /\ Down(b)[a] = IF Partner(a) \in OnPath THEN 0 - b ELSE 0
      BY DEF Up, Down
    <3>3. CASE a \in OnPath
      <4>1. flow'[a] = flow[a] + b /\ Partner(a) \notin OnPath
        BY <2>2, <2>3, <3>3
      <4>2. QED
        BY <1>3, <3>1, <3>2, <3>3, <4>1
    <3>4. CASE a \notin OnPath
      <4>1. flow'[a] = IF Partner(a) \in OnPath THEN flow[a] - b ELSE flow[a]
        BY <2>2, <3>4
      <4>2. QED
        BY <1>3, <3>1, <3>2, <3>4, <4>1
    <3>5. QED
      BY <3>3, <3>4
  <2>5. QED
    BY <2>4
<1>7. ASSUME NEW v
      PROVE  /\ SumFunctionOnSet(flow', Out(v))
                  = SumFunctionOnSet(flow, Out(v)) + SumFunctionOnSet(Up(b), Out(v))
                      + SumFunctionOnSet(Down(b), Out(v))
             /\ SumFunctionOnSet(flow, Out(v)) \in Int
             /\ SumFunctionOnSet(Up(b), Out(v)) \in Int
             /\ SumFunctionOnSet(Down(b), Out(v)) \in Int
  <2>1. IsFiniteSet(Out(v)) /\ Out(v) \subseteq Arcs(net)
    BY OutFinite
  <2> DEFINE upper == [a \in Arcs(net) |-> flow[a] + Up(b)[a]]
  <2>2. \A a \in Out(v) : flow[a] \in Int /\ Up(b)[a] \in Int /\ Down(b)[a] \in Int
    BY <1>3, <1>5, <2>1 DEF Up, Down
  <2>3. \A a \in Out(v) : upper[a] = flow[a] + Up(b)[a]
    BY <2>1
  <2>4. \A a \in Out(v) : upper[a] \in Int /\ flow'[a] = upper[a] + Down(b)[a]
    BY <1>6, <2>1, <2>2, <2>3
  <2> HIDE DEF upper
  <2>5. SumFunctionOnSet(upper, Out(v)) = SumFunctionOnSet(flow, Out(v)) + SumFunctionOnSet(Up(b), Out(v))
    BY <2>1, <2>2, <2>3, SumAdd
  <2>6. SumFunctionOnSet(flow', Out(v)) = SumFunctionOnSet(upper, Out(v)) + SumFunctionOnSet(Down(b), Out(v))
    BY <2>1, <2>2, <2>4, SumAdd
  <2>7. /\ SumFunctionOnSet(flow, Out(v)) \in Int
        /\ SumFunctionOnSet(Up(b), Out(v)) \in Int
        /\ SumFunctionOnSet(Down(b), Out(v)) \in Int
    BY <2>1, <2>2, SumPick
  <2>8. QED
    BY <2>5, <2>6, <2>7
<1>8. /\ call.source # call.sink /\ Len(path) >= 1 /\ level[call.source] = 0
      /\ net.tail[path[1]] = call.source /\ net.head[path[Len(path)]] = call.sink
      /\ \A i \in 1 .. Len(path) : level[net.tail[path[i]]] = i - 1 /\ level[net.head[path[i]]] = i
  <2>1. call.source # call.sink /\ PathOK
    BY <1>1, TopProperty DEF CallOK
  <2>2. path # <<>>
    BY <1>1, <2>1 DEF Top
  <2>3. net.head[path[Len(path)]] = call.sink
    BY <1>1, <2>2 DEF Top
  <2>4. net.tail[path[1]] = call.source
    BY <1>1, <2>2 DEF Connected
  <2>5. QED
    BY <1>4, <2>1, <2>2, <2>3, <2>4, <1>1, TopProperty DEF PathOK
<1>9. ASSUME NEW v \in net.nodes
      PROVE  SumFunctionOnSet(Up(b), Out(v)) + SumFunctionOnSet(Down(b), Out(v))
               = IF v = call.source THEN b ELSE IF v = call.sink THEN 0 - b ELSE 0
  <2> DEFINE up == SumFunctionOnSet(Up(b), Out(v))
             down == SumFunctionOnSet(Down(b), Out(v))
  <2>1. /\ \A i \in 1 .. Len(path) : net.tail[path[i]] = v => up = b
        /\ (\A i \in 1 .. Len(path) : net.tail[path[i]] # v) => up = 0
        /\ \A i \in 1 .. Len(path) : net.head[path[i]] = v => down = 0 - b
        /\ (\A i \in 1 .. Len(path) : net.head[path[i]] # v) => down = 0
    BY <1>1, <1>3, UpSum, DownSum
  <2> HIDE DEF up, down
  <2>2. PICK n \in Nat : n = Len(path) /\ n >= 1
    BY <1>4, <1>8
  <2>3. CASE v = call.source
    <3>1. up = b
      BY <1>8, <2>1, <2>2, <2>3
    <3>2. \A i \in 1 .. n : net.head[path[i]] # v
      BY <1>8, <2>2, <2>3
    <3>3. QED
      BY <1>3, <2>1, <2>2, <2>3, <3>1, <3>2 DEF up, down
  <2>4. CASE v = call.sink
    <3>1. n \in 1 .. n /\ net.head[path[n]] = v
      BY <1>8, <2>2, <2>4
    <3>2. down = 0 - b
      BY <2>1, <2>2, <3>1
    <3>3. level[v] = n
      BY <1>8, <2>2, <3>1
    <3>4. \A i \in 1 .. n : net.tail[path[i]] # v
      <4>1. TAKE i \in 1 .. n
      <4>2. level[net.tail[path[i]]] = i - 1 /\ i - 1 # n
        BY <1>8, <2>2
      <4>3. QED
        BY <3>3, <4>2
    <3>5. up = 0 /\ v # call.source
      BY <1>8, <2>1, <2>2, <2>4, <3>4
    <3>6. QED
      BY <1>3, <2>4, <3>2, <3>5 DEF up, down
  <2>5. CASE v # call.source /\ v # call.sink
    <3>1. CASE \E i \in 1 .. n : net.tail[path[i]] = v
      <4>1. PICK i \in 1 .. n : net.tail[path[i]] = v
        BY <3>1
      <4>2. i # 1
        BY <1>8, <2>5, <4>1
      <4>3. i - 1 \in 1 .. n - 1 /\ i - 1 \in 1 .. n /\ (i - 1) + 1 = i
        BY <2>2, <4>2
      <4>4. net.head[path[i - 1]] = v
        BY <1>1, <2>2, <4>1, <4>3 DEF Connected
      <4>5. up = b /\ down = 0 - b
        BY <2>1, <2>2, <4>1, <4>3, <4>4
      <4>6. QED
        BY <1>3, <2>5, <4>5 DEF up, down
    <3>2. CASE \A i \in 1 .. n : net.tail[path[i]] # v
      <4>1. ASSUME NEW i \in 1 .. n, net.head[path[i]] = v PROVE FALSE
        <5>1. i # n
          BY <1>8, <2>2, <2>5, <4>1
        <5>2. i \in 1 .. n - 1 /\ i + 1 \in 1 .. n
          BY <2>2, <5>1
        <5>3. net.tail[path[i + 1]] = v
          BY <1>1, <2>2, <4>1, <5>2 DEF Connected
        <5>4. QED
          BY <3>2, <5>2, <5>3
      <4>2. up = 0 /\ down = 0
        BY <2>1, <2>2, <3>2, <4>1
      <4>3. QED
        BY <2>5, <4>2 DEF up, down
    <3>3. QED
      BY <3>1, <3>2
  <2>6. QED
    BY <2>3, <2>4, <2>5
<1>10. \A v : Leaving(v)' = SumFunctionOnSet(flow', Out(v))
  BY <1>1 DEF Leaving, Out
<1>11. ASSUME NEW v \in net.nodes
       PROVE  Leaving(v)' = Leaving(v) + (IF v = call.source THEN b ELSE IF v = call.sink THEN 0 - b ELSE 0)
  <2>1. PICK x \in Int, u \in Int, d \in Int :
          /\ x = SumFunctionOnSet(flow, Out(v)) /\ u = SumFunctionOnSet(Up(b), Out(v))
          /\ d = SumFunctionOnSet(Down(b), Out(v))
    BY <1>7
  <2>2. SumFunctionOnSet(flow', Out(v)) = x + u + d
    BY <1>7, <2>1
  <2>3. u + d = IF v = call.source THEN b ELSE IF v = call.sink THEN 0 - b ELSE 0
    BY <1>9, <2>1
  <2>4. x + u + d = x + (u + d)
    BY <2>1
  <2>5. QED
    BY <1>10, <2>1, <2>2, <2>3, <2>4 DEF Leaving
<1>12. QED
  BY <1>2, <1>3, <1>11 DEF Conserves

\* Everywhere but at some ends, what enters a node leaves it.
Off(ends) == \A v \in net.nodes \ ends : Leaving(v) = 0

\* A network without flow.
LEMMA StillProperty ==
  ASSUME SolverInv, flow = NoFlow(net)
  PROVE  \A v : Leaving(v) = 0
<1>1. ASSUME NEW v PROVE Leaving(v) = 0
  <2>1. IsFiniteSet(Out(v)) /\ Out(v) \subseteq Arcs(net)
    BY OutFinite
  <2>2. \A a \in Out(v) : flow[a] = 0
    BY <2>1 DEF NoFlow
  <2>3. QED
    BY <2>1, <2>2, SumZero DEF Leaving
<1>2. QED
  BY <1>1

\* The same of the next state.
LEMMA StillNext ==
  (SolverInv /\ flow = NoFlow(net))' => \A v : Leaving(v)' = 0
<1>1. SolverInv /\ flow = NoFlow(net) => \A v : Leaving(v) = 0
  BY StillProperty
<1>2. (SolverInv /\ flow = NoFlow(net) => \A v : Leaving(v) = 0)'
  BY <1>1, PTL
<1>3. QED
  BY <1>2

\* A step of the solver disturbs the ends of its call only, and what it counts
\* leaves its source.
LEMMA StepConserves ==
  ASSUME SolverInv, Connected, Step
  PROVE  /\ UNCHANGED <<net, call>>
         /\ \A ends : call.source \in ends /\ call.sink \in ends /\ Off(ends) => Off(ends)'
         /\ Leaving(call.source) = total => Leaving(call.source)' = total'
<1>1. CASE Augment
  <2>1. UNCHANGED <<net, call>> /\ solver = "search"
    BY <1>1 DEF Augment
  <2>2. PICK b \in Nat : Conserves(b)
    BY <1>1, AugmentConserves
  <2>3. call.source \in net.nodes
    BY <2>1 DEF SolverInv, CallOK
  <2>4. ASSUME NEW ends, call.source \in ends, call.sink \in ends, Off(ends)
        PROVE  \A v \in net.nodes \ ends : Leaving(v)' = 0
    <3>1. TAKE v \in net.nodes \ ends
    <3>2. Leaving(v) = 0 /\ v # call.source /\ v # call.sink
      BY <2>4 DEF Off
    <3>3. Leaving(v)' = Leaving(v) + 0
      BY <2>2, <3>2 DEF Conserves
    <3>4. QED
      BY <3>2, <3>3
  <2>5. \A ends : call.source \in ends /\ call.sink \in ends /\ Off(ends) => Off(ends)'
    BY <2>1, <2>4 DEF Off
  <2>6. Leaving(call.source) = total => Leaving(call.source)' = total'
    BY <2>1, <2>2, <2>3 DEF Conserves
  <2>7. QED
    BY <2>1, <2>5, <2>6
<1>2. CASE Scan \/ Levelled \/ Advance \/ Retreat \/ LimitReached \/ Finish
  <2>1. UNCHANGED <<net, call, flow, total>>
    BY <1>2 DEF Scan, Levelled, Advance, Retreat, LimitReached, Finish
  <2>2. QED
    BY <2>1 DEF Off, Leaving, Out
<1>3. QED
  BY <1>1, <1>2 DEF Step

-----------------------------------------------------------------------------
(* Levels *)

\* While levels are given, every one below a node's has a node.
LevelInv ==
  /\ level \in [net.nodes -> -1 .. Cardinality(net.nodes)]
  /\ solver = "levels" =>
       \A v \in net.nodes : \A j \in 0 .. level[v] : \E u \in net.nodes : level[u] = j

\* No level is as high as there are nodes.
LEMMA LevelBound ==
  ASSUME NEW N, IsFiniteSet(N), NEW l, NEW k \in Nat,
         \A j \in 0 .. k : \E u \in N : l[u] = j
  PROVE  k < Cardinality(N)
<1> DEFINE f == [j \in 0 .. k |-> CHOOSE u \in N : l[u] = j]
<1>1. \A j \in 0 .. k : f[j] \in N /\ l[f[j]] = j
  OBVIOUS
<1>2. f \in [0 .. k -> N]
  BY <1>1
<1> HIDE DEF f
<1>3. f \in Injection(0 .. k, N)
  BY <1>1, <1>2 DEF Injection, IsInjective
<1>4. PICK D : D = 0 .. k
  OBVIOUS
<1>5. IsFiniteSet(D) /\ Cardinality(D) = k + 1
  <2>1. 0 \in Int /\ k \in Int /\ 0 <= k
    OBVIOUS
  <2>2. IsFiniteSet(0 .. k) /\ Cardinality(0 .. k) = IF 0 > k THEN 0 ELSE k - 0 + 1
    BY <2>1, FS_Interval
  <2>3. QED
    BY <1>4, <2>1, <2>2
<1>6. Cardinality(D) <= Cardinality(N)
  BY <1>3, <1>4, <1>5, FS_Injection
<1>7. Cardinality(N) \in Nat
  BY FS_CardinalityType
<1>8. QED
  BY <1>5, <1>6, <1>7

\* A scan gives levels without leaving one out.
LEMMA ScanLevels ==
  ASSUME SolverInv, LevelInv, IsFiniteSet(net.nodes), Scan
  PROVE  LevelInv'
<1> DEFINE h == Head(queue)
           N == net.nodes
           n == Cardinality(N)
<1>1. /\ solver = "levels" /\ queue # <<>> /\ UNCHANGED net
      /\ \E found : /\ \A w \in found : w \in N => level[w] < 0
                    /\ level' = [w \in N |-> IF w \in found THEN level[h] + 1 ELSE level[w]]
  <2>1. PICK taken : /\ taken = Taken(Head(queue)) /\ solver = "levels" /\ queue # <<>>
                     /\ level' = [w \in N |-> IF w \in {net.head[a] : a \in taken}
                                               THEN level[h] + 1 ELSE level[w]]
                     /\ UNCHANGED net
    BY DEF Scan
  <2>2. \A a \in taken : level[net.head[a]] < 0
    BY <2>1 DEF Taken, Reaching
  <2>3. \A w \in {net.head[a] : a \in taken} : level[w] < 0
    BY <2>2
  <2>4. QED
    BY <2>1, <2>3
<1>2. h \in N /\ level[h] >= 0 /\ level[h] \in Int
  <2>1. queue \in Seq(N) /\ \A i \in 1 .. Len(queue) : level[queue[i]] >= 0
    BY <1>1 DEF SolverInv, LevelsOK
  <2>2. Len(queue) \in Nat /\ Len(queue) # 0 /\ h = queue[1] /\ queue \in [1 .. Len(queue) -> N]
    BY <1>1, <2>1
  <2>3. 1 \in 1 .. Len(queue)
    BY <2>2
  <2>4. h \in N /\ level[h] >= 0
    BY <2>1, <2>2, <2>3
  <2>5. QED
    BY <2>4 DEF LevelInv
<1>3. PICK found : /\ \A w \in found : w \in N => level[w] < 0
                   /\ level' = [w \in N |-> IF w \in found THEN level[h] + 1 ELSE level[w]]
  BY <1>1
<1>4. n \in Nat
  BY FS_CardinalityType
<1>5. \A v \in N : level[v] \in Int /\ -1 <= level[v] /\ level[v] <= n
  BY <1>4 DEF LevelInv
<1>6. \A v \in N : \A j \in 0 .. level[v] : \E u \in N : level[u] = j
  BY <1>1 DEF LevelInv
<1> HIDE DEF h, n, N
<1>7. \A v \in N : level'[v] = IF v \in found THEN level[h] + 1 ELSE level[v]
  BY <1>3
<1>8. \A v \in N : level[v] >= 0 => level'[v] = level[v]
  BY <1>3, <1>5, <1>7
<1>9. \A v \in N : \A j \in 0 .. level'[v] : \E u \in N : level'[u] = j
  <2>1. TAKE v \in N
  <2>2. TAKE j \in 0 .. level'[v]
  <2>3. level'[v] \in Int
    BY <1>2, <1>5, <1>7
  <2>4. j \in Int /\ 0 <= j /\ j <= level'[v]
    BY <2>3
  <2>5. CASE j = level'[v]
    BY <2>5
  <2>6. CASE j < level'[v] /\ v \in found
    <3>1. j \in 0 .. level[h]
      BY <1>2, <1>7, <2>4, <2>6
    <3>2. PICK u \in N : level[u] = j
      BY <1>2, <1>6, <3>1
    <3>3. QED
      BY <1>8, <2>4, <3>2
  <2>7. CASE v \notin found
    <3>1. j \in 0 .. level[v]
      BY <1>7, <2>4, <2>7
    <3>2. PICK u \in N : level[u] = j
      BY <1>6, <3>1
    <3>3. QED
      BY <1>8, <2>4, <3>2
  <2>8. QED
    BY <2>3, <2>4, <2>5, <2>6, <2>7
<1>10. \A v \in N : level'[v] \in -1 .. n
  <2>1. TAKE v \in N
  <2>2. level'[v] \in Int /\ -1 <= level'[v]
    BY <1>2, <1>5, <1>7
  <2>3. CASE level'[v] \in Nat
    <3>1. PICK k \in Nat : k = level'[v]
      BY <2>3
    <3>2. \A j \in 0 .. k : \E u \in N : level'[u] = j
      BY <1>9, <3>1
    <3>3. k < Cardinality(N)
      BY <3>2, LevelBound DEF N
    <3>4. QED
      BY <1>4, <2>2, <3>1, <3>3 DEF n
  <2>4. QED
    BY <1>4, <2>2, <2>3
<1>11. level' \in [N -> -1 .. n]
  BY <1>3, <1>10
<1>12. N' = N /\ n' = n
  BY <1>1 DEF N, n
<1>13. QED
  BY <1>9, <1>11, <1>12 DEF LevelInv, N, n

\* Every step of the solver keeps levels below the number of nodes.
LEMMA LevelStep ==
  ASSUME SolverInv, LevelInv, IsFiniteSet(net.nodes), IsFiniteSet(net'.nodes), [FlowNext]_flowVars
  PROVE  LevelInv'
<1>1. Cardinality(net.nodes) \in Nat /\ Cardinality(net'.nodes) \in Nat
  BY FS_CardinalityType
<1>2. CASE Build(net', cap')
  BY <1>1, <1>2 DEF Build, LevelInv
<1>3. CASE Solve(call'.source, call'.sink, call'.limit, call'.budget)
  <2>1. /\ UNCHANGED net /\ call'.source \in net.nodes
        /\ level' = [v \in net.nodes |-> IF v = call'.source THEN 0 ELSE -1]
    BY <1>3 DEF Solve
  <2>2. \A v \in net.nodes : \A j \in 0 .. level'[v] : j = 0 /\ level'[call'.source] = 0
    BY <2>1
  <2>3. level' \in [net.nodes -> -1 .. Cardinality(net.nodes)]
    BY <1>1, <2>1
  <2>4. QED
    BY <2>1, <2>2, <2>3 DEF LevelInv
<1>4. CASE Scan
  BY <1>4, ScanLevels
<1>5. CASE Retreat
  <2>1. UNCHANGED net /\ solver = "search" /\ call.source \in net.nodes
    BY <1>5 DEF Retreat, SolverInv, CallOK
  <2>2. CASE path = <<>>
    <3>1. level' = [v \in net.nodes |-> IF v = call.source THEN 0 ELSE -1]
      BY <1>5, <2>2 DEF Retreat
    <3>2. \A v \in net.nodes : \A j \in 0 .. level'[v] : j = 0 /\ level'[call.source] = 0
      BY <2>1, <3>1
    <3>3. level' \in [net.nodes -> -1 .. Cardinality(net.nodes)]
      BY <1>1, <3>1
    <3>4. QED
      BY <2>1, <3>2, <3>3 DEF LevelInv
  <2>3. CASE path # <<>>
    <3>1. level' = [v \in net.nodes |-> IF v = Top THEN -1 ELSE level[v]] /\ solver' # "levels"
      BY <1>5, <2>3 DEF Retreat, Charge
    <3>2. level' \in [net.nodes -> -1 .. Cardinality(net.nodes)]
      BY <1>1, <3>1 DEF LevelInv
    <3>3. QED
      BY <2>1, <3>1, <3>2 DEF LevelInv
  <2>4. QED
    BY <2>2, <2>3
<1>6. CASE Reset(cap') \/ Raise(cap') \/ Answered \/ Cancel \/ UNCHANGED flowVars
  BY <1>6 DEF Reset, Raise, Answered, Cancel, flowVars, LevelInv
<1>7. CASE Levelled \/ Advance \/ Augment \/ LimitReached \/ Finish
  BY <1>7 DEF Levelled, Advance, Augment, LimitReached, Finish, Charge, LevelInv
<1>8. QED
  BY <1>2, <1>3, <1>4, <1>5, <1>6, <1>7 DEF FlowNext, Owned, Step

-----------------------------------------------------------------------------
(* Cuts *)

\* The arcs out of a set of nodes.
From(S) == {a \in Arcs(net) : net.tail[a] \in S}
Cut(S) == {a \in From(S) : net.head[a] \notin S}

\* Arcs are finitely many, and so are those of any kind.
LEMMA ArcsFinite ==
  ASSUME SolverInv
  PROVE  /\ IsFiniteSet(Arcs(net)) /\ \A a \in Arcs(net) : flow[a] \in Int
         /\ \A T \in SUBSET Arcs(net) : IsFiniteSet(T)
<1>1. IsFiniteSet(Arcs(net))
  BY ArcsProperty, FS_Interval
<1>2. QED
  BY <1>1, FS_Subset DEF SolverInv, NetworkOK

\* What leaves the nodes of a set is what leaves the one where something begins.
LEMMA FromProperty ==
  ASSUME SolverInv, NEW S, IsFiniteSet(S), NEW s \in S, \A v \in S \ {s} : Leaving(v) = 0
  PROVE  SumFunctionOnSet(flow, From(S)) = Leaving(s)
<1> DEFINE P == {T \in SUBSET S : SumFunctionOnSet(flow, From(T)) = IF s \in T THEN Leaving(s) ELSE 0}
<1>1. From({}) = {} /\ SumFunctionOnSet(flow, {}) = 0
  BY ArcsFinite, SumPicks DEF From
<1>2. ASSUME NEW T \in SUBSET S, NEW x \in T, T \ {x} \in P PROVE T \in P
  <2>1. PICK A, B : A = From(T \ {x}) /\ B = Out(x)
    OBVIOUS
  <2>2. /\ From(T) = A \cup B /\ A \cap B = {} /\ A \in SUBSET Arcs(net) /\ B \in SUBSET Arcs(net)
    BY <2>1 DEF From, Out
  <2>3. IsFiniteSet(A) /\ IsFiniteSet(B) /\ \A a \in A \cup B : flow[a] \in Int
    BY <2>2, ArcsFinite
  <2>4. SumFunctionOnSet(flow, A \cup B) = SumFunctionOnSet(flow, A) + SumFunctionOnSet(flow, B)
    BY <2>2, <2>3, SumUnion
  <2>5. SumFunctionOnSet(flow, A) \in Int /\ SumFunctionOnSet(flow, B) \in Int
    BY <2>3, SumPick
  <2>6. SumFunctionOnSet(flow, A) = IF s \in T \ {x} THEN Leaving(s) ELSE 0
    BY <1>2, <2>1
  <2>7. SumFunctionOnSet(flow, B) = Leaving(x)
    BY <2>1 DEF Leaving
  <2>8. x = s \/ Leaving(x) = 0
    OBVIOUS
  <2>9. SumFunctionOnSet(flow, A) + SumFunctionOnSet(flow, B) = IF s \in T THEN Leaving(s) ELSE 0
    <3>1. CASE x = s
      BY <2>5, <2>6, <2>7, <3>1
    <3>2. CASE x # s
      BY <2>5, <2>6, <2>7, <2>8, <3>2
    <3>3. QED
      BY <3>1, <3>2
  <2>10. QED
    BY <2>2, <2>4, <2>9
<1>3. P \in SUBSET SUBSET S /\ {} \in P
  BY <1>1
<1>4. S \in P
  <2> HIDE DEF P
  <2>1. QED
    BY <1>2, <1>3, OneByOne
<1>5. QED
  BY <1>4

\* What stays inside a set of nodes cancels.
LEMMA InsideProperty ==
  ASSUME SolverInv, NEW S
  PROVE  SumFunctionOnSet(flow, From(S) \ Cut(S)) = 0
<1> DEFINE I == From(S) \ Cut(S)
           p == [a \in I |-> Partner(a)]
           h == [a \in I |-> flow[Partner(a)]]
<1>1. IsNetwork(net) /\ FlowIsFeasible
  BY DEF SolverInv, NetworkOK
<1>2. I = {a \in Arcs(net) : net.tail[a] \in S /\ net.head[a] \in S}
  BY DEF From, Cut
<1>3. IsFiniteSet(I) /\ \A a \in I : a \in Arcs(net) /\ flow[a] \in Int
  BY <1>2, ArcsFinite
<1>4. \A a \in I : Partner(a) \in I /\ Partner(Partner(a)) = a
  BY <1>1, <1>2, PartnerProperty
<1>5. \A a \in I : flow[a] + flow[Partner(a)] = 0
  BY <1>1, <1>3 DEF FlowIsFeasible
<1> HIDE DEF I
<1>6. SumFunctionOnSet(h, I) = SumFunctionOnSet(flow, I)
  <2>1. p \in [I -> I] /\ (\A x, y \in I : p[x] = p[y] => x = y) /\ (\A r \in I : \E x \in I : p[x] = r)
    BY <1>4
  <2>2. \A x \in I : h[x] = flow[p[x]]
    OBVIOUS
  <2> HIDE DEF p, h
  <2>3. QED
    BY <1>3, <2>1, <2>2, SumMapped
<1> DEFINE z == [a \in I |-> 0]
<1>7. SumFunctionOnSet(z, I) = SumFunctionOnSet(flow, I) + SumFunctionOnSet(h, I)
  <2>1. \A x \in I : flow[x] \in Int /\ h[x] \in Int /\ z[x] = flow[x] + h[x]
    BY <1>3, <1>4, <1>5
  <2> HIDE DEF z, h
  <2>2. QED
    BY <1>3, <2>1, SumAdd
<1>8. SumFunctionOnSet(z, I) = 0
  <2>1. \A x \in I : z[x] = 0
    OBVIOUS
  <2> HIDE DEF z
  <2>2. QED
    BY <1>3, <2>1, SumZero
<1> HIDE DEF z, h
<1>9. PICK t \in Int : t = SumFunctionOnSet(flow, I)
  BY <1>3, SumPick
<1>10. t + t = 0
  BY <1>6, <1>7, <1>8, <1>9
<1>11. t = 0
  BY <1>10
<1>12. QED
  BY <1>9, <1>11 DEF I

\* What leaves a source passes every cut between it and where flow ends.
LEMMA CutProperty ==
  ASSUME SolverInv, NEW S, IsFiniteSet(S), NEW s \in S, \A v \in S \ {s} : Leaving(v) = 0
  PROVE  Leaving(s) = SumFunctionOnSet(flow, Cut(S))
<1>1. PICK I, C : I = From(S) \ Cut(S) /\ C = Cut(S)
  OBVIOUS
<1>2. From(S) = I \cup C /\ I \cap C = {} /\ I \in SUBSET Arcs(net) /\ C \in SUBSET Arcs(net)
  BY <1>1 DEF From, Cut
<1>3. IsFiniteSet(I) /\ IsFiniteSet(C) /\ \A a \in I \cup C : flow[a] \in Int
  BY <1>2, ArcsFinite
<1>4. SumFunctionOnSet(flow, I \cup C) = SumFunctionOnSet(flow, I) + SumFunctionOnSet(flow, C)
  BY <1>2, <1>3, SumUnion
<1>5. SumFunctionOnSet(flow, I) = 0
  BY <1>1, InsideProperty
<1>6. SumFunctionOnSet(flow, I \cup C) = Leaving(s)
  BY <1>2, FromProperty
<1>7. SumFunctionOnSet(flow, C) \in Int
  BY <1>3, SumPick
<1>8. QED
  BY <1>1, <1>4, <1>5, <1>6, <1>7
=============================================================================
