-------------------------------- MODULE Flow --------------------------------
(***************************************************************************)
(* The maximum flow solver of engine/flow.cpp: a network with a residual    *)
(* partner for every arc, and max_flow, which builds level graphs and       *)
(* augments along their paths until the sink is out of reach or the limit   *)
(* of the call is met.                                                     *)
(*                                                                         *)
(* A step is an iteration of one of the solver's loops: a node scanned for  *)
(* the level graph, an arc pushed on the path, a node retreated from, a     *)
(* path augmented.  Work is charged at the end of each of them, and that is *)
(* where a solve is cancelled or runs out of budget.  A call finds the      *)
(* flow that the calls before it left.                                     *)
(***************************************************************************)
EXTENDS Checked, Positions

CONSTANT CancelInterval  \* kCancelCheckInterval

ASSUME FlowAssumption == CancelInterval \in Nat \ {0}

VARIABLES
  net,        \* the nodes, and the tail and head of every arc
  cap,        \* capacity of every arc
  flow,       \* flow of every arc
  level,      \* level_: the level of every node, -1 for none
  cursor,     \* cursor_: the last arc that was tried out of every node
  queue,      \* nodes of the level graph that wait to be scanned
  path,       \* stack_arcs
  call,       \* the source, sink and limit of the call, and its budget of work
  total,      \* what the call pushed
  work,       \* work_units_
  solver,     \* where the solver is
  cancelled   \* the cancellation token

flowVars == <<net, cap, flow, level, cursor, queue, path, call, total, work, solver, cancelled>>

-----------------------------------------------------------------------------
(* Arcs come in pairs: an odd arc, and its residual partner behind it. *)

Arcs(n) == DOMAIN n.tail
Forward(n) == {a \in Arcs(n) : a % 2 = 1}
Partner(a) == IF a % 2 = 1 THEN a + 1 ELSE a - 1

IsNetwork(n) ==
  /\ \E k \in 0 .. Len(n.tail) : Len(n.tail) = 2 * k
  /\ n.tail \in Seq(n.nodes) /\ n.head \in Seq(n.nodes)
  /\ Len(n.head) = Len(n.tail)
  /\ \A a \in Arcs(n) : n.tail[Partner(a)] = n.head[a] /\ n.head[Partner(a)] = n.tail[a]

\* add_arc: each pair of ends is an arc and its partner, which has no capacity.
Paired(ends) ==
  [a \in 1 .. 2 * Len(ends) |-> ends[(a + 1) \div 2]]
NetworkOf(nodes, ends) ==
  [nodes |-> nodes,
   tail |-> [a \in 1 .. 2 * Len(ends) |-> Paired(ends)[a][IF a % 2 = 1 THEN 1 ELSE 2]],
   head |-> [a \in 1 .. 2 * Len(ends) |-> Paired(ends)[a][IF a % 2 = 1 THEN 2 ELSE 1]]]

\* Mutant of ResidualOf: nothing flows back over a partner.
ResidualForward(c, f, a) == IF Signed(c[a]) > f[a] /\ f[a] >= 0 THEN Signed(c[a]) - f[a] ELSE 0

\* A capacity is cast to a signed integer, which a large one wraps.
ResidualOf(c, f, a) == IF Signed(c[a]) > f[a] THEN Signed(c[a]) - f[a] ELSE 0
Residual(a) == ResidualOf(cap, flow, a)

Out(v) == {a \in Arcs(net) : net.tail[a] = v}
Leaving(v) == SumFunctionOnSet(flow, Out(v))   \* less what enters it
ArcFlow(a) == IF flow[a] > 0 THEN flow[a] ELSE 0

-----------------------------------------------------------------------------
(* Between two calls the owner of the network changes capacities. *)

NoFlow(n) == [a \in Arcs(n) |-> 0]
Capacitated(n, c) ==
  c \in [Arcs(n) -> 0 .. U64Max] /\ \A a \in Arcs(n) \ Forward(n) : c[a] = 0

\* build, with the capacity of every arc.
Build(n, c) ==
  /\ solver = "idle"
  /\ net' = n /\ IsNetwork(net')
  /\ cap' = c /\ Capacitated(net', cap')
  /\ flow' = NoFlow(net')
  /\ level' = [v \in net'.nodes |-> -1] /\ cursor' = [v \in net'.nodes |-> 0]
  /\ queue' = <<>> /\ path' = <<>>
  /\ UNCHANGED <<call, total, work, solver, cancelled>>

\* Mutant of Reset: the flow of the call before stays.
ResetKeepsFlow(c) ==
  /\ solver = "idle"
  /\ cap' = c /\ Capacitated(net, cap')
  /\ UNCHANGED <<net, flow, level, cursor, queue, path, call, total, work, solver, cancelled>>

\* set_arc_capacity of some arcs, and reset_flows before the next call.
Reset(c) ==
  /\ solver = "idle"
  /\ cap' = c /\ Capacitated(net, cap')
  /\ flow' = NoFlow(net)
  /\ UNCHANGED <<net, level, cursor, queue, path, call, total, work, solver, cancelled>>

\* set_arc_capacity of arcs whose flow fits under their new capacity.
Raise(c) ==
  /\ solver = "idle"
  /\ cap' = c /\ Capacitated(net, cap')
  /\ \A a \in Arcs(net) : cap'[a] >= cap[a]
  /\ UNCHANGED <<net, flow, level, cursor, queue, path, call, total, work, solver, cancelled>>

-----------------------------------------------------------------------------
(* max_flow *)

\* charge_work: the step is counted, and the call ends when its budget is
\* exhausted or a check falls into the step and finds the token set.
Charge(units, next) ==
  /\ work' = work + units
  /\ solver' = CASE work + units > call.budget -> "exhausted"
                 [] (work + units) % CancelInterval < units /\ cancelled -> "cancelled"
                 [] OTHER -> next

\* The entry of the call; limit is U64Max for none.
Solve(source, sink, limit, budget) ==
  /\ solver = "idle"
  /\ source \in net.nodes /\ sink \in net.nodes \ {source}
  /\ limit \in 0 .. U64Max
  /\ call' = [source |-> source, sink |-> sink, limit |-> limit, budget |-> budget]
  /\ total' = 0 /\ work' = 0
  /\ solver' = IF cancelled THEN "cancelled" ELSE "levels"
  /\ level' = [v \in net.nodes |-> IF v = source THEN 0 ELSE -1]
  /\ queue' = <<source>>
  /\ path' = <<>>
  /\ UNCHANGED <<net, cap, flow, cursor, cancelled>>

\* The arcs a scan of v takes: the first to each head without a level, up to
\* the one that reaches the sink, which ends the scan.
Reaching(v) == {a \in Out(v) : level[net.head[a]] < 0 /\ Residual(a) > 0}
Heads(arcs) == [i \in DOMAIN arcs |-> net.head[arcs[i]]]
Taken(v) ==
  {a \in Reaching(v) :
     \A b \in Reaching(v) : b < a => net.head[b] \notin {net.head[a], call.sink}}

\* One node of the queue; what it reaches waits in the order of the arcs.
Scan ==
  /\ solver = "levels" /\ queue # <<>>
  /\ \E taken \in {Taken(Head(queue))} :
       LET found == {net.head[a] : a \in taken}
           onward == {a \in taken : net.head[a] # call.sink}
       IN  /\ level' = [w \in net.nodes |-> IF w \in found THEN level[Head(queue)] + 1
                                            ELSE level[w]]
           /\ queue' = Tail(queue) \o Heads(InOrder(onward))
  /\ Charge(Cardinality(Out(Head(queue))) + 1, "levels")
  /\ UNCHANGED <<net, cap, flow, cursor, path, call, total, cancelled>>

\* The level graph is complete.  Nothing is left to push when the sink is not
\* part of it.
Levelled ==
  /\ solver = "levels" /\ queue = <<>>
  /\ solver' = IF level[call.sink] < 0 THEN "reach" ELSE "search"
  /\ cursor' = [v \in net.nodes |-> 0]
  /\ path' = <<>>
  /\ UNCHANGED <<net, cap, flow, level, queue, call, total, work, cancelled>>

Top == IF path = <<>> THEN call.source ELSE net.head[path[Len(path)]]

\* The arcs out of v that were not tried and lead one level on.
Open(v) == {a \in Out(v) : /\ a > cursor[v]
                           /\ Residual(a) > 0
                           /\ level[net.head[a]] = level[v] + 1}

\* The first of them is pushed; what is tried is not tried again in this level
\* graph.
Advance ==
  /\ solver = "search" /\ Top # call.sink
  /\ \E a \in Open(Top) :
       /\ \A b \in Open(Top) : a <= b
       /\ path' = Append(path, a)
       /\ cursor' = [v \in net.nodes |-> IF v = Top THEN a ELSE cursor[v]]
  /\ Charge(Cardinality(Out(Top)) + 1, "search")
  /\ UNCHANGED <<net, cap, flow, level, queue, call, total, cancelled>>

\* Or the node is given up; without the source the level graph is done, and
\* the next one is begun.
Retreat ==
  /\ solver = "search" /\ Top # call.sink
  /\ Open(Top) = {}
  /\ IF path = <<>>
       THEN /\ level' = [v \in net.nodes |-> IF v = call.source THEN 0 ELSE -1]
            /\ queue' = <<call.source>>
            /\ path' = <<>>
            /\ Charge(Cardinality(Out(Top)) + 1, "levels")
       ELSE /\ level' = [v \in net.nodes |-> IF v = Top THEN -1 ELSE level[v]]
            /\ path' = SubSeq(path, 1, Len(path) - 1)
            /\ queue' = queue
            /\ Charge(Cardinality(Out(Top)) + 1, "search")
  /\ cursor' = [v \in net.nodes |-> IF v = Top THEN Len(net.tail) ELSE cursor[v]]
  /\ UNCHANGED <<net, cap, flow, call, total, cancelled>>

Remaining == IF call.limit > total THEN call.limit - total ELSE 0

\* What the path takes: the least residual on it, and no more than remains.
Bottlenecks ==
  {Residual(path[i]) : i \in DOMAIN path}
    \cup (IF call.limit # U64Max THEN {Remaining} ELSE {})

\* Mutant of Pushed: the partners keep their flow.
PushedForward(b) ==
  [a \in Arcs(net) |-> IF a \in {path[i] : i \in DOMAIN path} THEN flow[a] + b ELSE flow[a]]

Pushed(b) ==
  [a \in Arcs(net) |->
     CASE a \in {path[i] : i \in DOMAIN path} -> flow[a] + b
       [] Partner(a) \in {path[i] : i \in DOMAIN path} -> flow[a] - b
       [] OTHER -> flow[a]]

\* The path is kept up to its first saturated arc.
Augment ==
  /\ solver = "search" /\ Top = call.sink
  /\ \E b \in Bottlenecks :
       /\ \A r \in Bottlenecks : b <= r
       /\ b > 0
       /\ flow' = Pushed(b)
       /\ total' = total + b
  /\ LET saturated == {i \in DOMAIN path : ResidualOf(cap, flow', path[i]) = 0}
         kept == IF saturated = {} THEN 0
                 ELSE (CHOOSE i \in saturated : \A j \in saturated : i <= j) - 1
     IN  path' = SubSeq(path, 1, kept)
  /\ Charge(4 * Len(path) + 1, "search")
  /\ UNCHANGED <<net, cap, level, cursor, queue, call, cancelled>>

LimitReached ==
  /\ solver = "search" /\ Top = call.sink
  /\ 0 \in Bottlenecks
  /\ solver' = "reach"
  /\ UNCHANGED <<net, cap, flow, level, cursor, queue, path, call, total, work, cancelled>>

\* The nodes in reach of the source in what is left, which only the charge
\* counts.
Residue ==
  LET Onward(S) == {net.head[a] : a \in {b \in Arcs(net) : net.tail[b] \in S /\ Residual(b) > 0}}
      near[k \in 0 .. Cardinality(net.nodes)] ==
        IF k = 0 THEN {call.source} ELSE UNION {S \cup Onward(S) : S \in {near[k - 1]}}
  IN  near[Cardinality(net.nodes)]

Finish ==
  /\ solver = "reach"
  /\ Charge(Cardinality(Residue) + 1, "solved")
  /\ UNCHANGED <<net, cap, flow, level, cursor, queue, path, call, total, cancelled>>

Step == Scan \/ Levelled \/ Advance \/ Retreat \/ Augment \/ LimitReached \/ Finish

\* The answer is taken.
Answered ==
  /\ solver \in {"solved", "exhausted", "cancelled"}
  /\ solver' = "idle"
  /\ UNCHANGED <<net, cap, flow, level, cursor, queue, path, call, total, work, cancelled>>

\* Another thread asks for the end.
Cancel ==
  /\ cancelled' = TRUE
  /\ UNCHANGED <<net, cap, flow, level, cursor, queue, path, call, total, work, solver>>

-----------------------------------------------------------------------------
(* The solver on its own: whoever owns the network builds it, changes its   *)
(* capacities and calls max_flow, one at a time.                           *)

NoNetwork == [nodes |-> {}, tail |-> <<>>, head |-> <<>>]

FlowInit(nobody) ==
  /\ net = NoNetwork /\ cap = <<>> /\ flow = <<>>
  /\ level = <<>> /\ cursor = <<>> /\ queue = <<>> /\ path = <<>>
  /\ call = [source |-> nobody, sink |-> nobody, limit |-> 0, budget |-> 0]
  /\ total = 0 /\ work = 0 /\ solver = "idle" /\ cancelled = FALSE

Owned ==
  \/ Build(net', cap')
  \/ Reset(cap')
  \/ Raise(cap')
  \/ Solve(call'.source, call'.sink, call'.limit, call'.budget)
  \/ Answered

FlowNext == Owned \/ Step \/ Cancel

FlowSpec == (\E nobody : FlowInit(nobody)) /\ [][FlowNext]_flowVars

\* Every arc carries the opposite of its partner, and no more than its
\* capacity: no sequence of calls oversells a resource, nor sends anything
\* over it backwards (set_arc_capacity and the reuse of one network).
FlowIsFeasible ==
  \A a \in Arcs(net) : flow[a] + flow[Partner(a)] = 0 /\ flow[a] <= cap[a]

=============================================================================
