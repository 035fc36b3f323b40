------------------------------ MODULE MCEngine ------------------------------
(***************************************************************************)
(* Small fabrics for the evaluation: what flows over them is decided again  *)
(* by definitions that know nothing of networks, and compared.             *)
(***************************************************************************)
EXTENDS Walks

-----------------------------------------------------------------------------
(* Fabrics.  Nodes and edges are resources of the catalog; an edge is named *)
(* after the resource it draws on.                                         *)

NameOrder == <<"p", "m", "d", "g1", "g2", "A", "B", "r1", "r2",
               "fit-flow", "s", "a", "b", "t", "u", "v", "j", "e1", "e2", "e3", "e4", "e5", "e6", "e7">>
PlaceOf == [name \in Range(NameOrder) |-> CHOOSE i \in DOMAIN NameOrder : NameOrder[i] = name]
MCBefore(x, y) == PlaceOf[x] < PlaceOf[y]

MCDivisors == <<1, 4, 16>>

Good == [source |-> "measurement", class |-> "measured", authoritative |-> TRUE]
Anonymous == [Good EXCEPT !.source = None]
Predicted == [Good EXCEPT !.class = "predicted"]

Resource(id, units, domain) ==
  [id |-> id, generation |-> 1, reported |-> units, granularity |-> 0,
   authoritative |-> TRUE, present |-> TRUE, class |-> "measured",
   provenance |-> Good, domain |-> domain]
Node(id, transit) == [id |-> id, transit |-> transit, transitGeneration |-> 1]
Edge(id, from, to) ==
  [id |-> id, from |-> from, to |-> to, resource |-> id, resourceGeneration |-> 1,
   multiplicity |-> 1]
Demand(id, source, sink, magnitude, priority) ==
  [id |-> id, source |-> source, sink |-> sink, magnitude |-> magnitude, priority |-> priority]
Reservation(id, resource, amount) ==
  [id |-> id, generation |-> 1, resource |-> resource, resourceGeneration |-> 1,
   amount |-> amount, priority |-> 0, provenance |-> Good]
Degradation(resource, lost, ppm) ==
  [resource |-> resource, generation |-> 1, resourceGeneration |-> 1, lost |-> lost, ppm |-> ppm,
   provenance |-> Good]
Catalog(records) == [generation |-> 1, provenance |-> Good, records |-> records]

MCLimits == [population |-> 14, capacity |-> (U64Max + 1) \div 4, priority |-> 3,
             scenarios |-> 3, bottlenecks |-> 2, work |-> 2000,
             samples |-> 4]

Plain == [id |-> "p", generation |-> 1, headroom |-> 0, headroomPpm |-> 0,
          resilience |-> "none", rejectUnknown |-> FALSE, singleSlice |-> FALSE,
          provenance |-> Good]
Shape(granularity, flows) ==
  [id |-> "d", generation |-> 1, granularity |-> granularity, provenance |-> Good,
   flows |-> flows]
Model(shape) ==
  [id |-> "m", generation |-> 1, policy |-> "p", policyGeneration |-> 1,
   shape |-> IF shape = None THEN None ELSE "d",
   shapeGeneration |-> IF shape = None THEN 0 ELSE 1, provenance |-> Good]

\* Names of nodes, edges as <<id, from, to>>, and for each slot its units and
\* its domain.
Problem(nodes, edges, transit, units, domain, shape) ==
  [kind |-> "evaluate", limits |-> MCLimits,
   resources |-> Catalog([i \in DOMAIN nodes |-> Resource(nodes[i], 0, None)]
                           \o [i \in DOMAIN units |-> Resource(units[i][1], units[i][2], domain[i])]),
   topology |-> [generation |-> 1, provenance |-> Good,
                 nodes |-> [i \in DOMAIN nodes |->
                              Node(nodes[i], IF nodes[i] = transit[1] THEN transit[2] ELSE None)],
                 edges |-> [i \in DOMAIN edges |-> Edge(edges[i][1], edges[i][2], edges[i][3])]],
   reservations |-> Catalog(<<>>), degradation |-> Catalog(<<>>),
   domains |-> Catalog(<<[id |-> "g1", generation |-> 1, healthy |-> TRUE, provenance |-> Good],
                         [id |-> "g2", generation |-> 1, healthy |-> TRUE, provenance |-> Good]>>),
   policy |-> Plain, shape |-> shape, model |-> Model(shape),
   query |-> [source |-> None, sink |-> None, magnitude |-> 0, granularity |-> 0,
              resilience |-> "none"]]

Untransited == <<None, None>>
OneFlow(magnitude) == <<Demand("A", "s", "t", magnitude, 0)>>

\* Two paths that share an edge, and one across: the units of each edge, and
\* which domains they are in.
Crossing(units, domains, shape) ==
  Problem(<<"s", "a", "b", "t">>,
          << <<"e1", "s", "a">>, <<"e2", "s", "b">>, <<"e3", "a", "t">>,
             <<"e4", "b", "t">>, <<"e5", "a", "b">> >>,
          Untransited,
          << <<"e1", units[1]>>, <<"e2", units[2]>>, <<"e3", units[3]>>,
             <<"e4", units[4]>>, <<"e5", units[5]>> >>,
          domains, shape)

\* Every path has three edges, and the first one found must be taken back.
Detour(units, domains, shape) ==
  Problem(<<"s", "a", "b", "t", "u", "v">>,
          << <<"e1", "s", "a">>, <<"e2", "a", "b">>, <<"e3", "b", "t">>, <<"e4", "s", "u">>,
             <<"e5", "u", "b">>, <<"e6", "a", "v">>, <<"e7", "v", "t">> >>,
          Untransited,
          << <<"e1", units[1]>>, <<"e2", units[2]>>, <<"e3", units[3]>>, <<"e4", units[4]>>,
             <<"e5", units[5]>>, <<"e6", units[6]>>, <<"e7", units[7]>> >>,
          domains, shape)

\* A relay of limited transit, with a spur that leads nowhere.
Relay(units, domains, shape) ==
  Problem(<<"s", "a", "b", "t">>,
          << <<"e1", "s", "a">>, <<"e2", "a", "t">>, <<"e3", "a", "b">> >>,
          <<"a", "j">>,
          << <<"j", units[1]>>, <<"e1", units[2]>>, <<"e2", units[3]>>, <<"e3", units[4]>> >>,
          domains, shape)

\* Two flows that share a relay.
Sharing(units, shape) ==
  Problem(<<"s", "u", "a", "t", "v">>,
          << <<"e1", "s", "a">>, <<"e2", "u", "a">>, <<"e3", "a", "t">>, <<"e4", "a", "v">> >>,
          <<"a", "j">>,
          << <<"j", units[1]>>, <<"e1", units[2]>>, <<"e2", units[3]>>,
             <<"e3", units[4]>>, <<"e4", units[5]>> >>,
          <<None, "g1", "g2", "g1", "g2">>, shape)

\* Two flows whose edges meet head on: no walk leads from "u" to "v".
Opposing ==
  Problem(<<"s", "t", "u", "v">>,
          << <<"e1", "s", "t">>, <<"e2", "u", "t">>, <<"e3", "s", "v">> >>,
          Untransited,
          << <<"e1", 1>>, <<"e2", 1>>, <<"e3", 1>> >>,
          <<None, None, None>>,
          Shape(0, <<Demand("A", "s", "t", 1, 1), Demand("B", "u", "v", 1, 2)>>))

WithPolicy(p, change) == [p EXCEPT !.policy = [x \in DOMAIN p.policy |->
                            IF x \in DOMAIN change THEN change[x] ELSE p.policy[x]]]
Resilient(p, mode) == WithPolicy(p, [resilience |-> mode])

-----------------------------------------------------------------------------
(* Problems. *)

Crossings ==
  {Resilient(Crossing(units, <<"g1", "g2", "g1", "g2", None>>, Shape(0, OneFlow(3))), mode) :
     units \in {u \in [1 .. 5 -> {1, 2}] : u[5] = 1 \/ u[2] = 2}, mode \in {"none", "n1", "n1n1"}}

Detours ==
  {Resilient(Detour(units, <<"g1", "g1", "g1", None, None, None, "g2">>, Shape(0, OneFlow(4))), mode) :
     units \in {<<1, 1, 1, 1, 1, 1, 1>>, <<2, 2, 2, 2, 1, 2, 1>>}, mode \in {"none", "n1"}}

Relays ==
  {WithPolicy(Relay(units, domains, Shape(granularity, OneFlow(3))),
              [resilience |-> mode, singleSlice |-> single]) :
     units \in {<<2, 3, 3, 1>>, <<4, 3, 3, 0>>, <<0, 1, 1, 1>>},
     domains \in {<<None, "g1", "g2", "g2">>, <<"g1", "g1", None, None>>},
     granularity \in {0, 2}, mode \in {"none", "n1", "n1n1"}, single \in BOOLEAN}

Shared ==
  {WithPolicy(Sharing(units, Shape(granularity,
                <<Demand("A", "s", "t", 3, first), Demand("B", "u", "v", 2, 1)>>)),
              [resilience |-> mode, singleSlice |-> single]) :
     units \in {<<3, 2, 3, 3, 2>>, <<9, 1, 2, 1, 2>>}, granularity \in {0, 2}, first \in {0, 2},
     mode \in {"none", "n1"}, single \in BOOLEAN}

Base == Relay(<<4, 5, 6, 2>>, <<"g1", "g1", "g2", None>>, Shape(1, OneFlow(4)))
Shapeless(p) == [p EXCEPT !.shape = None, !.model = Model(None)]

Deducted ==
  LET reserved == {<<>>, <<Reservation("r1", "e1", 2)>>,
                   <<Reservation("r1", "j", 1), Reservation("r2", "j", 2)>>,
                   <<Reservation("r1", "e1", 3), Reservation("r2", "e1", 3)>>}
      degraded == {<<>>, <<Degradation("e2", 2, 0), Degradation("e2", 0, 3)>>,
                   <<Degradation("j", 0, Ppm)>>}
      policies == {Plain, [Plain EXCEPT !.headroom = 1, !.headroomPpm = 3],
                   [Plain EXCEPT !.headroomPpm = Ppm, !.resilience = "n1"]}
  IN  {[Base EXCEPT !.reservations = Catalog(r), !.degradation = Catalog(d), !.policy = p] :
         r \in reserved, d \in degraded, p \in policies}

SetResource(p, id, change) ==
  [p EXCEPT !.resources.records = [i \in DOMAIN p.resources.records |->
     IF p.resources.records[i].id # id THEN p.resources.records[i]
     ELSE [x \in DOMAIN p.resources.records[i] |->
             IF x \in DOMAIN change THEN change[x] ELSE p.resources.records[i][x]]]]

Impaired ==
  {SetResource(Base, "j", [authoritative |-> FALSE]),
   SetResource(Base, "e2", [authoritative |-> FALSE, class |-> "external"]),
   SetResource(Base, "e1", [present |-> FALSE]),
   SetResource(SetResource(Base, "e3", [authoritative |-> FALSE]), "e2", [reported |-> 0]),
   [Base EXCEPT !.domains.records[1].healthy = FALSE],
   [Resilient(Base, "n1") EXCEPT !.domains.records[2].healthy = FALSE,
                                 !.reservations = Catalog(<<Reservation("r1", "e2", 6)>>)],
   WithPolicy(SetResource(Base, "e3", [authoritative |-> FALSE]), [rejectUnknown |-> TRUE]),
   Shapeless(Base), Shapeless(SetResource(Base, "e1", [present |-> FALSE]))}

\* Near the limits: totals that do not fit, budgets that run out, capacities
\* that wrap when they are cast.
Large == (U64Max + 1) \div 4
Limited ==
  {Relay(<<Large, Large, Large, Large>>, <<None, None, None, None>>, Shape(0, OneFlow(3))),
   Relay(<<Large, Large, 0, 0>>, <<None, None, None, None>>, Shape(0, OneFlow(3))),
   Shapeless(Relay(<<Large, Large, Large, Large>>, <<None, None, None, None>>, None)),
   [Base EXCEPT !.limits.work = 10], [Base EXCEPT !.limits.work = 45],
   [Resilient(Base, "n1") EXCEPT !.limits.scenarios = 1],
   [Base EXCEPT !.limits.population = 2],
   [Base EXCEPT !.policy.headroomPpm = Ppm - 1, !.resources.records[5].reported = Large]}

\* One thing wrong each.
Wrong ==
  {[Base EXCEPT !.model.policyGeneration = 2], [Base EXCEPT !.model.shapeGeneration = 2],
   [Base EXCEPT !.shape = None], [Base EXCEPT !.model = Model(None)],
   [Base EXCEPT !.topology.edges[1].resourceGeneration = 2],
   [Base EXCEPT !.topology.nodes[2].transit = "e1"],
   [Base EXCEPT !.topology.edges[2].resource = "e1"],
   [Base EXCEPT !.topology.nodes = SubSeq(@, 1, 3)],
   [Base EXCEPT !.shape.flows[1].sink = "e1"],
   [Base EXCEPT !.shape.flows[1].sink = "s"],
   [Base EXCEPT !.degradation = Catalog(<<Degradation("e1", 1, 1)>>)],
   [Base EXCEPT !.degradation = Catalog(<<Degradation("e1", 6, 0)>>)],
   [Base EXCEPT !.degradation = Catalog(<<[Degradation("e1", 1, 0) EXCEPT !.provenance = Anonymous]>>)],
   [Base EXCEPT !.reservations = Catalog(<<[Reservation("r1", "e1", 1) EXCEPT !.resourceGeneration = 2]>>)],
   SetResource(Base, "e1", [provenance |-> Anonymous]),
   SetResource(Base, "e1", [provenance |-> Predicted]),
   SetResource(Base, "e1", [domain |-> "g3"])}

Queries ==
  {[p EXCEPT !.kind = "fit", !.query =
      [source |-> "s", sink |-> sink, magnitude |-> magnitude, granularity |-> granularity,
       resilience |-> mode]] :
     p \in {Base, Crossing(<<2, 1, 1, 2, 1>>, <<"g1", "g2", "g1", "g2", None>>, None)},
     sink \in {"s", "a", "t", "e1"}, magnitude \in {0, 2, 3, 5}, granularity \in {0, 2},
     mode \in {"none", "n1"}}

\* Observations of "a" that rise, fall or do not fit, with some that must not
\* count, some at the limits of the window, and some of "b".
Now == 40
Observed(resource, time, units) ==
  [resource |-> resource, at |-> time, units |-> units, class |-> "measured", authoritative |-> TRUE]
Histories ==
  LET series == {<<Observed("a", 30, u), Observed("a", 34, v), Observed("a", 38, w)>> :
                   u \in {2, 200}, v \in {9, I64Max}, w \in {2, 40, I64Max + 2}}
      others == {<<>>, <<[Observed("a", 39, 77) EXCEPT !.class = "predicted"]>>,
                 <<[Observed("a", 39, 77) EXCEPT !.authoritative = FALSE], Observed("a", 41, 30)>>,
                 <<Observed("a", 45, 77), Observed("a", 4, 77), Observed("a", 38, 40)>>,
                 <<Observed("b", 29, 5), Observed("b", 39, 7)>>}
  IN  {<<>>} \cup {o \o s : s \in series, o \in others}

Predicting ==
  {[kind |-> "predict", now |-> Now, limits |-> MCLimits,
    request |-> [resource |-> resource, horizon |-> horizon, model |-> model, minimum |-> 2,
                 maxAge |-> 21, maxExtrapolation |-> 24, growth |-> growth, movement |-> IF growth = 0 THEN 25 ELSE 3,
                 alpha |-> 7, history |-> history]] :
     resource \in {None, "a"}, horizon \in {0, 36, 60, 70}, growth \in {0, 30},
     model \in {"last-value", "bounded-linear-trend", "ewma-level"}, history \in Histories}

MCProblems ==
  Crossings \cup Detours \cup Relays \cup Shared \cup {Opposing} \cup Deducted \cup Impaired \cup Limited \cup Wrong
    \cup Queries \cup Predicting

MCOpposing == {Opposing}

-----------------------------------------------------------------------------
(* Properties. *)

\* Every evaluation ends: solves, scenarios and flows come to an end, or the
\* budget of work does.
EvaluationEnds == <>(at = "done")

=============================================================================
