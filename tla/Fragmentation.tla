--------------------------- MODULE Fragmentation ----------------------------
(***************************************************************************)
(* How much of the available capacity a demand shape can use, and why it    *)
(* cannot use the rest: engine/fragmentation.cpp over the accounting and    *)
(* the solver.                                                             *)
(*                                                                         *)
(* analyse_fragmentation builds one network, and solves on it: from a       *)
(* source of all flows to a sink of all, with everything in place and with  *)
(* the domains of each scenario lost, and then flow by flow, on what the    *)
(* flows before left.                                                      *)
(***************************************************************************)
EXTENDS Accounting, Flow

VARIABLES
  in,       \* the inputs of the evaluation, or of a fit query
  at,       \* where the evaluation is
  rows,     \* the accounting
  tally,    \* the local variables of analyse_fragmentation
  answer    \* what is returned: nothing yet, an error or a result

analysis == <<in, at, rows, tally, answer>>

Unanswered == [status |-> "none"]
Fail(status) == at' = "done" /\ answer' = [status |-> status]

-----------------------------------------------------------------------------
(* The network of a demand shape. *)

In(node) == <<"in", node>>
Out_(node) == <<"out", node>>
SlotIn(resource) == <<"slot-in", resource>>
SlotOut(resource) == <<"slot-out", resource>>
SuperSource == <<"super", "source">>
SuperSink == <<"super", "sink">>

\* Flows in the order in which they are placed.
Ordered(shape) ==
  SortedBy(shape.flows,
           LAMBDA a, b : \/ a.priority < b.priority
                         \/ a.priority = b.priority /\ Before(a.id, b.id))

\* The resources that capacity is drawn from, in the order of the topology.
Slots(topology) ==
  Field(InOrder(Transits(topology.nodes)), LAMBDA i : topology.nodes[i].transit)
    \o Field(topology.edges, LAMBDA edge : edge.resource)

NodeArcs(node) ==
  IF node.transit = None
    THEN << <<In(node.id), Out_(node.id)>> >>
    ELSE << <<In(node.id), SlotIn(node.transit)>>, <<SlotOut(node.transit), Out_(node.id)>> >>
EdgeArcs(edge) ==
  << <<Out_(edge.from), SlotIn(edge.resource)>>, <<SlotOut(edge.resource), In(edge.to)>> >>
FlowArcs(demand) ==
  << <<SuperSource, Out_(demand.source)>>, <<In(demand.sink), SuperSink>> >>

Ends(topology, flows) ==
  Field(Slots(topology), LAMBDA slot : <<SlotIn(slot), SlotOut(slot)>>)
    \o FlattenSeq(Field(topology.nodes, NodeArcs))
    \o FlattenSeq(Field(topology.edges, EdgeArcs))
    \o FlattenSeq(Field(flows, FlowArcs))

Names(topology) == Range(Identities(topology.nodes))

Vertices(topology) ==
  {In(v) : v \in Names(topology)} \cup {Out_(v) : v \in Names(topology)}
    \cup {SlotIn(s) : s \in Range(Slots(topology))}
    \cup {SlotOut(s) : s \in Range(Slots(topology))}
    \cup {SuperSource, SuperSink}

Assemble(topology, flows) == NetworkOf(Vertices(topology), Ends(topology, flows))

\* add_arc's budget of arcs.
ArcBudget(limits) == 4 * (3 * limits.population) + 64

Assemblable(in_, rows_, flows) ==
  /\ Fits(Field(rows_, LAMBDA row : row.available))
  /\ \A e \in DOMAIN in_.topology.edges :
       {in_.topology.edges[e].from, in_.topology.edges[e].to} \subseteq Names(in_.topology)
  /\ \A f \in DOMAIN flows : {flows[f].source, flows[f].sink} \subseteq Names(in_.topology)
  /\ 2 * Len(Ends(in_.topology, flows)) <= ArcBudget(in_.limits)

RowOf(rows_, resource) ==
  rows_[CHOOSE i \in DOMAIN rows_ : rows_[i].resource = resource]

AvailableTotal(rows_) == Sum(rows_, LAMBDA row : row.available)
Infinity(rows_) == IF AvailableTotal(rows_) = 0 THEN 1 ELSE AvailableTotal(rows_)

SlotArc(topology, resource) ==
  2 * (CHOOSE i \in DOMAIN Slots(topology) : Slots(topology)[i] = resource) - 1

\* Mutant of Capacities: what is lost still has its units.
CapacitiesUnlost(topology, rows_, arcs, lost) ==
  [a \in 1 .. arcs |->
     IF a % 2 = 0 THEN 0
     ELSE LET i == (a + 1) \div 2
          IN  IF i > Len(Slots(topology)) THEN Infinity(rows_)
              ELSE RowOf(rows_, Slots(topology)[i]).available]

\* A slot has the arc of its place.  Its capacity is what the row leaves
\* available, or nothing when its domain is lost.
Capacities(topology, rows_, arcs, lost) ==
  [a \in 1 .. arcs |->
     IF a % 2 = 0 THEN 0
     ELSE LET i == (a + 1) \div 2
          IN  IF i > Len(Slots(topology)) THEN Infinity(rows_)
              ELSE IF Slots(topology)[i] \in lost THEN 0
              ELSE RowOf(rows_, Slots(topology)[i]).available]

\* Everything in reach of an origin along pairs of tail and head, capacity
\* ignored.
Reach(pairs, origin, nodes) ==
  LET Onward(S) == {p[2] : p \in {q \in pairs : q[1] \in S}}
      near[k \in 0 .. Cardinality(nodes)] ==
        IF k = 0 THEN {origin} ELSE UNION {S \cup Onward(S) : S \in {near[k - 1]}}
  IN  near[Cardinality(nodes)]
Reversed(pairs) == {<<p[2], p[1]>> : p \in pairs}

\* Mutant of Admissible: what is entered is admissible, whether or not it leads on.
AdmissibleEntered(topology, flows) ==
  {v[2] : v \in Reach(Range(Ends(topology, flows)), SuperSource, Vertices(topology))
                   \cap {SlotIn(s) : s \in Range(Slots(topology))}}

\* row_admissible: the resource lies between the sources and the sinks.
Admissible(topology, flows) ==
  LET pairs == Range(Ends(topology, flows))
      entered == Reach(pairs, SuperSource, Vertices(topology))
                   \cap {SlotIn(s) : s \in Range(Slots(topology))}
      left == Reach(Reversed(pairs), SuperSink, Vertices(topology))
                \cap {SlotOut(s) : s \in Range(Slots(topology))}
  IN  {v[2] : v \in entered} \cap {v[2] : v \in left}

\* Mutant of QuantizeDown: to the next grain.
QuantizeUp(value, granularity) ==
  IF granularity = 0 THEN value
  ELSE ((value + granularity - 1) \div granularity) * granularity

QuantizeDown(value, granularity) ==
  IF granularity = 0 THEN value ELSE (value \div granularity) * granularity

-----------------------------------------------------------------------------
(* build_scenarios *)

\* The domains that hold a slot and are not lost already, in their order.
Losable(topology, rows_) ==
  LET exposed == {RowOf(rows_, s) : s \in Range(Slots(topology))}
        intact == {row.domain : row \in {r \in exposed : r.domain # None /\ r.healthy}}
  IN  SortedBy(SetToSeq(intact), Before)
LostWith(topology, rows_, domains) ==
  {s \in Range(Slots(topology)) : RowOf(rows_, s).domain \in domains}

DomainSets(domains, mode) ==
  CASE mode = "none" -> <<>>
    [] mode = "n1"   -> Field(domains, LAMBDA d : {d})
    [] mode = "n1n1" -> FlattenSeq([i \in DOMAIN domains |->
                          Field(SubSeq(domains, i + 1, Len(domains)), LAMBDA d : {domains[i], d})])
Scenarios(topology, rows_, mode) ==
  Field(DomainSets(Losable(topology, rows_), mode),
        LAMBDA domains : LostWith(topology, rows_, domains))

-----------------------------------------------------------------------------
(* The analysis. *)

\* What the evaluation goes on with when the network can be built; a fit
\* query has its own policy and a shape of one flow.
BeginAnalysis(shape, resilience, singleSlice) ==
  \E flows \in {Ordered(shape)} :
      IF cancelled
        THEN Fail("cancelled") /\ UNCHANGED <<in, rows, tally, flowVars>>
      ELSE IF ~ Assemblable(in, rows, flows)
        THEN Fail("rejected") /\ UNCHANGED <<in, rows, tally, flowVars>>
        ELSE /\ Build(Assemble(in.topology, flows),
                      Capacities(in.topology, rows, 2 * Len(Ends(in.topology, flows)), {}))
             /\ tally' = [flows |-> flows, granularity |-> shape.granularity,
                          resilience |-> resilience, singleSlice |-> singleSlice,
                          base |-> 0, deliverable |-> 0, used |-> <<>>,
                          scenarios |-> <<>>, examined |-> 0,
                          breakdown |-> NothingStranded, reservedStranded |-> 0,
                          budget |-> 0, satisfied |-> 0, granularityLoss |-> 0,
                          quantized |-> 0, fits |-> <<>>]
             /\ at' = "base"
             /\ UNCHANGED <<in, rows, answer>>

SolveAll(phase) ==
  /\ at = phase
  /\ Solve(SuperSource, SuperSink, U64Max, in.limits.work)
  /\ UNCHANGED analysis

SolveBase == SolveAll("base")
SolveScenario == SolveAll("lost")

\* A solve that was cancelled or ran out of work ends the analysis.
SolveFailed ==
  /\ solver \in {"exhausted", "cancelled"}
  /\ Answered
  /\ Fail(solver)
  /\ UNCHANGED <<in, rows, tally>>

\* Resources off every path of the shape are marked, and the scenarios listed.
BaseSolved ==
  /\ at = "base" /\ solver = "solved"
  /\ Answered
  /\ \E scenarios \in {Scenarios(in.topology, rows, tally.resilience)},
        admissible \in {Admissible(in.topology, tally.flows)} :
         IF Len(scenarios) > in.limits.scenarios
           THEN Fail("exhausted") /\ UNCHANGED <<rows, tally>>
           ELSE /\ rows' = [i \in DOMAIN rows |->
                              [rows[i] EXCEPT !.admissible = rows[i].resource \in admissible]]
                /\ tally' = [tally EXCEPT
                     !.base = total, !.deliverable = total, !.scenarios = scenarios,
                     !.used = [i \in DOMAIN rows |->
                                 IF rows[i].resource \in Range(Slots(in.topology))
                                   THEN ArcFlow(SlotArc(in.topology, rows[i].resource))
                                   ELSE 0]]
                /\ at' = "scenarios"
                /\ UNCHANGED answer
  /\ UNCHANGED in

\* Mutant of LoseDomains: capacity is taken from under the flow.
LoseDomainsInPlace ==
  /\ at = "scenarios" /\ tally.scenarios # <<>>
  /\ IF cancelled
       THEN Fail("cancelled") /\ UNCHANGED <<in, rows, tally, flowVars>>
       ELSE /\ cap' = Capacities(in.topology, rows, Len(net.tail), Head(tally.scenarios))
            /\ at' = "lost"
            /\ UNCHANGED <<in, rows, tally, answer, net, flow, level, cursor, queue, path,
                           call, total, work, solver, cancelled>>

\* The resources of a scenario lose their capacity, and the network its flow.
LoseDomains ==
  /\ at = "scenarios" /\ tally.scenarios # <<>>
  /\ IF cancelled
       THEN Fail("cancelled") /\ UNCHANGED <<in, rows, tally, flowVars>>
       ELSE /\ Reset(Capacities(in.topology, rows, Len(net.tail), Head(tally.scenarios)))
            /\ at' = "lost"
            /\ UNCHANGED <<in, rows, tally, answer>>

\* Mutant of ScenarioSolved: the scenario is not taken from the list.
ScenarioStays ==
  /\ at = "lost" /\ solver = "solved"
  /\ Answered
  /\ tally' = [tally EXCEPT !.deliverable = IF total < @ THEN total ELSE @]
  /\ at' = "regain"
  /\ UNCHANGED <<in, rows, answer>>

ScenarioSolved ==
  /\ at = "lost" /\ solver = "solved"
  /\ Answered
  /\ tally' = [tally EXCEPT !.deliverable = IF total < @ THEN total ELSE @,
                            !.scenarios = Tail(@), !.examined = @ + 1]
  /\ at' = "regain"
  /\ UNCHANGED <<in, rows, answer>>

\* They get it back; their flow stays until the next reset.
RegainDomains ==
  /\ at = "regain"
  /\ Raise(Capacities(in.topology, rows, Len(net.tail), {}))
  /\ at' = "scenarios"
  /\ UNCHANGED <<in, rows, tally, answer>>

\* Why what is not deliverable is stranded: the resources off every path,
\* what the scenarios take, and bottlenecks for the rest.
Segmented == Sum(rows, LAMBDA row : IF row.admissible THEN 0 ELSE row.available)
SegmentedReserved == Field(rows, LAMBDA row : IF row.admissible THEN 0 ELSE row.reserved)
Attributable ==
  /\ tally.deliverable <= AvailableTotal(rows)
  /\ Segmented <= AvailableTotal(rows) - tally.deliverable
  /\ tally.base - tally.deliverable
       <= AvailableTotal(rows) - tally.deliverable - Segmented

\* What a row shows as stranded on it: an upper bound.
Witnessed(row, used) ==
  IF ~ row.admissible
    THEN [row EXCEPT !.stranded = row.available, !.cause = "segmentation"]
  ELSE IF row.available > used
    THEN [row EXCEPT !.stranded = row.available - used, !.cause = "bottleneck"]
    ELSE [row EXCEPT !.stranded = 0, !.cause = "none"]

Attribute ==
  /\ at = "scenarios" /\ tally.scenarios = <<>>
  /\ IF ~ Attributable
       THEN Fail("contradictory") /\ UNCHANGED <<in, rows, tally, flowVars>>
       ELSE /\ Reset(cap)
            /\ rows' = [i \in DOMAIN rows |-> Witnessed(rows[i], tally.used[i])]
            /\ tally' = [tally EXCEPT
                 !.breakdown = [segmentation |-> Segmented,
                                bottleneck |-> (AvailableTotal(rows) - tally.deliverable)
                                                 - Segmented - (tally.base - tally.deliverable),
                                resilience |-> tally.base - tally.deliverable],
                 !.reservedStranded = IF Fits(SegmentedReserved)
                                        THEN Accumulated(SegmentedReserved) ELSE 0,
                 !.budget = tally.deliverable]
            /\ at' = "place"
            /\ UNCHANGED <<in, answer>>

-----------------------------------------------------------------------------
(* The allocation: each flow is pushed over what the flows before it left. *)

Placing == tally.flows[Len(tally.fits) + 1]
Wanted == QuantizeDown(Placing.magnitude, tally.granularity)

\* Mutant of PlaceFlow: a flow may take more than what is deliverable leaves.
PlaceFlowUnbudgeted ==
  /\ at = "place" /\ Len(tally.fits) < Len(tally.flows)
  /\ IF ~ AddFits(tally.quantized, Wanted)
       THEN Fail("rejected") /\ UNCHANGED <<in, rows, tally, flowVars>>
       ELSE /\ Solve(Out_(Placing.source), In(Placing.sink), Wanted, in.limits.work)
            /\ tally' = [tally EXCEPT !.quantized = @ + Wanted]
            /\ at' = "placing"
            /\ UNCHANGED <<in, rows, answer>>

PlaceFlow ==
  /\ at = "place" /\ Len(tally.fits) < Len(tally.flows)
  /\ IF ~ AddFits(tally.quantized, Wanted)
       THEN Fail("rejected") /\ UNCHANGED <<in, rows, tally, flowVars>>
       ELSE /\ Solve(Out_(Placing.source), In(Placing.sink),
                     IF Wanted < tally.budget THEN Wanted ELSE tally.budget, in.limits.work)
            /\ tally' = [tally EXCEPT !.quantized = @ + Wanted]
            /\ at' = "placing"
            /\ UNCHANGED <<in, rows, answer>>

\* What was pushed stays in the network and in the budget, also when the flow
\* is granted less.
FlowPlaced ==
  /\ at = "placing" /\ solver = "solved"
  /\ Answered
  /\ LET whole == QuantizeDown(total, tally.granularity)
         admitted == IF tally.singleSlice /\ whole < Placing.magnitude THEN 0 ELSE whole
     IN  IF ~ AddFits(tally.satisfied, admitted)
           THEN Fail("rejected") /\ UNCHANGED tally
           ELSE /\ tally' = [tally EXCEPT
                     !.granularityLoss = @ + (total - admitted),
                     !.budget = @ - total,
                     !.satisfied = @ + admitted,
                     !.fits = Append(@, [id |-> Placing.id, admitted |-> admitted,
                                         unmet |-> Placing.magnitude - admitted,
                                         satisfied |-> admitted >= Placing.magnitude])]
                /\ at' = "place"
                /\ UNCHANGED answer
  /\ UNCHANGED <<in, rows>>

AllPlaced == at = "place" /\ Len(tally.fits) = Len(tally.flows)

\* The resources shown to be short: admissible ones with units left over, or
\* those off every path, the largest first.
Worst(of, limit) ==
  LET sorted == SortSeq(of, LAMBDA a, b : \/ a.stranded > b.stranded
                                          \/ a.stranded = b.stranded /\ Before(a.resource, b.resource))
  IN  Field(SubSeq(sorted, 1, IF Len(sorted) < limit THEN Len(sorted) ELSE limit),
            LAMBDA row : row.resource)

NotAnalysed == [evaluated |-> FALSE]
Fragmentation ==
  [evaluated |-> TRUE, exact |-> Len(tally.flows) = 1,
   unresilient |-> tally.base, deliverable |-> tally.deliverable,
   satisfied |-> tally.satisfied, spare |-> tally.deliverable - tally.satisfied,
   upper |-> IF tally.quantized < tally.deliverable THEN tally.quantized ELSE tally.deliverable,
   granularityLoss |-> tally.granularityLoss, breakdown |-> tally.breakdown,
   reservedStranded |-> tally.reservedStranded, fits |-> tally.fits,
   examined |-> tally.examined, resilient |-> tally.examined # 0,
   bottlenecks |-> Worst(SelectSeq(rows, LAMBDA row : row.admissible /\ row.stranded # 0),
                         in.limits.bottlenecks),
   segments |-> Worst(SelectSeq(rows, LAMBDA row : ~ row.admissible /\ row.available # 0),
                      in.limits.bottlenecks)]

-----------------------------------------------------------------------------
(* fit_query: a shape of one flow, under a policy of its own. *)

AcceptedQuery(query) ==
  /\ query.source # None /\ query.sink # None /\ query.source # query.sink
  /\ query.magnitude <= in.limits.capacity

QueryShape(query) ==
  [granularity |-> query.granularity,
   flows |-> << [id |-> "fit-flow", source |-> query.source, sink |-> query.sink,
                 magnitude |-> query.magnitude, priority |-> 0] >>]

QueryAnswer(query) ==
  [status |-> "ok", exact |-> TRUE, admitted |-> tally.fits[1].admitted,
   deliverable |-> tally.deliverable, breakdown |-> tally.breakdown,
   examined |-> tally.examined,
   satisfiable |-> tally.fits[1].admitted >= QuantizeDown(query.magnitude, query.granularity)]

AnalysisStep ==
  \/ SolveBase \/ SolveScenario \/ SolveFailed \/ BaseSolved \/ LoseDomains
  \/ ScenarioSolved \/ RegainDomains \/ Attribute \/ PlaceFlow \/ FlowPlaced

=============================================================================
