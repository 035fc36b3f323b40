-------------------------------- MODULE Walks --------------------------------
(***************************************************************************)
(* What may flow over a topology, decided without a network: by walks from  *)
(* edge to edge and by cuts of the resources they draw on.  What the        *)
(* analysis answers is compared with it.                                   *)
(***************************************************************************)
EXTENDS Evaluation

-----------------------------------------------------------------------------
(* Walks *)

EdgeSet(topology) == Range(topology.edges)
TransitOf(topology, node) == Find(topology.nodes, node).transit

\* One step of a walk that avoids what is cut: onto an edge out of a source,
\* or from an edge through a node onto the next.  An edge goes by the resource
\* it draws on, and nowhere by None.
Strides(topology, sources, cut) ==
  LET usable == {e \in EdgeSet(topology) : e.resource \notin cut}
      onward == {p \in usable \X usable :
                   p[1].to = p[2].from /\ TransitOf(topology, p[2].from) \notin cut}
  IN  {<<None, e.resource>> : e \in {d \in usable : d.from \in sources}}
        \cup {<<p[1].resource, p[2].resource>> : p \in onward}

\* The edges that a walk from the sources can get to.
Walked(topology, sources, cut) ==
  LET drawn == {e.resource : e \in EdgeSet(topology)}
      known == Reach(Strides(topology, sources, cut), None, drawn \cup {None})
  IN  {e \in EdgeSet(topology) : e.resource \in known}
Joins(topology, sources, sinks, cut) ==
  \E e \in Walked(topology, sources, cut) : e.to \in sinks

-----------------------------------------------------------------------------
(* Cuts, as units the slots have and what the policy asks to survive *)

Weigh(units, slots) == SumFunctionOnSet(units, slots)

\* The least units that separate the sinks from the sources once some slots
\* are lost.
Separating(topology, sources, sinks, lost) ==
  {cut \in SUBSET (Range(Slots(topology)) \ lost) : ~ Joins(topology, sources, sinks, cut \cup lost)}
LeastCut(topology, sources, sinks, units, lost) ==
  Min({Weigh(units, cut) : cut \in Separating(topology, sources, sinks, lost)})

\* What every slot of the analysis has, and the domain it is in.
UnitsOf == [s \in SlotSet |-> RowOf(rows, s).available]
DomainOf == [s \in SlotSet |-> RowOf(rows, s).domain]
MinimumCut(lost) == LeastCut(in.topology, Sources, Sinks, UnitsOf, lost)

\* The losses that a policy or a query asks to survive: of no domain, and of as
\* many healthy ones as its mode says.
Tolerated(domainOf, domains, mode) ==
  LET healthy == {d \in Range(domainOf) \ {None} : Find(domains.records, d).healthy}
      size == CASE mode = "none" -> 0 [] mode = "n1" -> 1 [] mode = "n1n1" -> 2
  IN  {{s \in DOMAIN domainOf : domainOf[s] \in lost} :
         lost \in {d \in SUBSET healthy : Cardinality(d) \in {0, size}}}
LossesToSurvive == Tolerated(DomainOf, in.domains, tally.resilience)
Survivable == Min({MinimumCut(lost) : lost \in LossesToSurvive})

Representable == AvailableTotal(rows) <= I64Max
Answering == at = "done" /\ answer.status = "ok" /\ Analysing

-----------------------------------------------------------------------------
(* Properties. *)

\* What is called deliverable is the least that separates the sinks from the
\* sources, in the worst of the losses to survive: max-flow min-cut, over a
\* network whose flow and capacities are reused from solve to solve.
DeliverableIsMinimumCut ==
  (Answering /\ Representable) =>
    /\ tally.deliverable = Survivable
    /\ tally.base = MinimumCut({})

\* A single flow, or a fit query, is granted the largest quantity its
\* granularity allows, or nothing when a single slice must have all of it;
\* and satisfiable says whether a query got as much as the grain allows.
SingleFlowIsExact ==
  LET f == tally.flows[1]
      grains == {x \in 0 .. f.magnitude : tally.granularity = 0 \/ x % tally.granularity = 0}
      most == Max({x \in grains : x <= Survivable})
  IN  (Answering /\ Representable /\ Len(tally.flows) = 1) =>
        /\ tally.fits[1].admitted = IF tally.singleSlice /\ most < f.magnitude THEN 0 ELSE most
        /\ Querying => (answer.satisfiable <=> most = Max(grains))

\* Stranded units are charged to the first cause that takes them: the edges no
\* walk of the shape can use, then the worst loss to survive, and bottlenecks
\* only for the rest.
StrandingIsAttributed ==
  LET walked == Walked(in.topology, Sources, {})
      onWalk == {s \in SlotSet :
        \E e \in walked :
          /\ \/ s = e.resource
             \/ \E d \in walked : d.to = e.from /\ s = TransitOf(in.topology, e.from)
          /\ e.to \in Sinks \/ Joins(in.topology, {e.to}, Sinks, {})}
      off == {i \in DOMAIN rows : rows[i].resource \notin onWalk}
  IN  (Answering /\ Representable) =>
        /\ tally.breakdown.segmentation = SumFunctionOnSet(Field(rows, LAMBDA row : row.available), off)
        /\ tally.breakdown.resilience = MinimumCut({}) - Survivable
        /\ StrandedTotal(tally.breakdown) = AvailableTotal(rows) - Survivable

\* "CFN reports a feasible allocation" of several flows: at the least, none is
\* granted more than separates its own sink from its own source.
AllocationIsFeasible ==
  (Answering /\ Representable) =>
    \A i \in DOMAIN tally.fits :
      tally.fits[i].admitted <=
        LeastCut(in.topology, {tally.flows[i].source}, {tally.flows[i].sink}, UnitsOf, {})

=============================================================================
