------------------------------- MODULE Inputs -------------------------------
(***************************************************************************)
(* What an evaluation is given, and what it is refused for: the validators *)
(* of src/model and the bindings that engine/evaluator.cpp requires.       *)
(*                                                                         *)
(* A catalog is a record with its generation and the sequence of its       *)
(* records, in the order they were supplied; the code's maps over it are   *)
(* functions of the identities.  Text, kinds, causes and classes that no   *)
(* computation reads are left out, and so is the wording of an error: a    *)
(* validator is a predicate.                                               *)
(***************************************************************************)
EXTENDS Checked, Positions

CONSTANTS
  None,           \* an identity that is not valid(), or a pointer that is null
  Before(_, _)    \* operator< of identities

-----------------------------------------------------------------------------
(* Looking things up. *)

Established(generation) == generation # 0
Distinct(ids) == \A i, j \in DOMAIN ids : ids[i] = ids[j] => i = j
Field(seq, Get(_)) == [i \in DOMAIN seq |-> Get(seq[i])]
Identities(seq) == Field(seq, LAMBDA record : record.id)

Known(records, id) == \E i \in DOMAIN records : records[i].id = id
Find(records, id) ==
  records[CHOOSE i \in DOMAIN records : /\ records[i].id = id
                                        /\ \A j \in 1 .. i - 1 : records[j].id # id]

\* std::sort by a strict total order: what has k - 1 before it comes k-th.
\* (SortSeq of module TLC says the same, but a proof cannot expand it.)
RankIn(seq, Less(_, _), i) == Cardinality({j \in DOMAIN seq : Less(seq[j], seq[i])})
SortedBy(seq, Less(_, _)) ==
  [k \in DOMAIN seq |-> seq[CHOOSE i \in DOMAIN seq : RankIn(seq, Less, i) = k - 1]]

MayBeAuthoritative(class) == class \in {"declared", "measured"}

ValidProvenance(p) ==
  /\ p.source # None
  /\ p.authoritative => MayBeAuthoritative(p.class)

-----------------------------------------------------------------------------
(* The validators.  limits.population stands for every max_* of a          *)
(* population.                                                             *)

ValidResource(record, limits) ==
  /\ record.id # None /\ Established(record.generation)
  /\ record.reported <= limits.capacity
  /\ record.granularity <= record.reported
  /\ record.authoritative => MayBeAuthoritative(record.class)
  /\ ValidProvenance(record.provenance)

ValidResources(catalog, limits) ==
  /\ Established(catalog.generation)
  /\ Len(catalog.records) <= limits.population
  /\ \A i \in DOMAIN catalog.records : ValidResource(catalog.records[i], limits)
  /\ Distinct(Identities(catalog.records))

\* The catalog holds the resource, at the generation it is bound by.
Bound(resources, id, generation) ==
  /\ Known(resources.records, id)
  /\ Established(generation)
  /\ Find(resources.records, id).generation = generation

Transits(nodes) == {i \in DOMAIN nodes : nodes[i].transit # None}

\* One arc of the topology for each resource: a resource that backed two
\* would let flow leave along another arc than the one it entered.
OwnedOnce(topology) ==
  /\ \A i, j \in Transits(topology.nodes) :
       topology.nodes[i].transit = topology.nodes[j].transit => i = j
  /\ Distinct(Field(topology.edges, LAMBDA edge : edge.resource))
  /\ \A i \in Transits(topology.nodes), e \in DOMAIN topology.edges :
       topology.nodes[i].transit # topology.edges[e].resource

ValidTopology(topology, resources, limits) ==
  /\ Established(topology.generation)
  /\ Len(topology.nodes) <= limits.population
  /\ Len(topology.edges) <= limits.population
  /\ ValidProvenance(topology.provenance)
  /\ \A i \in DOMAIN topology.nodes :
       LET node == topology.nodes[i]
       IN  /\ node.id # None /\ Known(resources.records, node.id)
           /\ Find(resources.records, node.id).present
           /\ node.transit # None => Bound(resources, node.transit, node.transitGeneration)
  /\ Distinct(Identities(topology.nodes))
  /\ \A e \in DOMAIN topology.edges :
       LET edge == topology.edges[e]
       IN  /\ edge.id # None /\ edge.multiplicity # 0
           /\ {edge.from, edge.to} \subseteq Range(Identities(resources.records))
           /\ Bound(resources, edge.resource, edge.resourceGeneration)
  /\ Distinct(Identities(topology.edges))
  /\ OwnedOnce(topology)

\* The amounts or losses that the records of a catalog lay on a resource: what
\* each record contributes to the sum.
LaidOn(records, resource, Amount(_)) ==
  Field(records, LAMBDA record : IF record.resource = resource THEN Amount(record) ELSE 0)
Amounts(reservations, resource) ==
  LaidOn(reservations.records, resource, LAMBDA record : record.amount)

ValidReservations(snapshot, resources, limits) ==
  /\ Established(snapshot.generation)
  /\ Len(snapshot.records) <= limits.population
  /\ ValidProvenance(snapshot.provenance)
  /\ \A i \in DOMAIN snapshot.records :
       LET reservation == snapshot.records[i]
       IN  /\ reservation.id # None /\ Established(reservation.generation)
           /\ reservation.amount \in 1 .. limits.capacity
           /\ reservation.priority <= limits.priority
           /\ ValidProvenance(reservation.provenance)
           /\ Bound(resources, reservation.resource, reservation.resourceGeneration)
           /\ LET resource == Find(resources.records, reservation.resource)
                  amounts == Amounts(snapshot, reservation.resource)
              IN  /\ resource.present /\ resource.authoritative
                  /\ Fits(amounts)
                  /\ Accumulated(amounts) <= resource.reported
  /\ Distinct(Identities(snapshot.records))

ValidDomains(catalog, limits) ==
  /\ Established(catalog.generation)
  /\ Len(catalog.records) <= limits.population
  /\ ValidProvenance(catalog.provenance)
  /\ \A i \in DOMAIN catalog.records :
       LET record == catalog.records[i]
       IN  /\ record.id # None /\ Established(record.generation)
           /\ ValidProvenance(record.provenance)
  /\ Distinct(Identities(catalog.records))

\* A loss is absolute or a fraction, and exactly one of them.
ValidLoss(record, limits) ==
  /\ record.resource # None /\ Established(record.generation)
  /\ (record.lost # 0) # (record.ppm # 0)
  /\ record.lost <= limits.capacity /\ record.ppm <= Ppm
  /\ ValidProvenance(record.provenance)

ValidDegradation(snapshot, resources, domains, limits) ==
  /\ Established(snapshot.generation)
  /\ Len(snapshot.records) <= limits.population
  /\ ValidProvenance(snapshot.provenance)
  /\ \A i \in DOMAIN resources.records :
       resources.records[i].domain # None => Known(domains.records, resources.records[i].domain)
  /\ \A i \in DOMAIN snapshot.records :
       LET record == snapshot.records[i]
       IN  /\ ValidLoss(record, limits)
           /\ Bound(resources, record.resource, record.resourceGeneration)

ValidPolicy(policy, limits) ==
  /\ policy.id # None /\ Established(policy.generation)
  /\ policy.headroomPpm <= Ppm /\ policy.headroom <= limits.capacity
  /\ ValidProvenance(policy.provenance)

ValidModel(model) ==
  /\ model.id # None /\ Established(model.generation)
  /\ model.policy # None /\ Established(model.policyGeneration)
  /\ (model.shape # None) = Established(model.shapeGeneration)
  /\ ValidProvenance(model.provenance)

Present(resources, id) ==
  Known(resources.records, id) /\ Find(resources.records, id).present

ValidShape(shape, resources, limits) ==
  /\ shape.id # None /\ Established(shape.generation)
  /\ Len(shape.flows) \in 1 .. limits.population
  /\ shape.granularity <= limits.capacity
  /\ ValidProvenance(shape.provenance)
  /\ \A i \in DOMAIN shape.flows :
       LET flow == shape.flows[i]
       IN  /\ flow.id # None /\ flow.source # None /\ flow.sink # None
           /\ flow.source # flow.sink
           /\ flow.magnitude <= limits.capacity
           /\ flow.priority <= limits.priority
           /\ Present(resources, flow.source) /\ Present(resources, flow.sink)
  /\ Distinct(Identities(shape.flows))

-----------------------------------------------------------------------------
(* The types: what a caller can hand over at all, valid or not. *)

IsList(seq) == seq \in Seq(Range(seq))
U64 == 0 .. U64Max

\* operator< orders the identities of a list.
Orders(ids) ==
  /\ \A x \in ids : ~ Before(x, x)
  /\ \A x, y \in ids : x # y => Before(x, y) \/ Before(y, x)
  /\ \A x, y, z \in ids : Before(x, y) /\ Before(y, z) => Before(x, z)

Resiliences == {"none", "n1", "n1n1"}

TypedShape(shape) ==
  /\ IsList(shape.flows) /\ Orders(Range(Identities(shape.flows)))
  /\ shape.granularity \in U64
  /\ \A i \in DOMAIN shape.flows :
       shape.flows[i].magnitude \in U64 /\ shape.flows[i].priority \in Nat

\* The limits of every fabric leave room for the sign of a capacity.
TypedCatalogs(in) ==
  /\ in.limits.capacity \in 0 .. I64Max
  /\ IsList(in.resources.records) /\ Orders(Range(Identities(in.resources.records)))
  /\ \A i \in DOMAIN in.resources.records : in.resources.records[i].reported \in U64
  /\ IsList(in.topology.nodes) /\ IsList(in.topology.edges)
  /\ IsList(in.domains.records) /\ Orders(Range(Identities(in.domains.records)))
  /\ IsList(in.reservations.records)
  /\ \A i \in DOMAIN in.reservations.records : in.reservations.records[i].amount \in U64
  /\ IsList(in.degradation.records)
  /\ \A i \in DOMAIN in.degradation.records :
       in.degradation.records[i].lost \in U64 /\ in.degradation.records[i].ppm \in Nat
  /\ in.policy.headroom \in U64 /\ in.policy.headroomPpm \in Nat
  /\ in.policy.resilience \in Resiliences

-----------------------------------------------------------------------------
(* The inputs of one evaluation, and the bindings between them. *)

ValidCatalogs(in) ==
  /\ ValidResources(in.resources, in.limits)
  /\ ValidTopology(in.topology, in.resources, in.limits)
  /\ ValidReservations(in.reservations, in.resources, in.limits)
  /\ ValidDomains(in.domains, in.limits)
  /\ ValidDegradation(in.degradation, in.resources, in.domains, in.limits)

\* The model names this version of the policy, and this version of the demand
\* shape or none.
Consistent(in) ==
  /\ in.model.policy = in.policy.id
  /\ in.model.policyGeneration = in.policy.generation
  /\ IF in.model.shape = None
       THEN in.shape = None
       ELSE /\ in.shape # None
            /\ in.shape.id = in.model.shape
            /\ in.shape.generation = in.model.shapeGeneration
            /\ ValidShape(in.shape, in.resources, in.limits)

\* evaluate() up to the derivation of the accounting.
Accepted(in) ==
  /\ ValidModel(in.model)
  /\ ValidPolicy(in.policy, in.limits)
  /\ ValidCatalogs(in)
  /\ Consistent(in)

=============================================================================
