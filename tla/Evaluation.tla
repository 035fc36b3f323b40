----------------------------- MODULE Evaluation -----------------------------
(***************************************************************************)
(* An evaluation from its inputs to the snapshot it publishes, evaluate()   *)
(* of engine/evaluator.cpp, with the thread that may cancel it; and the two *)
(* other questions a fabric answers, a fit query, Fabric::fit, and a        *)
(* prediction, Fabric::predict.                                            *)
(***************************************************************************)
EXTENDS Fragmentation, Prediction

CONSTANT Problems   \* the inputs considered

\* The identity that fit_query gives its flow.
QueryIdentities == {"fit-flow"}

IsProblem(p) ==
  CASE p.kind = "predict" ->
         /\ p.limits.capacity \in 0 .. I64Max /\ p.limits.samples \in Nat
         /\ p.request.movement \in Nat /\ p.request.alpha \in Nat /\ p.request.minimum \in Nat
         /\ \A time \in {p.now, p.request.horizon, p.request.maxAge, p.request.maxExtrapolation} :
              InI64(time)
         /\ IsList(p.request.history)
         /\ \A i \in DOMAIN p.request.history :
              p.request.history[i].units \in U64 /\ InI64(p.request.history[i].at)
    [] p.kind = "fit" ->
         /\ TypedCatalogs(p) /\ Orders(QueryIdentities)
         /\ p.query.magnitude \in U64 /\ p.query.granularity \in U64
         /\ p.query.resilience \in Resiliences
    [] p.kind = "evaluate" ->
         TypedCatalogs(p) /\ (p.shape # None => TypedShape(p.shape))

ASSUME ProblemsAssumption ==
  \A p \in Problems : p.kind \in {"evaluate", "fit", "predict"} /\ IsProblem(p)

evaluation == <<flowVars, analysis>>

Init ==
  /\ FlowInit(None)
  /\ in \in Problems
  /\ at = "start" /\ rows = <<>> /\ tally = <<>> /\ answer = Unanswered

Querying == in.kind = "fit"

-----------------------------------------------------------------------------
\* The checks on the inputs.  A fit query is asked of a view whose catalogs
\* the registry accepted; derive_accounting validates them again.
Validate ==
  /\ at = "start" /\ in.kind # "predict"
  /\ IF cancelled THEN Fail("cancelled")
     ELSE IF ~ Querying /\ ~ Accepted(in) THEN Fail("rejected")
     ELSE at' = "accounting" /\ UNCHANGED answer
  /\ UNCHANGED <<in, rows, tally, flowVars>>

Account ==
  /\ at = "accounting"
  /\ IF ~ Derivable(in) THEN Fail("rejected") /\ UNCHANGED rows
     ELSE IF cancelled /\ ~ Querying THEN Fail("cancelled") /\ UNCHANGED rows
     ELSE rows' = Rows(in) /\ at' = "accounted" /\ UNCHANGED answer
  /\ UNCHANGED <<in, tally, flowVars>>

\* roll_up comes before the analysis, and refuses totals that do not fit.
Analyse ==
  /\ at = "accounted" /\ ~ Querying
  /\ IF ~ RollUpFits(rows)
       THEN Fail("rejected") /\ UNCHANGED <<in, rows, tally, flowVars>>
     ELSE IF in.shape = None
       THEN at' = "close" /\ UNCHANGED <<in, rows, tally, answer, flowVars>>
       ELSE BeginAnalysis(in.shape, in.policy.resilience, in.policy.singleSlice)

Query ==
  /\ at = "accounted" /\ Querying
  /\ IF ~ AcceptedQuery(in.query)
       THEN Fail("rejected") /\ UNCHANGED <<in, rows, tally, flowVars>>
       ELSE BeginAnalysis(QueryShape(in.query), in.query.resilience, FALSE)

\* A prediction reads the observations it is given, or those of the registry.
Predict ==
  /\ at = "start" /\ in.kind = "predict"
  /\ answer' \in Predictions(in.request, in.now, in.limits)
  /\ at' = "done"
  /\ UNCHANGED <<in, rows, tally, flowVars>>

\* The end of the analysis.
Analysed ==
  /\ AllPlaced
  /\ IF tally.satisfied > tally.deliverable THEN Fail("contradictory")
     ELSE IF Querying THEN at' = "done" /\ answer' = QueryAnswer(in.query)
     ELSE at' = "close" /\ UNCHANGED answer
  /\ UNCHANGED <<in, rows, tally, flowVars>>

Analysis == IF tally = <<>> THEN NotAnalysed ELSE Fragmentation

\* The totals of the rows, and what the analysis makes of them.
RolledUp(rollup, fragmentation) ==
  IF ~ fragmentation.evaluated THEN rollup
  ELSE [rollup EXCEPT
          !.usable = fragmentation.satisfied, !.spare = fragmentation.spare,
          !.stranded = StrandedTotal(fragmentation.breakdown),
          !.breakdown = fragmentation.breakdown,
          !.reservedStranded = fragmentation.reservedStranded, !.evaluated = TRUE]

Unhealthy == Count(in.domains.records, LAMBDA record : ~ record.healthy)

\* summarise: how much of the evidence is complete.
Completeness(rollup, fragmentation) ==
  LET penalty == (rollup.unauthoritative * Ppm) \div rollup.present
      counted == IF rollup.present = 0 \/ rollup.unauthoritative = 0 THEN Ppm
                 ELSE IF penalty >= Ppm THEN 0 ELSE Ppm - penalty
      relaxed == IF fragmentation.evaluated /\ ~ fragmentation.exact THEN (counted \div 4) * 3 ELSE counted
  IN  IF Unhealthy # 0 THEN (relaxed \div 10) * 9 ELSE relaxed

\* The generation vector of the snapshot, which it is bound to.
Generations ==
  [model |-> in.model.generation, policy |-> in.policy.generation,
   topology |-> in.topology.generation, resources |-> in.resources.generation,
   reservations |-> in.reservations.generation, domains |-> in.domains.generation,
   degradation |-> in.degradation.generation,
   shape |-> IF in.shape = None THEN 0 ELSE in.shape.generation]

\* Mutant of Close: the token is not looked at again.
CloseAnyhow ==
  /\ at = "close"
  /\ \E fragmentation \in {Analysis} : \E rollup \in {RolledUp(RollUp(rows), fragmentation)} :
       IF ~ Closes(rollup) \/ ~ SnapshotCloses(rollup, fragmentation) THEN Fail("contradictory")
       ELSE /\ at' = "done"
            /\ answer' = [status |-> "ok", rollup |-> rollup, rows |-> rows,
                          fragmentation |-> fragmentation, generations |-> Generations,
                          unhealthy |-> Unhealthy,
                          completeness |-> Completeness(rollup, fragmentation)]
  /\ UNCHANGED <<in, rows, tally, flowVars>>

\* The snapshot is checked, and a cancelled evaluation does not publish it.
Close ==
  /\ at = "close"
  /\ \E fragmentation \in {Analysis} : \E rollup \in {RolledUp(RollUp(rows), fragmentation)} :
       IF ~ Closes(rollup) \/ ~ SnapshotCloses(rollup, fragmentation) THEN Fail("contradictory")
       ELSE IF cancelled THEN Fail("cancelled")
       ELSE /\ at' = "done"
            /\ answer' = [status |-> "ok", rollup |-> rollup, rows |-> rows,
                          fragmentation |-> fragmentation, generations |-> Generations,
                          unhealthy |-> Unhealthy,
                          completeness |-> Completeness(rollup, fragmentation)]
  /\ UNCHANGED <<in, rows, tally, flowVars>>

\* A solver step.
Solving == Step /\ UNCHANGED analysis

\* A fit query has a token of its own that nobody holds, a prediction none.
Cancelling ==
  /\ in.kind = "evaluate" /\ ~ cancelled /\ at # "done"
  /\ Cancel /\ UNCHANGED analysis

Evaluate ==
  Validate \/ Account \/ Analyse \/ Query \/ Predict \/ Analysed \/ Close \/ AnalysisStep \/ Solving

Next == Evaluate \/ Cancelling

Spec == Init /\ [][Next]_evaluation

\* The thread that evaluates does nothing else until it is done, and can always
\* go on: weak fairness of Evaluate, with "not done" for its being enabled, and
\* a step that is not Cancelling for one of its.  Nobody has to cancel.
FairSpec == Spec /\ ([]<>(at = "done") \/ []<><<~ Cancelling>>_evaluation)

-----------------------------------------------------------------------------
(* Properties, of whatever is evaluated. *)

Analysing == tally # <<>>
SlotSet == Range(Slots(in.topology))
Sources == {tally.flows[i].source : i \in DOMAIN tally.flows}
Sinks == {tally.flows[i].sink : i \in DOMAIN tally.flows}

\* Every variable keeps its shape.
TypeOK ==
  /\ at \in {"start", "accounting", "accounted", "base", "scenarios", "lost", "regain",
             "place", "placing", "close", "done"}
  /\ solver \in {"idle", "levels", "search", "reach", "solved", "exhausted", "cancelled"}
  /\ answer.status \in {"none", "ok", "rejected", "cancelled", "exhausted", "contradictory"}
  /\ (at = "done") = (answer.status # "none")
  /\ \A i \in DOMAIN rows : rows[i].available \in 0 .. U64Max
  /\ cancelled \in BOOLEAN
  /\ IsNetwork(net) /\ DOMAIN cap = Arcs(net) /\ DOMAIN flow = Arcs(net)
  /\ \A v \in net.nodes : level[v] \in -1 .. Cardinality(net.nodes)

\* At every step of a solve what enters a node leaves it, except where flows
\* begin and end, and the source has sent what the call counts (flow.cpp's
\* augmentation along a path that is kept and cut between augmentations).
FlowConserved ==
  LET endpoints == IF call.source = SuperSource THEN {SuperSource, SuperSink}
                     ELSE {Out_(v) : v \in Sources} \cup {In(v) : v \in Sinks}
  IN  Analysing => /\ \A v \in net.nodes \ endpoints : Leaving(v) = 0
                   /\ at \in {"base", "lost"} /\ solver # "idle" => Leaving(SuperSource) = total

\* Units that flow over a resource exist: its source has authority, it is
\* present, its domain is healthy and not lost in the scenario, and what
\* flows fits beside what is reserved, protected and lost of it.
PromisedUnitsExist ==
  LET Laid(records, r, Amount(_)) ==
        SumFunctionOnSet(Field(records, Amount),
                         {i \in DOMAIN records : records[i].resource = r.id})
      Carried(r) == ArcFlow(SlotArc(in.topology, r.id))
  IN  net # NoNetwork =>
        \A r \in Range(in.resources.records) :
          (r.id \in SlotSet /\ Carried(r) > 0) =>
            /\ r.authoritative /\ r.present
            /\ r.domain # None => Find(in.domains.records, r.domain).healthy
            /\ at = "lost" => cap[SlotArc(in.topology, r.id)] # 0
            /\ at = "lost" => r.id \notin Head(tally.scenarios)
            /\ Carried(r) + in.policy.headroom
                 + Laid(in.reservations.records, r, LAMBDA x : x.amount)
                 + Laid(in.degradation.records, r, LAMBDA x : x.lost) <= r.reported

\* No input, however contradictory, makes the analysis contradict itself: the
\* internal checks (fragmentation.cpp's attribution, verify_closure) are
\* never what refuses an evaluation.
ClosureNeverFails == answer.status # "contradictory"

\* An evaluation that is cancelled before it has answered never publishes,
\* whichever check it passed last.
CancelledPublishesNothing ==
  [][(cancelled /\ at # "done") => answer'.status # "ok"]_evaluation

\* The analysis drives the solver as its interface allows: no capacity falls
\* under flow that is left in the network.
SolverProtocol == [][FlowNext]_flowVars

Predicted_ == in.kind = "predict" /\ answer.status = "ok"
Usable_ == {r \in DOMAIN answer.entries : answer.entries[r].available}

\* A prediction moves no further from what it starts from than the request
\* allows, nor above the largest capacity, also when the products it is
\* extrapolated with overflow (prediction.cpp's slope and delta).
PredictionStaysInAllowance ==
  Predicted_ =>
    \A r \in Usable_ :
      LET e == answer.entries[r]
          allowance == (e.base * in.request.movement) \div Ppm
      IN  /\ e.predicted \in e.base - allowance .. e.base + allowance
          /\ e.predicted <= in.limits.capacity

\* The observations of a resource that may count, by their positions: they are
\* authoritative, and neither of the future nor too old, to the second.
SoundOf(p, r) ==
  {i \in DOMAIN p.request.history :
     LET o == p.request.history[i]
     IN  /\ o.resource = r /\ o.authoritative /\ o.class \in {"declared", "measured"}
         /\ o.at < p.now + NanosPerSecond
         /\ p.now - o.at < p.request.maxAge + NanosPerSecond}

\* What is predicted of a resource rests on enough of them, and starts from one
\* of the newest, which is not too far from the horizon.
RestsOn(e, p, r) ==
  LET Time(i) == p.request.history[i].at
      horizon == Horizon(p.request, p.now)
  IN  /\ p.request.resource \in {None, r}
      /\ e.samples \in p.request.minimum .. Cardinality(SoundOf(p, r))
      /\ \E i \in SoundOf(p, r) :
           /\ \A j \in SoundOf(p, r) : Time(j) <= Time(i)
           /\ p.request.model # "ewma-level" => e.base = p.request.history[i].units
           /\ horizon - Time(i) < p.request.maxExtrapolation + NanosPerSecond
           /\ Time(i) < horizon + NanosPerSecond

\* Every prediction rests on evidence, whatever else is in the history it is
\* given and however that is ordered: what rests on less is unknown, not
\* guessed, and the total is of what is predicted alone.
PredictionRestsOnEvidence ==
  Predicted_ =>
    /\ answer.available => Usable_ # {}
    /\ answer.predicted = SumFunction([r \in Usable_ |-> answer.entries[r].predicted])
    /\ \A r \in Usable_ : RestsOn(answer.entries[r], in, r)

=============================================================================
