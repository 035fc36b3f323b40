---------------------------- MODULE EngineProofs ----------------------------
(***************************************************************************)
(* What an evaluation, a fit query and a prediction guarantee, for every   *)
(* problem they may be asked and every interleaving with a cancellation.   *)
(*                                                                         *)
(* EvaluationInv is what the steps keep whatever the numbers: the form of  *)
(* the evaluation, and the invariant of the solver it drives.  EngineInv   *)
(* adds what the accounting made: rows that add up and a network with their*)
(* units for capacities.  On these rest the conservation of flow, that what*)
(* is promised exists, the types, and at last that the shares of the       *)
(* analysis add up to what is available, so that no closure ever fails.    *)
(***************************************************************************)
EXTENDS Evaluation, FlowProofs

-----------------------------------------------------------------------------
(* The evaluation implements the solver's specification *)

\* A call of the solver's interface is a step of the solver.
LEMMA CallsAreSteps ==
  /\ \A n, c : Build(n, c) => FlowNext
  /\ \A c : Reset(c) => FlowNext
  /\ \A c : Raise(c) => FlowNext
  /\ \A s, t, l, b : Solve(s, t, l, b) => FlowNext
  /\ Answered => FlowNext
  /\ Step => FlowNext
  /\ Cancel => FlowNext
<1>1. ASSUME NEW n, NEW c, Build(n, c) PROVE FlowNext
  <2>1. Build(net', cap')
    BY <1>1 DEF Build
  <2>2. QED
    BY <2>1 DEF FlowNext, Owned
<1>2. ASSUME NEW c, Reset(c) PROVE FlowNext
  <2>1. Reset(cap')
    BY <1>2 DEF Reset
  <2>2. QED
    BY <2>1 DEF FlowNext, Owned
<1>3. ASSUME NEW c, Raise(c) PROVE FlowNext
  <2>1. Raise(cap')
    BY <1>3 DEF Raise
  <2>2. QED
    BY <2>1 DEF FlowNext, Owned
<1>4. ASSUME NEW s, NEW t, NEW l, NEW b, Solve(s, t, l, b) PROVE FlowNext
  <2>1. call' = [source |-> s, sink |-> t, limit |-> l, budget |-> b]
    BY <1>4 DEF Solve
  <2>2. call'.source = s /\ call'.sink = t /\ call'.limit = l /\ call'.budget = b
    BY <2>1
  <2>3. Solve(call'.source, call'.sink, call'.limit, call'.budget)
    BY <1>4, <2>2
  <2>4. QED
    BY <2>3 DEF FlowNext, Owned
<1>5. (Answered => FlowNext) /\ (Step => FlowNext) /\ (Cancel => FlowNext)
  BY DEF FlowNext, Owned
<1>6. QED
  BY <1>1, <1>2, <1>3, <1>4, <1>5

\* An analysis begins with the network being built.
LEMMA BeginsWithBuild ==
  ASSUME NEW shape, NEW resilience, NEW single, BeginAnalysis(shape, resilience, single)
  PROVE  UNCHANGED flowVars \/ \E n, c : Build(n, c)
BY DEF BeginAnalysis

\* Every step of an evaluation is one of the solver, or leaves it alone.
LEMMA StepsOfTheSolver ==
  ASSUME [Next]_evaluation
  PROVE  [FlowNext]_flowVars
<1>1. CASE Validate \/ Account \/ Predict \/ Analysed \/ Close
  BY <1>1 DEF Validate, Account, Predict, Analysed, Close
<1>2. CASE Analyse \/ Query
  <2>1. UNCHANGED flowVars \/ \E n, c : Build(n, c)
    BY <1>2, BeginsWithBuild DEF Analyse, Query
  <2>2. QED
    BY <2>1, CallsAreSteps
<1>3. CASE AnalysisStep
  <2>1. CASE SolveBase \/ SolveScenario
    BY <2>1, CallsAreSteps DEF SolveBase, SolveScenario, SolveAll
  <2>2. CASE SolveFailed \/ BaseSolved \/ ScenarioSolved \/ FlowPlaced
    BY <2>2, CallsAreSteps DEF SolveFailed, BaseSolved, ScenarioSolved, FlowPlaced
  <2>3. CASE LoseDomains \/ RegainDomains \/ Attribute
    BY <2>3, CallsAreSteps DEF LoseDomains, RegainDomains, Attribute
  <2>4. CASE PlaceFlow
    BY <2>4, CallsAreSteps DEF PlaceFlow
  <2>5. QED
    BY <1>3, <2>1, <2>2, <2>3, <2>4 DEF AnalysisStep
<1>4. CASE Solving \/ Cancelling
  BY <1>4, CallsAreSteps DEF Solving, Cancelling
<1>5. CASE UNCHANGED evaluation
  BY <1>5 DEF evaluation
<1>6. QED
  BY <1>1, <1>2, <1>3, <1>4, <1>5 DEF Next, Evaluate

\* The analysis drives the solver by its interface only, and never takes
\* capacity from under flow that it leaves in the network: an evaluation
\* implements the specification of the solver.
THEOREM EvaluationImplementsFlow == Spec => FlowSpec /\ SolverProtocol
<1>1. Init => \E nobody : FlowInit(nobody)
  BY DEF Init
<1>2. [Next]_evaluation => [FlowNext]_flowVars
  BY StepsOfTheSolver
<1>3. QED
  BY <1>1, <1>2, PTL DEF Spec, FlowSpec, SolverProtocol

\* No evaluation oversells a resource, nor sends anything over it backwards.
THEOREM EvaluationsAreFeasible == Spec => []FlowIsFeasible
BY EvaluationImplementsFlow, FlowStaysFeasible, PTL

-----------------------------------------------------------------------------
(* Cancellation *)

\* Only an evaluation is cancelled, and nothing is answered before it ends.
TokenInv ==
  /\ cancelled => in.kind = "evaluate"
  /\ at # "done" => answer = Unanswered

\* What an action of the analysis does to the token and the answer.
Unpublished ==
  /\ UNCHANGED <<in, cancelled>>
  /\ UNCHANGED answer \/ (at' = "done" /\ answer'.status # "ok")

\* The beginning of an analysis publishes nothing.
LEMMA BeginIsUnpublished ==
  ASSUME NEW shape, NEW resilience, NEW single, BeginAnalysis(shape, resilience, single)
  PROVE  Unpublished
BY DEF BeginAnalysis, Unpublished, Fail, Build, flowVars

\* Every action but those that answer.
LEMMA AnalysisIsUnpublished ==
  ASSUME Validate \/ Account \/ Analyse \/ Query \/ AnalysisStep \/ Solving
  PROVE  Unpublished
<1>1. CASE Validate \/ Account
  BY <1>1 DEF Validate, Account, Unpublished, Fail, flowVars
<1>2. CASE Analyse
  <2>1. CASE ~ RollUpFits(rows) \/ in.shape = None
    BY <1>2, <2>1 DEF Analyse, Unpublished, Fail, flowVars
  <2>2. CASE RollUpFits(rows) /\ in.shape # None
    BY <1>2, <2>2, BeginIsUnpublished DEF Analyse
  <2>3. QED
    BY <2>1, <2>2
<1>3. CASE Query
  <2>1. CASE ~ AcceptedQuery(in.query)
    BY <1>3, <2>1 DEF Query, Unpublished, Fail, flowVars
  <2>2. CASE AcceptedQuery(in.query)
    BY <1>3, <2>2, BeginIsUnpublished DEF Query
  <2>3. QED
    BY <2>1, <2>2
<1>4. CASE Solving
  BY <1>4 DEF Solving, Step, Scan, Levelled, Advance, Retreat, Augment, LimitReached, Finish,
              Unpublished, analysis
<1>5. CASE SolveBase \/ SolveScenario
  BY <1>5 DEF SolveBase, SolveScenario, SolveAll, Solve, Unpublished, analysis
<1>6. CASE SolveFailed
  <2>1. answer' = [status |-> solver] /\ solver \in {"exhausted", "cancelled"}
    BY <1>6 DEF SolveFailed, Fail
  <2>2. answer'.status # "ok"
    BY <2>1
  <2>3. QED
    BY <1>6, <2>2 DEF SolveFailed, Answered, Unpublished, Fail
<1>7. CASE BaseSolved \/ ScenarioSolved \/ FlowPlaced
  BY <1>7 DEF BaseSolved, ScenarioSolved, FlowPlaced, Answered, Unpublished, Fail
<1>8. CASE LoseDomains \/ RegainDomains \/ Attribute
  BY <1>8 DEF LoseDomains, RegainDomains, Attribute, Reset, Raise, Unpublished, Fail, flowVars
<1>9. CASE PlaceFlow
  BY <1>9 DEF PlaceFlow, Solve, Unpublished, Fail, flowVars
<1>10. QED
  BY <1>1, <1>2, <1>3, <1>4, <1>5, <1>6, <1>7, <1>8, <1>9 DEF AnalysisStep

\* Once cancelled, an evaluation stays unpublished.
LEMMA TokenStep ==
  ASSUME TokenInv, [Next]_evaluation
  PROVE  /\ TokenInv'
         /\ cancelled /\ at # "done" => answer'.status # "ok"
<1>1. Unanswered.status # "ok"
  BY DEF Unanswered
<1>2. CASE Validate \/ Account \/ Analyse \/ Query \/ AnalysisStep \/ Solving
  <2>1. Unpublished
    BY <1>2, AnalysisIsUnpublished
  <2>2. at' # "done" => at # "done"
    BY <1>2 DEF Validate, Account, Analyse, Query, AnalysisStep, Solving, SolveBase, SolveScenario,
                SolveAll, SolveFailed, BaseSolved, ScenarioSolved, FlowPlaced, LoseDomains,
                RegainDomains, Attribute, PlaceFlow, Fail, analysis
  <2>3. QED
    BY <1>1, <2>1, <2>2 DEF TokenInv, Unpublished
<1>3. CASE Predict \/ Analysed
  <2>1. at # "done" /\ at' \in {"close", "done"} /\ UNCHANGED <<in, cancelled>>
    BY <1>3 DEF Predict, Analysed, AllPlaced, Fail, flowVars
  <2>2. in.kind \in {"predict", "fit"} \/ UNCHANGED answer \/ answer' = [status |-> "contradictory"]
    BY <1>3 DEF Predict, Analysed, Querying, Fail
  <2>3. at' = "done" \/ UNCHANGED answer
    BY <1>3 DEF Predict, Analysed, Fail
  <2>4. QED
    BY <1>1, <2>1, <2>2, <2>3 DEF TokenInv
<1>4. CASE Close
  <2>1. at # "done" /\ at' = "done" /\ UNCHANGED <<in, cancelled>>
    BY <1>4 DEF Close, Fail, flowVars
  <2>2. cancelled => answer' \in {[status |-> "contradictory"], [status |-> "cancelled"]}
    BY <1>4 DEF Close, Fail
  <2>3. QED
    BY <2>1, <2>2 DEF TokenInv
<1>5. CASE Cancelling
  BY <1>1, <1>5 DEF Cancelling, Cancel, TokenInv, analysis
<1>6. CASE UNCHANGED evaluation
  BY <1>1, <1>6 DEF evaluation, analysis, flowVars, TokenInv
<1>7. QED
  BY <1>2, <1>3, <1>4, <1>5, <1>6 DEF Next, Evaluate

\* A token that is set before the answer keeps a snapshot from being
\* published, in whatever phase of the evaluation it is set.
THEOREM CancelledNeverPublishes == Spec => CancelledPublishesNothing
<1>1. Init => TokenInv
  BY DEF Init, FlowInit, TokenInv
<1>2. TokenInv /\ [Next]_evaluation => TokenInv'
  BY TokenStep
<1>3. TokenInv /\ [Next]_evaluation => [(cancelled /\ at # "done") => answer'.status # "ok"]_evaluation
  BY TokenStep
<1>4. QED
  BY <1>1, <1>2, <1>3, PTL DEF Spec, CancelledPublishesNothing

-----------------------------------------------------------------------------
(* Checked products *)

\* Dividing what a divisor is taken out of.
LEMMA DivisionShifts ==
  ASSUME NEW d \in Nat \ {0}, NEW k \in Int, NEW x \in Int
  PROVE  (k * d + x) \div d = k + (x \div d)
OBVIOUS

\* A product that is divided by one of its factors.
LEMMA Products ==
  /\ \A x, y \in Nat : x * y \in Nat
  /\ \A x, y \in Int : x * y \in Int /\ x * y = y * x
  /\ \A x, y, z \in Int : (x * y) * z = x * (y * z) /\ (x + y) * z = x * z + y * z
  /\ \A x \in Nat, d \in Nat \ {0} : x \div d \in Nat /\ x % d \in Nat /\ x = (x \div d) * d + (x % d)
<1>1. \A x, y \in Nat : x * y \in Nat
  OBVIOUS
<1>2. \A x, y \in Int : x * y \in Int /\ x * y = y * x
  OBVIOUS
<1>3. \A x, y, z \in Int : (x * y) * z = x * (y * z)
  OBVIOUS
<1>4. \A x, y, z \in Int : (x + y) * z = x * z + y * z
  OBVIOUS
<1>5. ASSUME NEW x \in Nat, NEW d \in Nat \ {0}
      PROVE  x \div d \in Nat /\ x % d \in Nat /\ x = (x \div d) * d + (x % d)
  OBVIOUS
<1>6. QED
  BY <1>1, <1>2, <1>3, <1>4, <1>5

\* mul_div_u64 computes the quotient of the product, whichever way the product
\* is split.
LEMMA MulDivProperty ==
  ASSUME NEW a \in Nat, NEW b \in Nat, NEW d \in Nat \ {0}
  PROVE  MulDiv(a, b, d) = (a * b) \div d /\ MulDiv(a, b, d) \in Nat
<1>1. PICK q \in Nat, r \in Nat : q = a \div d /\ r = a % d
  BY Products
<1>2. a = q * d + r
  BY <1>1, Products
<1>3. PICK k \in Nat, x \in Nat : k = q * b /\ x = r * b
  BY Products
<1>4. a * b = k * d + x
  <2>1. (q * d + r) * b = (q * d) * b + x
    BY <1>3, Products
  <2>2. (q * d) * b = q * (d * b) /\ d * b = b * d
    BY Products
  <2>3. q * (b * d) = (q * b) * d
    BY Products
  <2>4. (q * d) * b = k * d
    BY <1>3, <2>2, <2>3
  <2>5. QED
    BY <1>2, <2>1, <2>4
<1>5. (k * d + x) \div d = k + (x \div d)
  BY DivisionShifts
<1>6. x \div d \in Nat
  BY Products
<1>7. MulDiv(a, b, d) = k + (x \div d)
  BY <1>1, <1>3 DEF MulDiv
<1>8. QED
  BY <1>4, <1>5, <1>6, <1>7

-----------------------------------------------------------------------------
(* Predictions *)

\* A movement ends within the allowance of its base, from wherever it came.
LEMMA MovedProperty ==
  ASSUME NEW base \in Nat, base <= I64Max, NEW projected \in Int, NEW movement \in Nat
  PROVE  /\ Moved(base, projected, movement)
              \in base - ((base * movement) \div Ppm) .. base + ((base * movement) \div Ppm)
         /\ Moved(base, projected, movement) \in Nat
<1>1. PICK allowance \in Nat : allowance = Scale(base, movement)
                               /\ allowance = (base * movement) \div Ppm
  BY MulDivProperty, CheckedAssumption DEF Scale
<1> DEFINE floor == IF base > allowance THEN base - allowance ELSE 0
           ceiling == IF AddFits(base, allowance) THEN base + allowance ELSE U64Max
<1>2. /\ floor \in Nat /\ ceiling \in Nat /\ floor <= ceiling
      /\ base - allowance <= floor /\ ceiling <= base + allowance
  BY CheckedAssumption DEF AddFits
<1>3. Moved(base, projected, movement) = Between(floor, projected, ceiling)
  BY <1>1 DEF Moved
<1> HIDE DEF floor, ceiling
<1>4. Between(floor, projected, ceiling) \in floor .. ceiling
  BY <1>2 DEF Between
<1>5. \A m \in floor .. ceiling : m \in base - allowance .. base + allowance /\ m \in Nat
  BY <1>2
<1>6. QED
  BY <1>1, <1>3, <1>4, <1>5

\* The extrapolation is an integer, however its products overflow.
LEMMA ReachedProperty ==
  ASSUME NEW base, NEW delta, NEW limits, limits.capacity \in Int
  PROVE  Reached(base, delta, limits) \in Int
BY CheckedAssumption DEF Reached, InI64

\* What a series can be predicted to reach.
Allowed(e, movement, capacity) ==
  /\ e.base \in Nat
  /\ e.predicted \in e.base - ((e.base * movement) \div Ppm)
                       .. e.base + ((e.base * movement) \div Ppm)
  /\ e.predicted <= capacity

\* What is predicted of a resource stays in its allowance.
LEMMA OutcomeProperty ==
  ASSUME NEW samples, NEW request, NEW now, NEW limits, NEW build,
         request.movement \in Nat, limits.capacity \in Int,
         Bases(samples, request, build) \subseteq Nat,
         NEW o \in Outcomes(samples, request, now, limits, build), o.available
  PROVE  Allowed(o, request.movement, limits.capacity)
<1>1. PICK base \in {b \in Bases(samples, request, build) : b <= I64Max},
           movement \in Movements(samples, request, now, build) :
        o \in {Extrapolated(samples, request, now, limits, base, movement, predicted) :
                 predicted \in {Moved(base, Reached(base, movement.delta, limits), request.movement)}}
  BY DEF Outcomes
<1>2. PICK predicted :
        /\ predicted = Moved(base, Reached(base, movement.delta, limits), request.movement)
        /\ o = Extrapolated(samples, request, now, limits, base, movement, predicted)
  BY <1>1
<1>3. base \in Nat /\ base <= I64Max
  BY <1>1
<1>4. /\ predicted \in base - ((base * request.movement) \div Ppm)
                         .. base + ((base * request.movement) \div Ppm)
      /\ predicted \in Nat
  <2>1. PICK projected \in Int : projected = Reached(base, movement.delta, limits)
    BY ReachedProperty
  <2>2. predicted = Moved(base, projected, request.movement)
    BY <1>2, <2>1
  <2>3. QED
    BY <1>3, <2>2, MovedProperty
<1>5. ScaleFits(base, request.movement) /\ ~ (predicted > limits.capacity)
  <2>1. SUFFICES ASSUME ~ (ScaleFits(base, request.movement) /\ ~ (predicted > limits.capacity))
                 PROVE  FALSE
    OBVIOUS
  <2>2. o = Unavailable
    BY <1>2, <2>1 DEF Extrapolated
  <2>3. QED
    BY <2>2 DEF Unavailable
<1>6. o.base = base /\ o.predicted = predicted
  BY <1>2, <1>5 DEF Extrapolated
<1>7. QED
  BY <1>3, <1>4, <1>5, <1>6 DEF Allowed

-----------------------------------------------------------------------------
(* What a series starts from *)

\* A list and its members.
LEMMA ListProperty ==
  ASSUME NEW s, IsList(s)
  PROVE  Len(s) \in Nat /\ DOMAIN s = 1 .. Len(s) /\ s \in [1 .. Len(s) -> Range(s)]
BY DEF IsList, Range

\* A level that is smoothed step by step is an integer at each of them.
LEMMA SmoothedProperty ==
  ASSUME NEW samples, NEW n \in Nat, n # 0, NEW S, samples \in [1 .. n -> S],
         \A s \in S : s.units \in Int, NEW alpha \in Int, NEW build
  PROVE  Smoothed(samples, alpha, build) \subseteq Int
<1> DEFINE After(levels, s) ==
             {next \in {lev + Truncated(Product((s.units - lev) * alpha, build), Ppm) :
                          lev \in {l \in levels : SubFits(s.units, l)}} : InI64(next)}
           first == {samples[1].units}
           seq == Tail(samples)
           D == DOMAIN seq
           F == [c \in D \X SUBSET Int |-> After(c[2], seq[c[1]])]
           p == [T \in SUBSET D |-> Max(T)]
<1>1. first \in SUBSET Int
  <2>1. samples[1] \in S
    OBVIOUS
  <2>2. QED
    BY <2>1
<1>2. \A levels, s : After(levels, s) \in SUBSET Int
  BY CheckedAssumption DEF InI64
<1>3. D = 1 .. (n - 1)
  BY HeadTailProperties, IsASeq
<1>4. IsFiniteSet(D)
  BY <1>3, FS_Interval
<1>5. \A T \in SUBSET D : T # {} => Max(T) \in T
  <2>1. n - 1 \in Int
    OBVIOUS
  <2>2. \A T \in SUBSET (1 .. (n - 1)) : T # {} => Max(T) \in T
    BY <2>1, LastOf
  <2>3. QED
    BY <1>3, <2>2
<1> HIDE DEF After
<1>6. PICK g : Folds_(g, D, SUBSET Int, first, F, p)
  <2>1. F \in [D \X SUBSET Int -> SUBSET Int]
    BY <1>2
  <2>2. \A T \in SUBSET D : T # {} => p[T] \in T
    BY <1>5
  <2> HIDE DEF F, p, D, first
  <2>3. QED
    BY <1>1, <1>4, <2>1, <2>2, FoldExists
<1> DEFINE Level(h, T) == IF T = {} THEN first ELSE After(h[T \ {Max(T)}], seq[Max(T)])
           Fold(h) == h = [T \in SUBSET D |-> Level(h, T)]
<1>7. Fold(g)
  <2>1. g \in [SUBSET D -> SUBSET Int]
    BY <1>6 DEF Folds_
  <2>2. \A T \in SUBSET D : g[T] = Level(g, T)
    <3>1. TAKE T \in SUBSET D
    <3>2. g[T] = IF T = {} THEN first ELSE F[<<p[T], g[T \ {p[T]}]>>]
      BY <1>6 DEF Folds_
    <3>3. CASE T = {}
      BY <3>2, <3>3
    <3>4. CASE T # {}
      <4>1. Max(T) \in D /\ p[T] = Max(T) /\ g[T \ {Max(T)}] \in SUBSET Int
        BY <1>5, <2>1, <3>4
      <4>2. F[<<Max(T), g[T \ {Max(T)}]>>] = After(g[T \ {Max(T)}], seq[Max(T)])
        BY <4>1
      <4>3. QED
        BY <3>2, <3>4, <4>1, <4>2
    <3>5. QED
      BY <3>3, <3>4
  <2>3. QED
    BY <2>1, <2>2
<1>8. Fold(CHOOSE h : Fold(h))
  BY <1>7
<1>9. Smoothed(samples, alpha, build) = (CHOOSE h : Fold(h))[D]
  BY DEF Smoothed, FoldLeft, MapThenFoldSet, After
<1>10. D \in SUBSET D
  OBVIOUS
<1>11. ASSUME NEW h, Fold(h) PROVE h[D] = Level(h, D)
  BY <1>10, <1>11
<1>12. \A h : Level(h, D) \in SUBSET Int
  BY <1>1, <1>2
<1> HIDE DEF Fold, Level
<1>13. QED
  BY <1>8, <1>9, <1>11, <1>12

\* A series starts from a natural number of units.
LEMMA BasesProperty ==
  ASSUME NEW samples, NEW n \in Nat, n # 0, NEW S, samples \in [1 .. n -> S],
         \A s \in S : s.units \in Nat, NEW request, request.alpha \in Int, NEW build
  PROVE  Bases(samples, request, build) \subseteq Nat
<1>1. CASE request.model = "ewma-level"
  <2>1. PICK alpha \in Int : alpha = IF request.alpha > Ppm THEN Ppm ELSE request.alpha
    BY CheckedAssumption
  <2>5. \A s \in S : s.units \in Int
    OBVIOUS
  <2>2. Smoothed(samples, alpha, build) \subseteq Int
    BY <2>5, SmoothedProperty
  <2>3. Bases(samples, request, build)
          = {IF lev < 0 THEN 0 ELSE lev : lev \in Smoothed(samples, alpha, build)}
    BY <1>1, <2>1 DEF Bases
  <2>4. QED
    BY <2>2, <2>3
<1>2. CASE request.model # "ewma-level"
  <2>1. Len(samples) = n
    OBVIOUS
  <2>2. samples[n] \in S
    OBVIOUS
  <2>3. QED
    BY <1>2, <2>1, <2>2 DEF Bases, Newest
<1>3. QED
  BY <1>1, <1>2

\* What is predicted of a series is within its allowance.
LEMMA SeriesProperty ==
  ASSUME NEW samples, NEW n \in Nat, n # 0, NEW S, samples \in [1 .. n -> S],
         \A s \in S : s.units \in Nat, NEW request, request.alpha \in Int,
         request.movement \in Nat, NEW now, NEW limits, limits.capacity \in Int, NEW build,
         Series(samples, request, now, limits, build).available
  PROVE  Allowed(Series(samples, request, now, limits, build), request.movement, limits.capacity)
<1> DEFINE outcomes == IF Sufficient(samples, request, now)
                         THEN Outcomes(samples, request, now, limits, build) ELSE {}
           o == Series(samples, request, now, limits, build)
<1>1. o = IF outcomes = {} THEN Unavailable ELSE CHOOSE outcome \in outcomes : TRUE
  BY DEF Series
<1>2. outcomes # {}
  BY <1>1 DEF Unavailable
<1>3. o \in outcomes
  BY <1>1, <1>2
<1>4. o \in Outcomes(samples, request, now, limits, build)
  BY <1>3
<1>5. Bases(samples, request, build) \subseteq Nat
  BY BasesProperty
<1> HIDE DEF o
<1>6. o.available
  BY DEF o
<1>7. Allowed(o, request.movement, limits.capacity)
  BY <1>4, <1>5, <1>6, OutcomeProperty
<1>8. QED
  BY <1>7 DEF o

\* The observations of each resource are a series of their own, which is not
\* empty.
LEMMA EntriesProperty ==
  ASSUME NEW samples, NEW n \in Nat, NEW S, samples \in [1 .. n -> S],
         \A s \in S : s.units \in Nat, NEW request, request.alpha \in Int,
         request.movement \in Nat, NEW now, NEW limits, limits.capacity \in Int, NEW build,
         NEW r \in DOMAIN Entries(samples, request, now, limits, build),
         Entries(samples, request, now, limits, build)[r].available
  PROVE  Allowed(Entries(samples, request, now, limits, build)[r], request.movement, limits.capacity)
<1> DEFINE of == {i \in DOMAIN samples : samples[i].resource = r}
           m == Cardinality(of)
           series == Field(InOrder(of), LAMBDA i : samples[i])
<1>1. r \in {samples[i].resource : i \in DOMAIN samples}
  BY DEF Entries
<1>2. Entries(samples, request, now, limits, build)[r] = Series(series, request, now, limits, build)
  BY <1>1 DEF Entries
<1>3. of \in SUBSET (1 .. n) /\ of # {}
  BY <1>1
<1> HIDE DEF of
<1>4. m \in Nat /\ InOrder(of) \in [1 .. m -> of]
  BY <1>3, InOrderType
<1>5. m # 0
  <2>3. IsFiniteSet(1 .. n)
    BY FS_Interval
  <2>1. IsFiniteSet(of)
    BY <1>3, <2>3, FS_Subset
  <2>2. QED
    BY <1>3, <2>1, FS_EmptySet
<1>6. series \in [1 .. m -> S]
  BY <1>3, <1>4 DEF Field
<1> HIDE DEF m, series
<1>7. QED
  BY <1>2, <1>4, <1>5, <1>6, SeriesProperty

\* The newest of the observations that count are observations of the history.
LEMMA LatestProperty ==
  ASSUME NEW request, IsList(request.history), NEW now, NEW limit \in Nat,
         NEW sorted \in Sortings(request, now)
  PROVE  \E n \in Nat : Latest(sorted, limit) \in [1 .. n -> Range(request.history)]
<1> DEFINE counted == {i \in DOMAIN request.history : Counts(request.history[i], request, now)}
           k == Cardinality(counted)
           R == Range(request.history)
<1>1. PICK s \in SetToSeqs(counted) : sorted = Field(s, LAMBDA i : request.history[i])
  BY DEF Sortings
<1>2. Len(request.history) \in Nat /\ counted \in SUBSET (1 .. Len(request.history))
  BY ListProperty
<1>3. k \in Nat
  BY <1>2, InOrderType
<1>4. s \in [1 .. k -> counted]
  BY <1>1 DEF SetToSeqs
<1>5. \A i \in counted : request.history[i] \in R
  BY DEF Range
<1> HIDE DEF counted, k, R
<1>6. sorted = [i \in 1 .. k |-> request.history[s[i]]]
  BY <1>1, <1>4 DEF Field
<1>7. sorted \in [1 .. k -> R]
  BY <1>4, <1>5, <1>6
<1>8. sorted \in Seq(R) /\ Len(sorted) = k
  BY <1>3, <1>7
<1>9. Latest(sorted, limit) \in Seq(R)
  <2> DEFINE m == IF k > limit THEN k - limit + 1 ELSE 1
  <2>1. m \in 1 .. k + 1
    BY <1>3
  <2>2. Latest(sorted, limit) = SubSeq(sorted, m, k)
    BY <1>8 DEF Latest
  <2> HIDE DEF m
  <2>3. m \in Int /\ k \in Int /\ \A i \in m .. k : sorted[i] \in R
    BY <1>3, <1>7, <2>1
  <2>4. QED
    BY <2>2, <2>3, SubSeqProperties
<1>10. QED
  BY <1>9, SeqDef DEF R

\* What a prediction that is answered allows itself.
LEMMA PredictionProperty ==
  ASSUME NEW p, p.kind = "predict", IsProblem(p),
         NEW a \in Predictions(p.request, p.now, p.limits), a.status = "ok",
         NEW r \in DOMAIN a.entries, a.entries[r].available
  PROVE  Allowed(a.entries[r], p.request.movement, p.limits.capacity)
<1>1. /\ p.limits.capacity \in Int /\ p.limits.samples \in Nat
      /\ p.request.movement \in Nat /\ p.request.alpha \in Int
      /\ IsList(p.request.history)
      /\ \A i \in DOMAIN p.request.history : p.request.history[i].units \in Nat
  BY CheckedAssumption DEF IsProblem, U64
<1>2. AcceptedRequest(p.request, p.limits)
  BY DEF Predictions
<1>3. PICK sorted \in Sortings(p.request, p.now), build \in Builds :
        a = Totalled(Entries(Latest(sorted, p.limits.samples), p.request, p.now, p.limits, build), p.limits)
  BY <1>2 DEF Predictions
<1> DEFINE samples == Latest(sorted, p.limits.samples)
           entries == Entries(samples, p.request, p.now, p.limits, build)
<1>4. PICK n \in Nat : samples \in [1 .. n -> Range(p.request.history)]
  BY <1>1, LatestProperty
<1>5. \A s \in Range(p.request.history) : s.units \in Nat
  BY <1>1 DEF Range
<1> HIDE DEF samples
<1>6. a.entries = entries
  <2> HIDE DEF entries
  <2>1. a = Totalled(entries, p.limits)
    BY <1>3 DEF entries, samples
  <2>2. QED
    BY <2>1 DEF Totalled
<1>7. r \in DOMAIN entries /\ entries[r].available
  BY <1>6
<1>8. Allowed(entries[r], p.request.movement, p.limits.capacity)
  <2>1. \A q \in DOMAIN Entries(samples, p.request, p.now, p.limits, build) :
           Entries(samples, p.request, p.now, p.limits, build)[q].available =>
             Allowed(Entries(samples, p.request, p.now, p.limits, build)[q],
                     p.request.movement, p.limits.capacity)
    BY <1>1, <1>4, <1>5, EntriesProperty
  <2>2. QED
    BY <1>7, <2>1
<1>9. QED
  BY <1>6, <1>8

\* The problem stays what it was, and a prediction is answered at once.
PredictionInv ==
  /\ in \in Problems
  /\ in.kind = "predict" =>
       /\ solver = "idle"
       /\ \/ at = "start" /\ answer = Unanswered
          \/ at = "done" /\ answer \in Predictions(in.request, in.now, in.limits)

\* Nothing changes the problem that is evaluated.
LEMMA ProblemStays ==
  ASSUME [Next]_evaluation
  PROVE  UNCHANGED in
<1>1. CASE Validate \/ Account \/ Analyse \/ Query \/ AnalysisStep \/ Solving
  BY <1>1, AnalysisIsUnpublished DEF Unpublished
<1>2. CASE Predict \/ Analysed \/ Close
  BY <1>2 DEF Predict, Analysed, Close
<1>3. CASE Cancelling \/ UNCHANGED evaluation
  BY <1>3 DEF Cancelling, evaluation, analysis
<1>4. QED
  BY <1>1, <1>2, <1>3 DEF Next, Evaluate

\* Every step keeps what a prediction answers in its allowance.
LEMMA PredictionStep ==
  ASSUME PredictionInv, [Next]_evaluation
  PROVE  PredictionInv'
<1>1. UNCHANGED in
  BY ProblemStays
<1>2. SUFFICES ASSUME in.kind = "predict" PROVE PredictionInv'
  BY <1>1 DEF PredictionInv
<1>3. at \in {"start", "done"} /\ solver = "idle"
  BY <1>2 DEF PredictionInv
<1>4. CASE Validate \/ Account \/ Analyse \/ Query \/ Analysed \/ Close
  BY <1>2, <1>3, <1>4 DEF Validate, Account, Analyse, Query, Analysed, AllPlaced, Close
<1>5. CASE Predict
  BY <1>1, <1>5 DEF Predict, PredictionInv, flowVars
<1>6. CASE AnalysisStep
  BY <1>3, <1>6 DEF AnalysisStep, SolveBase, SolveScenario, SolveAll, SolveFailed, BaseSolved,
                    LoseDomains, ScenarioSolved, RegainDomains, Attribute, PlaceFlow, FlowPlaced
<1>7. CASE Solving
  BY <1>3, <1>7 DEF Solving, Step, Scan, Levelled, Advance, Retreat, Augment, LimitReached, Finish
<1>8. CASE Cancelling
  BY <1>2, <1>8 DEF Cancelling
<1>9. CASE UNCHANGED evaluation
  BY <1>9 DEF evaluation, analysis, flowVars, PredictionInv
<1>10. QED
  BY <1>4, <1>5, <1>6, <1>7, <1>8, <1>9 DEF Next, Evaluate

\* Whatever was observed and whatever overflows on the way, no prediction
\* leaves the allowance of the request nor passes the largest capacity.
THEOREM PredictionsStayInAllowance == Spec => []PredictionStaysInAllowance
<1>1. Init => PredictionInv
  BY DEF Init, FlowInit, PredictionInv
<1>2. PredictionInv /\ [Next]_evaluation => PredictionInv'
  BY PredictionStep
<1>3. PredictionInv => PredictionStaysInAllowance
  <2>1. SUFFICES ASSUME PredictionInv, Predicted_, NEW r \in Usable_
                 PROVE  Allowed(answer.entries[r], in.request.movement, in.limits.capacity)
    BY DEF PredictionStaysInAllowance, Allowed
  <2>2. in.kind = "predict" /\ answer.status = "ok" /\ IsProblem(in)
    BY <2>1, ProblemsAssumption DEF PredictionInv, Predicted_
  <2>3. answer \in Predictions(in.request, in.now, in.limits)
    BY <2>1, <2>2 DEF PredictionInv, Unanswered
  <2>4. r \in DOMAIN answer.entries /\ answer.entries[r].available
    BY <2>1 DEF Usable_
  <2>5. QED
    BY <2>2, <2>3, <2>4, PredictionProperty
<1>4. QED
  BY <1>1, <1>2, <1>3, PTL DEF Spec

-----------------------------------------------------------------------------
(* What a prediction rests on *)

\* A number of seconds is cut to whole ones.
LEMMA SecondsProperty ==
  ASSUME NEW earlier \in Int, NEW later \in Int, NEW s, s = Seconds(earlier, later)
  PROVE  /\ s \in Int
         /\ s >= 0 <=> later - earlier > 0 - NanosPerSecond
         /\ s >= 0 => later - earlier < s * NanosPerSecond + NanosPerSecond
         /\ s > 0 => s * NanosPerSecond <= later - earlier
<1> DEFINE d == later - earlier
<1>1. d \in Int /\ NanosPerSecond \in Nat \ {0}
  BY PredictionAssumption, CheckedAssumption
<1>2. CASE d >= 0
  <2>1. PICK q \in Nat, x \in Nat :
          q = d \div NanosPerSecond /\ x < NanosPerSecond /\ d = q * NanosPerSecond + x
    BY <1>1, <1>2, Products
  <2>2. s = q
    BY <1>1, <1>2, <2>1 DEF Seconds, Truncated, Magnitude
  <2>3. PICK t \in Nat : t = q * NanosPerSecond
    BY <1>1, <2>1
  <2>4. QED
    BY <1>1, <1>2, <2>1, <2>2, <2>3
<1>3. CASE d < 0
  <2>1. PICK e \in Nat : e = 0 - d /\ e # 0
    BY <1>1, <1>3
  <2>2. PICK q \in Nat, x \in Nat :
          q = e \div NanosPerSecond /\ x < NanosPerSecond /\ e = q * NanosPerSecond + x
    BY <1>1, <2>1, Products
  <2>3. s = 0 - q
    BY <1>1, <1>3, <2>1, <2>2 DEF Seconds, Truncated, Magnitude
  <2>4. CASE q = 0
    <3>1. 0 - d = x
      <4>1. q * NanosPerSecond = 0
        BY <1>1, <2>4
      <4>2. QED
        BY <2>1, <2>2, <4>1
    <3>2. s = 0 /\ s * NanosPerSecond = 0
      BY <1>1, <2>3, <2>4
    <3>3. QED
      BY <1>1, <1>3, <2>2, <3>1, <3>2
  <2>5. CASE q # 0
    <3>1. q * NanosPerSecond >= NanosPerSecond
      BY <1>1, <2>2, <2>5
    <3>2. s < 0 /\ s \in Int
      BY <2>2, <2>3, <2>5
    <3>3. PICK t \in Int : t = q * NanosPerSecond
      BY <1>1, <2>2
    <3>4. QED
      BY <1>1, <2>1, <2>2, <3>1, <3>2, <3>3
  <2>6. QED
    BY <2>4, <2>5
<1>4. QED
  BY <1>1, <1>2, <1>3
\* What the loops over a history count as evidence.
Counted(p) == {i \in DOMAIN p.request.history : Counts(p.request.history[i], p.request, p.now)}
TypedTimes(p) ==
  /\ p.now \in Int /\ InI64(p.now) /\ p.request.maxAge \in Int
  /\ \A i \in DOMAIN p.request.history :
       p.request.history[i].at \in Int /\ InI64(p.request.history[i].at)

\* What counts is sound, and what is sound and does not count is older than
\* what does.
LEMMA CountedIsSound ==
  ASSUME NEW p, TypedTimes(p), NEW i \in Counted(p), NEW r, r = p.request.history[i].resource
  PROVE  /\ i \in SoundOf(p, r) /\ p.request.resource \in {None, r}
         /\ \A j \in SoundOf(p, r) :
              j \in Counted(p) \/ p.request.history[j].at <= p.request.history[i].at
<1>0. NanosPerSecond \in 1 .. I64Max /\ I64Max \in Nat
  BY PredictionAssumption, CheckedAssumption
<1> DEFINE H == p.request.history
<1>1. PICK s \in Int : s = Seconds(H[i].at, p.now)
  BY SecondsProperty DEF TypedTimes, Counted
<1>2. /\ i \in DOMAIN H /\ MayBeAuthoritative(H[i].class) /\ H[i].authoritative
      /\ p.request.resource \in {None, r}
      /\ SubFits(p.now, H[i].at)
      /\ s >= 0 /\ s * NanosPerSecond <= p.request.maxAge
  BY <1>1 DEF Counted, Counts
<1>3. /\ p.now - H[i].at > 0 - NanosPerSecond
      /\ p.now - H[i].at < s * NanosPerSecond + NanosPerSecond
  BY <1>1, <1>2, SecondsProperty DEF TypedTimes
<1>4. i \in SoundOf(p, r)
  <2>1. PICK t \in Int : t = s * NanosPerSecond
    BY <1>0
  <2>2. H[i].at < p.now + NanosPerSecond /\ p.now - H[i].at < p.request.maxAge + NanosPerSecond
    BY <1>0, <1>2, <1>3, <2>1 DEF TypedTimes
  <2>3. H[i].class \in {"declared", "measured"}
    BY <1>2 DEF MayBeAuthoritative
  <2>4. QED
    BY <1>2, <2>2, <2>3 DEF SoundOf
<1>5. ASSUME NEW j \in SoundOf(p, r), j \notin Counted(p), ~ (H[j].at <= H[i].at) PROVE FALSE
  <2>1. /\ j \in DOMAIN H /\ H[j].resource = r /\ H[j].authoritative
        /\ MayBeAuthoritative(H[j].class)
        /\ H[j].at < p.now + NanosPerSecond
    BY DEF SoundOf, MayBeAuthoritative
  <2>2. PICK t \in Int : t = Seconds(H[j].at, p.now)
    BY <2>1, SecondsProperty DEF TypedTimes
  <2>3. H[i].at < H[j].at /\ H[i].at \in Int /\ H[j].at \in Int /\ p.now \in Int
    BY <1>2, <1>5, <2>1 DEF TypedTimes
  <2>4. SubFits(p.now, H[j].at)
    BY <1>0, <1>2, <2>1, <2>3 DEF SubFits, InI64, TypedTimes
  <2>5. t >= 0
    <3>1. p.now - H[j].at > 0 - NanosPerSecond
      BY <1>0, <2>1, <2>3
    <3>2. QED
      BY <2>2, <2>3, <3>1, SecondsProperty
  <2>6. ~ (t * NanosPerSecond <= p.request.maxAge)
    BY <1>2, <1>5, <2>1, <2>2, <2>4, <2>5 DEF Counted, Counts
  <2>7. PICK u \in Int, v \in Int : u = t * NanosPerSecond /\ v = s * NanosPerSecond
    BY <1>0
  <2>8. u > v
    BY <1>2, <2>6, <2>7 DEF TypedTimes
  <2>9. t >= s + 1
    <3>1. SUFFICES ASSUME t <= s PROVE FALSE
      OBVIOUS
    <3>2. u <= v
      BY <1>0, <2>7, <3>1
    <3>3. QED
      BY <2>7, <2>8, <3>2
  <2>10. u >= v + NanosPerSecond
    <3>1. PICK e \in Nat : t = s + (1 + e)
      BY <2>9
    <3>2. u = v + (1 + e) * NanosPerSecond
      BY <1>0, <2>7, <3>1, Products
    <3>3. (1 + e) * NanosPerSecond >= NanosPerSecond
      BY <1>0, <3>1
    <3>4. QED
      BY <1>0, <2>7, <3>2, <3>3
  <2>11. t > 0
    BY <1>2, <2>9
  <2>12. u <= p.now - H[j].at
    BY <2>2, <2>3, <2>7, <2>11, SecondsProperty
  <2>13. QED
    BY <1>0, <1>3, <2>3, <2>7, <2>10, <2>12
<1>6. QED
  BY <1>2, <1>4, <1>5
\* The last of what counts, from position m on: s takes the evidence of a
\* history in the order of its times.
Windowed(samples, p, s, k, m) ==
  /\ k = Cardinality(Counted(p)) /\ m \in 0 .. k
  /\ s \in [1 .. k -> Counted(p)]
  /\ \A a, b \in 1 .. k : s[a] = s[b] => a = b
  /\ \A i \in Counted(p) : \E a \in 1 .. k : s[a] = i
  /\ \A a, b \in 1 .. k :
       a < b => ~ (p.request.history[s[b]].at < p.request.history[s[a]].at)
  /\ samples = [a \in 1 .. k - m |-> p.request.history[s[m + a]]]

LEMMA LatestWindow ==
  ASSUME NEW p, IsList(p.request.history), NEW limit \in Nat, NEW sorted \in Sortings(p.request, p.now)
  PROVE  \E k, m \in Nat : \E s : Windowed(Latest(sorted, limit), p, s, k, m)
<1> DEFINE C == Counted(p)
           H == p.request.history
           R == Range(H)
<1>1. PICK s \in SetToSeqs(C) :
        /\ sorted = Field(s, LAMBDA i : H[i])
        /\ \A i, j \in DOMAIN s : i < j => ~ Earlier(H[s[j]], H[s[i]])
  BY DEF Sortings, Counted
<1>2. Len(H) \in Nat /\ C \in SUBSET (1 .. Len(H))
  BY ListProperty DEF Counted
<1>3. PICK k \in Nat : k = Cardinality(C)
  BY <1>2, InOrderType
<1>4. s \in [1 .. k -> C] /\ \A a, b \in 1 .. k : s[a] = s[b] => a = b
  BY <1>1, <1>3 DEF SetToSeqs
<1>5. \A i \in C : H[i] \in R
  BY DEF Range, Counted
<1>6. \A i \in C : \E a \in 1 .. k : s[a] = i
  <2>1. IsFiniteSet(C)
    <3>1. IsFiniteSet(1 .. Len(H))
      BY <1>2, FS_Interval
    <3>2. QED
      BY <1>2, <3>1, FS_Subset
  <2>2. s \in Injection(1 .. k, C)
    BY <1>4 DEF Injection, IsInjective
  <2>3. Cardinality(1 .. k) = k
    BY <1>3, FS_Interval
  <2>4. s \in Surjection(1 .. k, C)
    BY <1>3, <2>1, <2>2, <2>3, FS_Injection
  <2>5. QED
    BY <2>4 DEF Surjection
<1> HIDE DEF C, R
<1>7. \A a, b \in 1 .. k : a < b => ~ (H[s[b]].at < H[s[a]].at)
  BY <1>1, <1>4 DEF Earlier
<1>8. sorted = [a \in 1 .. k |-> H[s[a]]]
  BY <1>1, <1>4 DEF Field
<1>9. sorted \in [1 .. k -> R]
  BY <1>4, <1>5, <1>8
<1>10. sorted \in Seq(R) /\ Len(sorted) = k
  BY <1>3, <1>9
<1>11. PICK m \in 0 .. k : m = IF k > limit THEN k - limit ELSE 0
  BY <1>3
<1>12. Latest(sorted, limit) = SubSeq(sorted, m + 1, k)
  <2>1. m + 1 = IF Len(sorted) > limit THEN Len(sorted) - limit + 1 ELSE 1
    BY <1>3, <1>10, <1>11
  <2>2. QED
    BY <1>10, <2>1 DEF Latest
<1>13. Latest(sorted, limit) = [a \in 1 .. k - m |-> H[s[m + a]]]
  <2>1. \A a \in m + 1 .. k : sorted[a] \in R
    BY <1>3, <1>9, <1>11
  <2>2. PICK l : l = SubSeq(sorted, m + 1, k)
    OBVIOUS
  <2>3. l \in [1 .. k - m -> R] /\ \A a \in 1 .. k - m : l[a] = sorted[(m + 1) + a - 1]
    <3>1. PICK b \in Int : b = m + 1
      BY <1>3, <1>11
    <3>2. k \in Int /\ \A a \in b .. k : sorted[a] \in R
      BY <1>3, <2>1, <3>1
    <3>3. /\ l \in Seq(R) /\ Len(l) = IF b <= k THEN k - b + 1 ELSE 0
          /\ \A a \in 1 .. k - b + 1 : l[a] = sorted[b + a - 1]
      BY <2>2, <3>1, <3>2, SubSeqProperties
    <3>4. Len(l) = k - m /\ k - b + 1 = k - m
      BY <1>3, <1>11, <3>1, <3>3
    <3>5. QED
      BY <3>1, <3>3, <3>4
  <2>4. \A a \in 1 .. k - m : m + a \in 1 .. k /\ (m + 1) + a - 1 = m + a
    BY <1>3, <1>11
  <2>5. \A a \in 1 .. k - m : l[a] = H[s[m + a]]
    BY <1>8, <2>3, <2>4
  <2>6. QED
    BY <1>12, <2>2, <2>3, <2>5
<1>14. Windowed(Latest(sorted, limit), p, s, k, m)
  BY <1>3, <1>4, <1>6, <1>7, <1>11, <1>13 DEF Windowed, C
<1>15. QED
  BY <1>3, <1>11, <1>14

\* An available series has enough observations, which are near enough to the
\* horizon, and starts from the newest or from a level.
LEMMA SeriesRests ==
  ASSUME NEW samples, NEW request, NEW now, NEW limits, NEW build, NEW o,
         o = Series(samples, request, now, limits, build), o.available
  PROVE  /\ Sufficient(samples, request, now)
         /\ o.samples = Len(samples)
         /\ request.model # "ewma-level" => o.base = Newest(samples).units
<1> DEFINE outcomes == IF Sufficient(samples, request, now)
                         THEN Outcomes(samples, request, now, limits, build) ELSE {}
<1>1. o = IF outcomes = {} THEN Unavailable ELSE CHOOSE outcome \in outcomes : TRUE
  BY DEF Series
<1>2. outcomes # {}
  BY <1>1 DEF Unavailable
<1>3. Sufficient(samples, request, now) /\ o \in Outcomes(samples, request, now, limits, build)
  BY <1>1, <1>2
<1>4. PICK base \in {b \in Bases(samples, request, build) : b <= I64Max},
           movement \in Movements(samples, request, now, build) :
        o \in {Extrapolated(samples, request, now, limits, base, movement, predicted) :
                 predicted \in {Moved(base, Reached(base, movement.delta, limits), request.movement)}}
  BY <1>3 DEF Outcomes
<1>5. PICK predicted : o = Extrapolated(samples, request, now, limits, base, movement, predicted)
  BY <1>4
<1>6. ScaleFits(base, request.movement) /\ ~ (predicted > limits.capacity)
  <2>1. SUFFICES ASSUME ~ (ScaleFits(base, request.movement) /\ ~ (predicted > limits.capacity))
                 PROVE  FALSE
    OBVIOUS
  <2>2. o = Unavailable
    BY <1>5, <2>1 DEF Extrapolated
  <2>3. QED
    BY <2>2 DEF Unavailable
<1>7. o.base = base /\ o.samples = Len(samples)
  BY <1>5, <1>6 DEF Extrapolated
<1>8. request.model # "ewma-level" => base = Newest(samples).units
  BY <1>4 DEF Bases
<1>9. QED
  BY <1>3, <1>7, <1>8

\* What is predicted of a resource rests on the evidence for it.
LEMMA EntryRests ==
  ASSUME NEW p, TypedTimes(p), InI64(p.request.horizon), InI64(p.request.maxExtrapolation),
         p.request.minimum \in Nat, IsList(p.request.history),
         NEW samples, NEW k \in Nat, NEW m \in Nat, NEW s, Windowed(samples, p, s, k, m),
         NEW limits, NEW build,
         NEW entries, entries = Entries(samples, p.request, p.now, limits, build),
         NEW r \in DOMAIN entries, entries[r].available
  PROVE  RestsOn(entries[r], p, r)
<1> DEFINE H == p.request.history
           n == k - m
           of == {a \in DOMAIN samples : samples[a].resource = r}
           series == Field(InOrder(of), LAMBDA a : samples[a])
<1>1. n \in Nat /\ samples = [a \in 1 .. n |-> H[s[m + a]]]
  BY DEF Windowed
<1>2. \A a \in 1 .. n : m + a \in 1 .. k /\ s[m + a] \in Counted(p)
  <2>1. m \in 0 .. k /\ s \in [1 .. k -> Counted(p)]
    BY DEF Windowed
  <2>2. \A a \in 1 .. n : m + a \in 1 .. k
    BY <2>1
  <2>3. QED
    BY <2>1, <2>2
<1>3. of \in SUBSET (1 .. n) /\ of # {} /\ r \in {samples[i].resource : i \in DOMAIN samples}
  BY <1>1 DEF Entries
<1>4. \A a \in of : s[m + a] \in Counted(p) /\ H[s[m + a]].resource = r
  BY <1>1, <1>2, <1>3
<1>5. entries[r] = Series(series, p.request, p.now, limits, build)
  BY <1>3 DEF Entries
<1> HIDE DEF of, n
<1>6. PICK c \in Nat : c = Cardinality(of) /\ InOrder(of) \in [1 .. c -> of]
  BY <1>1, <1>3, InOrderType
<1>7. IsFiniteSet(of) /\ c # 0
  <2>1. IsFiniteSet(1 .. n)
    <3>1. 1 \in Int /\ n \in Int
      BY <1>1
    <3>2. QED
      BY <3>1, FS_Interval
  <2>2. IsFiniteSet(of)
    BY <1>3, <2>1, FS_Subset
  <2>3. QED
    BY <1>3, <1>6, <2>2, FS_EmptySet
<1>8. PICK e \in of : e = InOrder(of)[c] /\ \A a \in of : a <= e
  <2>1. InOrder(of)[c] \in of
    BY <1>6, <1>7
  <2>2. ASSUME NEW a \in of PROVE a <= InOrder(of)[c]
    <3>1. PICK i \in 1 .. c : InOrder(of)[i] = a
      BY <1>1, <1>3, <1>6, InOrderComplete
    <3>2. \A x, y \in 1 .. c : x < y => InOrder(of)[x] < InOrder(of)[y]
      BY <1>1, <1>3, <1>6, InOrderIncreases
    <3>3. c \in 1 .. c /\ (i < c \/ i = c)
      BY <1>6, <1>7
    <3>4. i < c => a < InOrder(of)[c]
      BY <3>1, <3>2, <3>3
    <3>5. a \in Int /\ InOrder(of)[c] \in Int
      <4>1. \A x \in of : x \in Int
        BY <1>1, <1>3
      <4>2. QED
        BY <2>1, <4>1
    <3>6. QED
      BY <3>1, <3>3, <3>4, <3>5
  <2>3. QED
    BY <2>1, <2>2
<1>9. PICK i \in Counted(p) : i = s[m + e] /\ H[i].resource = r
  BY <1>4, <1>8
<1>10. Len(series) = c /\ Newest(series) = H[i]
  <2>1. series = [a \in 1 .. c |-> samples[InOrder(of)[a]]]
    BY <1>6 DEF Field
  <2>2. Len(series) = c
    BY <2>1
  <2>3. series[c] = samples[e]
    BY <1>6, <1>7, <1>8, <2>1
  <2>4. samples[e] = H[i]
    BY <1>1, <1>3, <1>8, <1>9
  <2>5. QED
    BY <2>2, <2>3, <2>4 DEF Newest
<1>11. /\ i \in SoundOf(p, r) /\ p.request.resource \in {None, r}
       /\ \A j \in SoundOf(p, r) : j \in Counted(p) \/ H[j].at <= H[i].at
  BY <1>9, CountedIsSound
<1>12. ASSUME NEW j \in SoundOf(p, r) PROVE H[j].at <= H[i].at
  <2>1. SUFFICES ASSUME j \in Counted(p) PROVE H[j].at <= H[i].at
    BY <1>11
  <2>2. H[j].resource = r /\ j \in DOMAIN H /\ i \in DOMAIN H
    BY <1>9 DEF SoundOf, Counted
  <2>3. PICK b \in 1 .. k : s[b] = j
    BY <2>1 DEF Windowed
  <2>4. m + e \in 1 .. k /\ e \in 1 .. n
    BY <1>2, <1>3, <1>8
  <2>5. ~ (b > m + e)
    <3>1. SUFFICES ASSUME b > m + e PROVE FALSE
      OBVIOUS
    <3>2. PICK a \in 1 .. n : b = m + a
      <4>1. b - m \in 1 .. n /\ b = m + (b - m)
        BY <1>1, <2>3, <2>4, <3>1 DEF n, Windowed
      <4>2. QED
        BY <4>1
    <3>3. a \in of
      BY <1>1, <2>2, <2>3, <3>2 DEF of
    <3>4. a <= e
      BY <1>8, <3>3
    <3>5. QED
      BY <2>4, <3>1, <3>2, <3>4
  <2>6. b < m + e => ~ (H[i].at < H[j].at)
    BY <1>9, <2>3, <2>4 DEF Windowed
  <2>7. H[i].at \in Int /\ H[j].at \in Int
    BY <2>2 DEF TypedTimes
  <2>8. CASE b = m + e
    BY <1>9, <2>3, <2>7, <2>8
  <2>9. QED
    BY <2>3, <2>4, <2>5, <2>6, <2>7, <2>8
<1>13. c <= Cardinality(SoundOf(p, r)) /\ Cardinality(SoundOf(p, r)) \in Nat
  <2>1. IsFiniteSet(SoundOf(p, r))
    <3>1. SoundOf(p, r) \in SUBSET (1 .. Len(H)) /\ Len(H) \in Nat
      BY ListProperty DEF SoundOf
    <3>2. IsFiniteSet(1 .. Len(H))
      BY <3>1, FS_Interval
    <3>3. QED
      BY <3>1, <3>2, FS_Subset
  <2>2. \A a \in of : s[m + a] \in SoundOf(p, r)
    BY <1>4, CountedIsSound
  <2>3. PICK f : f = [a \in of |-> s[m + a]]
    OBVIOUS
  <2>4. \A a, b \in of : f[a] = f[b] => a = b
    <3>1. TAKE a, b \in of
    <3>2. HAVE f[a] = f[b]
    <3>3. m + a \in 1 .. k /\ m + b \in 1 .. k /\ a \in Int /\ b \in Int
      BY <1>2, <1>3
    <3>4. m + a = m + b
      BY <2>3, <3>2, <3>3 DEF Windowed
    <3>5. QED
      BY <3>3, <3>4
  <2>5. f \in Injection(of, SoundOf(p, r))
    BY <2>2, <2>3, <2>4 DEF Injection, IsInjective
  <2>6. QED
    BY <1>6, <2>1, <2>5, FS_Injection, FS_CardinalityType
<1> HIDE DEF series
<1>14. /\ Sufficient(series, p.request, p.now)
       /\ entries[r].samples = c
       /\ p.request.model # "ewma-level" => entries[r].base = H[i].units
  BY <1>5, <1>10, SeriesRests
<1>15. PICK h \in Int : h = Horizon(p.request, p.now)
  BY CheckedAssumption DEF Horizon, TypedTimes, InI64
<1>16. c >= p.request.minimum
  BY <1>10, <1>14 DEF Sufficient
<1>17. h - H[i].at < p.request.maxExtrapolation + NanosPerSecond /\ H[i].at < h + NanosPerSecond
  <2>1. H[i].at \in Int /\ NanosPerSecond \in Nat /\ p.request.maxExtrapolation \in Int
    BY <1>9, PredictionAssumption, CheckedAssumption DEF TypedTimes, Counted, InI64
  <2>2. PICK t \in Int : t = Seconds(H[i].at, h)
    BY <1>15, <2>1, SecondsProperty
  <2>3. t >= 0 /\ t * NanosPerSecond <= p.request.maxExtrapolation
    BY <1>10, <1>14, <1>15, <2>2 DEF Sufficient
  <2>4. h - H[i].at > 0 - NanosPerSecond /\ h - H[i].at < t * NanosPerSecond + NanosPerSecond
    BY <1>15, <2>1, <2>2, <2>3, SecondsProperty
  <2>5. PICK u \in Int : u = t * NanosPerSecond
    BY <2>1
  <2>6. QED
    BY <1>15, <2>1, <2>3, <2>4, <2>5
<1>18. entries[r].samples \in p.request.minimum .. Cardinality(SoundOf(p, r))
  BY <1>6, <1>13, <1>14, <1>16
<1>19. QED
  BY <1>11, <1>12, <1>14, <1>15, <1>17, <1>18 DEF RestsOn

\* The total of what is predicted is the sum over the resources that it is
\* predicted for, in whatever order they are added up.
LEMMA TotalRests ==
  ASSUME NEW A, IsFiniteSet(A), NEW v, \A r \in A : v[r].predicted \in Int
  PROVE  Total(Field(SetToSeq(A), LAMBDA r : v[r].predicted)) = SumFunction([r \in A |-> v[r].predicted])
<1>1. PICK c \in Nat : c = Cardinality(A) /\ ExistsBijection(1 .. c, A)
  BY FS_CardinalityType
<1>2. SetToSeq(A) \in [1 .. c -> A] /\ IsInjective(SetToSeq(A))
  <2>1. PICK f : f \in Bijection(1 .. c, A)
    BY <1>1 DEF ExistsBijection
  <2>2. f \in [1 .. c -> A] /\ IsInjective(f)
    BY <2>1 DEF Bijection, Injection
  <2>3. QED
    BY <1>1, <2>2 DEF SetToSeq
<1>3. PICK q : q = SetToSeq(A)
  OBVIOUS
<1>4. IsFiniteSet(1 .. c) /\ Cardinality(1 .. c) = c
  <2>1. 1 \in Int /\ c \in Int
    BY <1>1
  <2>2. QED
    BY <1>1, <2>1, FS_Interval
<1>5. q \in [1 .. c -> A] /\ \A x, y \in 1 .. c : q[x] = q[y] => x = y
  BY <1>2, <1>3 DEF IsInjective
<1>6. \A r \in A : \E x \in 1 .. c : q[x] = r
  <2>1. q \in Injection(1 .. c, A)
    BY <1>5 DEF Injection, IsInjective
  <2>2. q \in Surjection(1 .. c, A)
    BY <1>1, <1>4, <2>1, FS_Injection
  <2>3. QED
    BY <2>2 DEF Surjection
<1>7. PICK g : g = [r \in A |-> v[r].predicted]
  OBVIOUS
<1>8. PICK f : f = Field(q, LAMBDA r : v[r].predicted)
  OBVIOUS
<1>9. f = [x \in 1 .. c |-> v[q[x]].predicted]
  BY <1>5, <1>8 DEF Field
<1>10. PICK D : D = 1 .. c
  OBVIOUS
<1>11. SumFunctionOnSet(f, D) = SumFunctionOnSet(g, A)
  <2>1. IsFiniteSet(D) /\ q \in [D -> A] /\ (\A x, y \in D : q[x] = q[y] => x = y)
        /\ (\A r \in A : \E x \in D : q[x] = r)
    BY <1>4, <1>5, <1>6, <1>10
  <2>2. (\A r \in A : g[r] \in Int) /\ \A x \in D : f[x] = g[q[x]]
    BY <1>5, <1>7, <1>9, <1>10
  <2>3. QED
    BY <2>1, <2>2, SumMapped
<1>12. DOMAIN f = D /\ DOMAIN g = A
  BY <1>7, <1>9, <1>10
<1>13. SumFunction(f) = SumFunction(g)
  BY <1>11, <1>12 DEF SumFunction
<1>14. QED
  BY <1>3, <1>7, <1>8, <1>13 DEF Total

\* Everything that a prediction answers rests on evidence.
LEMMA PredictionRests ==
  ASSUME NEW p, p.kind = "predict", IsProblem(p),
         NEW a \in Predictions(p.request, p.now, p.limits), a.status = "ok",
         NEW able, able = {r \in DOMAIN a.entries : a.entries[r].available}
  PROVE  /\ a.available => able # {}
         /\ a.predicted = SumFunction([r \in able |-> a.entries[r].predicted])
         /\ \A r \in able : RestsOn(a.entries[r], p, r)
<1>1. /\ p.limits.samples \in Nat /\ IsList(p.request.history) /\ TypedTimes(p)
      /\ InI64(p.request.horizon) /\ InI64(p.request.maxExtrapolation)
      /\ p.request.minimum \in Nat
  BY CheckedAssumption DEF IsProblem, TypedTimes, InI64
<1>2. AcceptedRequest(p.request, p.limits)
  BY DEF Predictions
<1>3. PICK sorted \in Sortings(p.request, p.now), build \in Builds :
        a = Totalled(Entries(Latest(sorted, p.limits.samples), p.request, p.now, p.limits, build), p.limits)
  BY <1>2 DEF Predictions
<1>4. PICK samples, entries :
        /\ samples = Latest(sorted, p.limits.samples)
        /\ entries = Entries(samples, p.request, p.now, p.limits, build)
  OBVIOUS
<1>5. PICK k, m \in Nat : \E s : Windowed(samples, p, s, k, m)
  BY <1>1, <1>4, LatestWindow
<1>6. PICK s : Windowed(samples, p, s, k, m)
  BY <1>5
<1>7. PICK seq : seq = SetToSeq({r \in DOMAIN entries : entries[r].available})
  OBVIOUS
<1>8. /\ a.entries = entries
      /\ a.available => seq # <<>>
      /\ a.predicted = Total(Field(seq, LAMBDA r : entries[r].predicted))
  <2>1. a = Totalled(entries, p.limits)
    BY <1>3, <1>4
  <2>2. QED
    BY <1>7, <2>1 DEF Totalled
<1>9. able \in SUBSET DOMAIN entries /\ seq = SetToSeq(able) /\ \A r \in able : entries[r].available
  BY <1>7, <1>8
<1>10. IsFiniteSet(able)
  <2>1. PICK n \in Nat : DOMAIN samples = 1 .. n
    BY <1>5, <1>6 DEF Windowed
  <2>2. IsFiniteSet(1 .. n)
    <3>1. 1 \in Int /\ n \in Int
      BY <2>1
    <3>2. QED
      BY <3>1, FS_Interval
  <2>3. DOMAIN entries = {samples[i].resource : i \in DOMAIN samples}
    BY <1>4 DEF Entries
  <2>4. PICK D, f : D = DOMAIN entries /\ f = [i \in 1 .. n |-> samples[i].resource]
    OBVIOUS
  <2>5. f \in [1 .. n -> D] /\ \A y \in D : \E x \in 1 .. n : f[x] = y
    BY <2>1, <2>3, <2>4
  <2>6. IsFiniteSet(D)
    BY <2>2, <2>5, ImageFinite
  <2>7. QED
    BY <1>9, <2>4, <2>6, FS_Subset
<1>11. \A r \in able : entries[r].predicted \in Int
  <2>1. TAKE r \in able
  <2>2. Allowed(a.entries[r], p.request.movement, p.limits.capacity)
    BY <1>8, <1>9, PredictionProperty
  <2>3. QED
    BY <1>8, <2>2 DEF Allowed
<1>12. a.predicted = SumFunction([r \in able |-> a.entries[r].predicted])
  <2>1. Total(Field(SetToSeq(able), LAMBDA r : entries[r].predicted))
          = SumFunction([r \in able |-> entries[r].predicted])
    BY <1>10, <1>11, TotalRests
  <2>2. a.predicted = Total(Field(SetToSeq(able), LAMBDA r : entries[r].predicted))
    <3>1. a.predicted = Total(Field(seq, LAMBDA r : entries[r].predicted)) /\ seq = SetToSeq(able)
      BY <1>8, <1>9
    <3>2. QED
      BY <3>1
  <2>3. QED
    BY <1>8, <2>1, <2>2
<1>13. a.available => able # {}
  <2>1. SUFFICES ASSUME able = {} PROVE seq = <<>>
    BY <1>8
  <2>2. Cardinality(able) = 0
    BY <2>1, FS_EmptySet
  <2>3. <<>> \in [1 .. 0 -> able] /\ IsInjective(<<>>)
    BY DEF IsInjective
  <2>4. seq \in [1 .. 0 -> able]
    BY <1>9, <2>2, <2>3 DEF SetToSeq
  <2>5. QED
    BY <2>4
<1>14. ASSUME NEW r \in able PROVE RestsOn(entries[r], p, r)
  <2>1. r \in DOMAIN entries /\ entries[r].available
    BY <1>9
  <2>2. QED
    BY <1>1, <1>4, <1>5, <1>6, <2>1, EntryRests
<1>15. QED
  BY <1>8, <1>12, <1>13, <1>14

\* Whatever is in the history and in whatever order the sort leaves it, what
\* is predicted rests on enough sound observations, and on the newest of them.
THEOREM PredictionsRestOnEvidence == Spec => []PredictionRestsOnEvidence
<1>1. Init => PredictionInv
  BY DEF Init, FlowInit, PredictionInv
<1>2. PredictionInv /\ [Next]_evaluation => PredictionInv'
  BY PredictionStep
<1>3. PredictionInv => PredictionRestsOnEvidence
  <2>1. SUFFICES ASSUME PredictionInv, Predicted_
                 PROVE  /\ answer.available => Usable_ # {}
                        /\ answer.predicted = SumFunction([r \in Usable_ |-> answer.entries[r].predicted])
                        /\ \A r \in Usable_ : RestsOn(answer.entries[r], in, r)
    BY DEF PredictionRestsOnEvidence
  <2>2. in.kind = "predict" /\ answer.status = "ok" /\ IsProblem(in)
    BY <2>1, ProblemsAssumption DEF PredictionInv, Predicted_
  <2>3. answer \in Predictions(in.request, in.now, in.limits)
    BY <2>1, <2>2 DEF PredictionInv, Unanswered
  <2>4. Usable_ = {r \in DOMAIN answer.entries : answer.entries[r].available}
    BY DEF Usable_
  <2>5. QED
    BY <2>2, <2>3, <2>4, PredictionRests
<1>4. QED
  BY <1>1, <1>2, <1>3, PTL DEF Spec

-----------------------------------------------------------------------------
(* The form of an evaluation *)

Phases == {"start", "accounting", "accounted", "base", "scenarios", "lost", "regain",
           "place", "placing", "close", "done"}
TallyFields == {"flows", "granularity", "resilience", "singleSlice", "base", "deliverable", "used",
                "scenarios", "examined", "breakdown", "reservedStranded", "budget", "satisfied",
                "granularityLoss", "quantized", "fits"}

\* A tally is kept from the beginning of the analysis on, and a solve is under
\* way in its phases only.
FormInv ==
  /\ at \in Phases
  /\ at \notin {"base", "lost", "placing"} => solver = "idle"
  /\ at \in {"start", "accounting", "accounted"} => tally = <<>>
  /\ at \in {"base", "scenarios", "lost", "regain", "place", "placing"} =>
       tally # <<>> /\ in.kind \in {"fit", "evaluate"}
  /\ at \in {"accounting", "accounted", "close", "place", "placing"} => in.kind # "predict"
  /\ in.kind = "evaluate" /\ at \in {"accounting", "accounted"} => Accepted(in)
  /\ tally # <<>> =>
       /\ DOMAIN tally = TallyFields
       /\ DOMAIN tally.flows = 1 .. Len(tally.flows) /\ Len(tally.flows) \in Nat
       /\ \E S : tally.fits \in Seq(S)

\* What is sorted is a list as long as what it was.
LEMMA OrderedIsList ==
  ASSUME NEW shape
  PROVE  \E f : Ordered(shape) = [k \in DOMAIN shape.flows |-> f[k]]
<1> DEFINE Less(a, b) == \/ a.priority < b.priority
                         \/ a.priority = b.priority /\ Before(a.id, b.id)
           Sorted_ == SortedBy(shape.flows, Less)
<1>1. Ordered(shape) = Sorted_
  BY DEF Ordered
<1> HIDE DEF Less
<1>2. Sorted_ = [k \in DOMAIN shape.flows |->
                  shape.flows[CHOOSE i \in DOMAIN shape.flows : RankIn(shape.flows, Less, i) = k - 1]]
  BY DEF SortedBy
<1> HIDE DEF Sorted_
<1>3. Sorted_ = [k \in DOMAIN shape.flows |-> Sorted_[k]]
  BY <1>2
<1>4. QED
  BY <1>1, <1>3

\* The shapes that are analysed are lists of flows.
LEMMA ShapesAreLists ==
  ASSUME PredictionInv
  PROVE  /\ Analyse /\ in.shape # None => IsList(in.shape.flows)
         /\ IsList(QueryShape(in.query).flows)
<1>1. ASSUME Analyse, in.shape # None PROVE IsList(in.shape.flows)
  <2>1. at = "accounted" /\ in.kind # "fit"
    BY <1>1 DEF Analyse, Querying
  <2>2. in.kind = "evaluate" /\ IsProblem(in)
    BY <2>1, ProblemsAssumption DEF PredictionInv
  <2>3. TypedShape(in.shape)
    BY <1>1, <2>2 DEF IsProblem
  <2>4. QED
    BY <2>3 DEF TypedShape
<1>2. IsList(QueryShape(in.query).flows)
  <2>1. ASSUME NEW f PROVE IsList(<<f>>)
    BY DEF IsList, Range
  <2>2. QED
    BY <2>1 DEF QueryShape
<1>3. QED
  BY <1>1, <1>2

\* What an analysis begins with.
FreshTally(flows, shape, resilience, single) ==
  [flows |-> flows, granularity |-> shape.granularity,
   resilience |-> resilience, singleSlice |-> single,
   base |-> 0, deliverable |-> 0, used |-> <<>>,
   scenarios |-> <<>>, examined |-> 0,
   breakdown |-> NothingStranded, reservedStranded |-> 0,
   budget |-> 0, satisfied |-> 0, granularityLoss |-> 0,
   quantized |-> 0, fits |-> <<>>]

\* An analysis begins when it was asked for and neither cancelled nor refused,
\* and changes nothing else.
Begins(shape) ==
  /\ at = "accounted" /\ IsList(shape.flows) /\ UNCHANGED <<in, rows, answer, call>>
  /\ in.kind # "predict"
  /\ \/ in.kind = "evaluate" /\ shape = in.shape /\ shape # None /\ RollUpFits(rows) /\ Accepted(in)
     \/ in.kind = "fit" /\ shape = QueryShape(in.query) /\ AcceptedQuery(in.query)
  /\ Assemblable(in, rows, Ordered(shape))
  /\ net' = Assemble(in.topology, Ordered(shape))
  /\ cap' = Capacities(in.topology, rows, 2 * Len(Ends(in.topology, Ordered(shape))), {})
  /\ flow' = NoFlow(net') /\ solver' = "idle"
  /\ level' = [v \in net'.nodes |-> -1]
  /\ \E resilience \in Resiliences : \E single :
       /\ tally' = FreshTally(Ordered(shape), shape, resilience, single)
       /\ in.kind = "fit" => single = FALSE
  /\ at' = "base"

\* An analysis begins, or is refused and changes nothing.
LEMMA BeginProperty ==
  ASSUME NEW shape, NEW resilience \in Resiliences, NEW single, BeginAnalysis(shape, resilience, single),
         IsList(shape.flows), at = "accounted", in.kind # "predict",
         \/ in.kind = "evaluate" /\ shape = in.shape /\ shape # None /\ RollUpFits(rows) /\ Accepted(in)
         \/ in.kind = "fit" /\ shape = QueryShape(in.query) /\ AcceptedQuery(in.query) /\ single = FALSE
  PROVE  Begins(shape) \/ (UNCHANGED <<in, rows, tally, flowVars>> /\ at' = "done")
<1>1. CASE cancelled \/ ~ Assemblable(in, rows, Ordered(shape))
  BY <1>1 DEF BeginAnalysis, Fail
<1>2. CASE ~ cancelled /\ Assemblable(in, rows, Ordered(shape))
  BY <1>2 DEF BeginAnalysis, Begins, Build, FreshTally
<1>3. QED
  BY <1>1, <1>2

\* What the steps before an analysis and after it leave alone.
Outside ==
  /\ UNCHANGED <<in, tally, flowVars>>
  /\ UNCHANGED rows \/ at' = "accounted"
  /\ at \notin {"base", "lost", "placing", "done"}
  /\ at' \notin {"base", "scenarios", "lost", "regain", "place", "placing"}
  /\ at' \in Phases /\ at' # "start"
  /\ at' \in {"accounting", "accounted"} =>
       tally = <<>> /\ in.kind # "predict" /\ (in.kind = "evaluate" => Accepted(in))
  /\ at' = "accounted" => rows' = Rows(in) /\ Derivable(in)
  /\ at' = "close" => in.kind = "evaluate" /\ (tally = <<>> => at = "accounted" /\ RollUpFits(rows))

\* The steps before an analysis and after it leave it alone, unless they begin
\* one.
LEMMA OuterSteps ==
  ASSUME PredictionInv, FormInv,
         Validate \/ Account \/ Analyse \/ Query \/ Predict \/ Analysed \/ Close
  PROVE  (\E shape : Begins(shape)) \/ Outside
<1> USE DEF Outside
<1>1. CASE Validate \/ Account
  BY <1>1, ProblemsAssumption DEF Validate, Account, Fail, FormInv, Phases, Querying, PredictionInv
<1>2. CASE Predict
  BY <1>2 DEF Predict, Phases
<1>3. CASE Analysed \/ Close
  <2>1. in.kind \in {"evaluate", "fit"} /\ at \in {"place", "close"}
    BY <1>3, ProblemsAssumption DEF FormInv, PredictionInv, Analysed, AllPlaced, Close
  <2>2. UNCHANGED <<in, rows, tally, flowVars>> /\ at' \in {"close", "done"}
        /\ (at' = "close" => ~ Querying)
    BY <1>3 DEF Analysed, Close, Fail
  <2>3. at' = "close" => at = "place" /\ tally # <<>>
    BY <1>3 DEF Analysed, AllPlaced, Close, Fail, FormInv
  <2>4. QED
    BY <2>1, <2>2, <2>3 DEF Phases, Querying
<1>4. CASE Analyse
  <2>1. at = "accounted" /\ in.kind = "evaluate" /\ tally = <<>> /\ Accepted(in)
    BY <1>4, ProblemsAssumption DEF Analyse, Querying, PredictionInv, FormInv
  <2>2. CASE ~ RollUpFits(rows) \/ in.shape = None
    BY <1>4, <2>1, <2>2 DEF Analyse, Fail, Phases
  <2>3. CASE RollUpFits(rows) /\ in.shape # None
    <3>0. in.policy.resilience \in Resiliences
      BY <2>1, ProblemsAssumption DEF PredictionInv, IsProblem, TypedCatalogs
    <3>1. IsList(in.shape.flows)
          /\ BeginAnalysis(in.shape, in.policy.resilience, in.policy.singleSlice)
      BY <1>4, <2>3, ShapesAreLists DEF Analyse
    <3>2. Begins(in.shape) \/ (UNCHANGED <<in, rows, tally, flowVars>> /\ at' = "done")
      BY <2>1, <2>3, <3>0, <3>1, BeginProperty
    <3>3. QED
      BY <2>1, <3>2 DEF Phases
  <2>4. QED
    BY <2>2, <2>3
<1>5. CASE Query
  <2>1. at = "accounted" /\ in.kind = "fit" /\ tally = <<>>
    BY <1>5 DEF Query, Querying, FormInv
  <2>2. CASE ~ AcceptedQuery(in.query)
    BY <1>5, <2>1, <2>2 DEF Query, Fail, Phases
  <2>3. CASE AcceptedQuery(in.query)
    <3>0. in.query.resilience \in Resiliences
      BY <2>1, ProblemsAssumption DEF PredictionInv, IsProblem
    <3>1. IsList(QueryShape(in.query).flows)
          /\ BeginAnalysis(QueryShape(in.query), in.query.resilience, FALSE)
      BY <1>5, <2>3, ShapesAreLists DEF Query
    <3>2. Begins(QueryShape(in.query)) \/ (UNCHANGED <<in, rows, tally, flowVars>> /\ at' = "done")
      BY <2>1, <2>3, <3>0, <3>1, BeginProperty
    <3>3. QED
      BY <2>1, <3>2 DEF Phases
  <2>4. QED
    BY <2>2, <2>3
<1>6. QED
  BY <1>1, <1>2, <1>3, <1>4, <1>5

\* What a step of the analysis keeps of its tally.
Keeps ==
  /\ tally # <<>> /\ tally' # <<>> /\ DOMAIN tally' = TallyFields
  /\ tally'.flows = tally.flows /\ tally'.granularity = tally.granularity
  /\ (\E S : tally'.fits \in Seq(S)) /\ UNCHANGED in

\* Steps of the analysis keep the shape of the tally.
LEMMA AnalysisKeeps ==
  ASSUME FormInv, AnalysisStep
  PROVE  Keeps
<1>1. tally # <<>> /\ UNCHANGED in
  <2>1. UNCHANGED in
    BY DEF AnalysisStep, SolveBase, SolveScenario, SolveAll, SolveFailed, BaseSolved, LoseDomains,
           ScenarioSolved, RegainDomains, Attribute, PlaceFlow, FlowPlaced, analysis
  <2>2. at \in {"base", "scenarios", "lost", "regain", "place", "placing"}
    BY DEF AnalysisStep, SolveBase, SolveScenario, SolveAll, SolveFailed, BaseSolved, LoseDomains,
           ScenarioSolved, RegainDomains, Attribute, PlaceFlow, FlowPlaced, FormInv
  <2>3. QED
    BY <2>1, <2>2 DEF FormInv
<1>2. DOMAIN tally = TallyFields /\ \E S : tally.fits \in Seq(S)
  BY <1>1 DEF FormInv
<1>3. ASSUME DOMAIN tally' = TallyFields, tally'.flows = tally.flows,
             tally'.granularity = tally.granularity, \E S : tally'.fits \in Seq(S)
      PROVE  Keeps
  <2>1. "fits" \in DOMAIN tally'
    BY <1>3 DEF TallyFields
  <2>2. tally' # <<>>
    BY <2>1
  <2>3. QED
    BY <1>1, <1>3, <2>2 DEF Keeps
<1>4. CASE UNCHANGED tally
  BY <1>2, <1>3, <1>4
<1>5. CASE SolveBase \/ SolveScenario \/ SolveFailed \/ LoseDomains \/ RegainDomains
  BY <1>4, <1>5 DEF SolveBase, SolveScenario, SolveAll, SolveFailed, LoseDomains, RegainDomains, analysis
<1>6. CASE BaseSolved /\ tally' # tally
  <2> DEFINE Used_ == [i \in DOMAIN rows |->
                        IF rows[i].resource \in Range(Slots(in.topology))
                          THEN ArcFlow(SlotArc(in.topology, rows[i].resource)) ELSE 0]
  <2>1. PICK s : tally' = [tally EXCEPT !.base = total, !.deliverable = total, !.scenarios = s,
                                        !.used = Used_]
    BY <1>6 DEF BaseSolved
  <2> HIDE DEF Used_
  <2>2. DOMAIN tally' = TallyFields /\ tally'.flows = tally.flows
        /\ tally'.granularity = tally.granularity /\ tally'.fits = tally.fits
    BY <1>2, <2>1 DEF TallyFields
  <2>3. QED
    BY <1>2, <1>3, <2>2
<1>7. CASE ScenarioSolved
  <2>1. DOMAIN tally' = TallyFields /\ tally'.flows = tally.flows
        /\ tally'.granularity = tally.granularity /\ tally'.fits = tally.fits
    BY <1>2, <1>7 DEF ScenarioSolved, TallyFields
  <2>2. QED
    BY <1>2, <1>3, <2>1
<1>8. CASE Attribute /\ tally' # tally
  <2>1. PICK b, r, u : tally' = [tally EXCEPT !.breakdown = b, !.reservedStranded = r, !.budget = u]
    BY <1>8 DEF Attribute
  <2>2. DOMAIN tally' = TallyFields /\ tally'.flows = tally.flows
        /\ tally'.granularity = tally.granularity /\ tally'.fits = tally.fits
    BY <1>2, <2>1 DEF TallyFields
  <2>3. QED
    BY <1>2, <1>3, <2>2
<1>9. CASE PlaceFlow /\ tally' # tally
  <2>1. tally' = [tally EXCEPT !.quantized = @ + Wanted]
    BY <1>9 DEF PlaceFlow
  <2>2. DOMAIN tally' = TallyFields /\ tally'.flows = tally.flows
        /\ tally'.granularity = tally.granularity /\ tally'.fits = tally.fits
    BY <1>2, <2>1 DEF TallyFields
  <2>3. QED
    BY <1>2, <1>3, <2>2
<1>10. CASE FlowPlaced /\ tally' # tally
  <2>1. PICK g, b, s, f : tally' = [tally EXCEPT !.granularityLoss = g, !.budget = b, !.satisfied = s,
                                                 !.fits = Append(@, f)]
    BY <1>10 DEF FlowPlaced
  <2>2. DOMAIN tally' = TallyFields /\ tally'.flows = tally.flows
        /\ tally'.granularity = tally.granularity /\ tally'.fits = Append(tally.fits, f)
    BY <1>2, <2>1 DEF TallyFields
  <2>3. PICK S : tally.fits \in Seq(S)
    BY <1>2
  <2>4. tally.fits \in Seq(S \cup {f}) /\ f \in S \cup {f}
    <3>1. Len(tally.fits) \in Nat /\ tally.fits \in [1 .. Len(tally.fits) -> S]
      BY <2>3
    <3>2. tally.fits \in [1 .. Len(tally.fits) -> S \cup {f}]
      BY <3>1
    <3>3. QED
      BY <3>1, <3>2
  <2>5. Append(tally.fits, f) \in Seq(S \cup {f})
    BY <2>4
  <2>6. QED
    BY <1>3, <2>2, <2>5
<1>11. QED
  BY <1>4, <1>5, <1>6, <1>7, <1>8, <1>9, <1>10 DEF AnalysisStep

\* What an analysis begins with has its form.
LEMMA BeginForm ==
  ASSUME NEW shape, Begins(shape)
  PROVE  /\ tally' # <<>> /\ DOMAIN tally' = TallyFields
         /\ DOMAIN tally'.flows = 1 .. Len(tally'.flows) /\ Len(tally'.flows) \in Nat
         /\ \E S : tally'.fits \in Seq(S)
<1>1. PICK resilience, single : tally' = FreshTally(Ordered(shape), shape, resilience, single)
  BY DEF Begins
<1>2. DOMAIN tally' = TallyFields /\ tally'.flows = Ordered(shape) /\ tally'.fits = <<>>
  BY <1>1 DEF FreshTally, TallyFields
<1>3. Len(shape.flows) \in Nat /\ DOMAIN shape.flows = 1 .. Len(shape.flows)
  BY ListProperty DEF Begins
<1>4. \E f : Ordered(shape) = [k \in 1 .. Len(shape.flows) |-> f[k]]
  BY <1>3, OrderedIsList
<1>5. Len(Ordered(shape)) \in Nat /\ DOMAIN Ordered(shape) = 1 .. Len(Ordered(shape))
  BY <1>3, <1>4
<1>6. tally' # <<>>
  <2>1. "fits" \in DOMAIN tally'
    BY <1>2 DEF TallyFields
  <2>2. QED
    BY <2>1
<1>7. <<>> \in Seq({})
  OBVIOUS
<1>8. QED
  BY <1>2, <1>5, <1>6, <1>7

\* Every step keeps the form of the evaluation.
LEMMA FormStep ==
  ASSUME PredictionInv, FormInv, [Next]_evaluation
  PROVE  FormInv'
<1>1. CASE Validate \/ Account \/ Analyse \/ Query \/ Predict \/ Analysed \/ Close
  <2>1. CASE \E shape : Begins(shape)
    <3>1. PICK shape : Begins(shape)
      BY <2>1
    <3>2. at' = "base" /\ solver' = "idle" /\ in' = in /\ in.kind # "predict"
      BY <3>1 DEF Begins
    <3>3. in.kind \in {"fit", "evaluate"}
      BY <3>2, ProblemsAssumption DEF PredictionInv
    <3>4. QED
      BY <3>1, <3>2, <3>3, BeginForm DEF FormInv, Phases
  <2>2. CASE ~ \E shape : Begins(shape)
    <3>1. Outside
      BY <1>1, <2>2, OuterSteps
    <3>2. UNCHANGED solver
      BY <3>1 DEF flowVars, Outside
    <3>3. QED
      BY <3>1, <3>2 DEF FormInv, Outside
  <2>3. QED
    BY <2>1, <2>2
<1>2. CASE AnalysisStep
  <2>1. Keeps
    BY <1>2, AnalysisKeeps
  <2>2. /\ at' \in {"base", "scenarios", "lost", "regain", "place", "placing", "done"}
        /\ at' \notin {"base", "lost", "placing"} => solver' = "idle"
    <3>1. CASE SolveBase \/ SolveScenario
      BY <3>1 DEF SolveBase, SolveScenario, SolveAll, analysis
    <3>2. CASE SolveFailed \/ BaseSolved \/ ScenarioSolved \/ FlowPlaced
      BY <3>2 DEF SolveFailed, BaseSolved, ScenarioSolved, FlowPlaced, Answered, Fail
    <3>3. CASE LoseDomains \/ RegainDomains \/ Attribute \/ PlaceFlow
      BY <3>3 DEF LoseDomains, RegainDomains, Attribute, PlaceFlow, Reset, Raise, Fail, FormInv, flowVars
    <3>4. QED
      BY <1>2, <3>1, <3>2, <3>3 DEF AnalysisStep
  <2>3. in.kind \in {"fit", "evaluate"}
    BY <1>2 DEF AnalysisStep, SolveBase, SolveScenario, SolveAll, SolveFailed, BaseSolved, LoseDomains,
           ScenarioSolved, RegainDomains, Attribute, PlaceFlow, FlowPlaced, FormInv
  <2>4. QED
    BY <2>1, <2>2, <2>3 DEF Keeps, FormInv, Phases
<1>3. CASE Solving
  <2>1. UNCHANGED <<in, at, tally>> /\ solver # "idle"
    BY <1>3 DEF Solving, analysis, Step, Scan, Levelled, Advance, Retreat, Augment, LimitReached, Finish
  <2>2. QED
    BY <2>1 DEF FormInv
<1>4. CASE Cancelling \/ UNCHANGED evaluation
  <2>1. UNCHANGED <<in, at, tally, solver>>
    BY <1>4 DEF Cancelling, Cancel, evaluation, flowVars, analysis
  <2>2. QED
    BY <2>1 DEF FormInv
<1>5. QED
  BY <1>1, <1>2, <1>3, <1>4 DEF Next, Evaluate

\* An evaluation starts in form.
LEMMA FormInit == Init => FormInv
BY DEF Init, FlowInit, FormInv, Phases

-----------------------------------------------------------------------------
(* Conservation in an evaluation *)

\* Where the flows of an analysis begin and end.
SuperEnds == {SuperSource, SuperSink}
FlowEnds == {Out_(v) : v \in Sources} \cup {In(v) : v \in Sinks}

\* Of whatever is in the network, what enters a node leaves it, except at the
\* ends of the last call.
ConservedInv ==
  tally # <<>> =>
    /\ IF call.source = SuperSource THEN Off(SuperEnds) ELSE Off(FlowEnds)
    /\ at \in {"base", "lost"} /\ solver = "idle" => flow = NoFlow(net)
    /\ at \in {"base", "lost"} /\ solver # "idle" =>
         /\ call.source = SuperSource /\ call.sink = SuperSink
         /\ Leaving(SuperSource) = total
    /\ at \in {"place", "placing"} => Off(FlowEnds)
    /\ at = "placing" => call.source \in FlowEnds /\ call.sink \in FlowEnds

\* The source of all flows is not where one of them ends.
LEMMA EndsDiffer == SuperSource \notin FlowEnds /\ SuperSource # SuperSink
BY DEF FlowEnds, SuperSource, SuperSink, Out_, In

\* What a flow asks for is one of the shape's.
LEMMA PlacingProperty ==
  ASSUME FormInv, tally # <<>>, Len(tally.fits) < Len(tally.flows)
  PROVE  /\ Len(tally.fits) + 1 \in DOMAIN tally.flows
         /\ Out_(Placing.source) \in FlowEnds /\ In(Placing.sink) \in FlowEnds
<1>1. Len(tally.fits) \in Nat
  BY DEF FormInv
<1>2. Len(tally.fits) + 1 \in DOMAIN tally.flows
  BY <1>1 DEF FormInv
<1>3. QED
  BY <1>2 DEF Placing, FlowEnds, Sources, Sinks

\* What only the flow, the network and the ends of the analysis decide.
LEMMA OffSame ==
  ASSUME UNCHANGED <<net, flow>>
  PROVE  /\ \A ends : Off(ends)' <=> Off(ends)
         /\ \A v : Leaving(v)' = Leaving(v)
         /\ tally' # <<>> /\ tally # <<>> /\ tally'.flows = tally.flows => FlowEnds' = FlowEnds
BY DEF Off, Leaving, Out, FlowEnds, Sources, Sinks

\* With nothing in the network everything is conserved.
LEMMA StillConserves ==
  ASSUME SolverInv', flow' = NoFlow(net')
  PROVE  Off(SuperEnds)' /\ Off(FlowEnds)' /\ \A v : Leaving(v)' = 0
<1>1. \A v : Leaving(v)' = 0
  BY StillNext
<1>2. QED
  BY <1>1 DEF Off

\* Steps of the analysis, which end calls, begin them and reset flows,
\* conserve what is in the network.
LEMMA AnalysisConserves ==
  ASSUME SolverInv, SolverInv', FormInv, ConservedInv, AnalysisStep
  PROVE  ConservedInv'
<1>1. Keeps
  BY AnalysisKeeps
<1>2. tally # <<>> /\ tally' # <<>> /\ FlowEnds' = FlowEnds /\ UNCHANGED in
  BY <1>1 DEF Keeps, FlowEnds, Sources, Sinks
<1>3. CASE SolveBase \/ SolveScenario
  <2>1. /\ at \in {"base", "lost"} /\ UNCHANGED <<net, flow, at>> /\ solver = "idle"
        /\ call'.source = SuperSource /\ call'.sink = SuperSink /\ total' = 0
        /\ solver' # "idle"
    BY <1>3 DEF SolveBase, SolveScenario, SolveAll, Solve, analysis
  <2>2. flow' = NoFlow(net')
    BY <1>2, <2>1 DEF ConservedInv
  <2>3. Off(SuperEnds)' /\ \A v : Leaving(v)' = 0
    BY <2>2, StillConserves
  <2>4. Leaving(SuperSource)' = 0
    BY <2>3
  <2>5. QED
    BY <2>1, <2>3, <2>4 DEF ConservedInv
<1>4. CASE SolveFailed
  <2>1. UNCHANGED <<net, flow, call>> /\ at' = "done"
    BY <1>4 DEF SolveFailed, Answered, Fail
  <2>2. QED
    BY <1>2, <2>1, OffSame DEF ConservedInv, SuperEnds
<1>5. CASE BaseSolved \/ ScenarioSolved \/ RegainDomains
  <2>1. UNCHANGED <<net, flow, call>> /\ at' \in {"done", "scenarios", "regain"}
    BY <1>5 DEF BaseSolved, ScenarioSolved, RegainDomains, Raise, Answered, Fail
  <2>2. QED
    BY <1>2, <2>1, OffSame DEF ConservedInv, SuperEnds
<1>6. CASE LoseDomains \/ Attribute
  <2>1. CASE UNCHANGED flowVars /\ at' = "done"
    <3>1. UNCHANGED <<net, flow, call>>
      BY <2>1 DEF flowVars
    <3>2. QED
      BY <1>2, <2>1, <3>1, OffSame DEF ConservedInv, SuperEnds
  <2>2. CASE \E c : Reset(c) /\ at' \in {"lost", "place"}
    <3>1. UNCHANGED <<net, solver>> /\ flow' = NoFlow(net') /\ solver = "idle"
          /\ at' \in {"lost", "place"}
      BY <2>2 DEF Reset
    <3>2. Off(SuperEnds)' /\ Off(FlowEnds)'
      BY <3>1, StillConserves
    <3>3. QED
      BY <3>1, <3>2 DEF ConservedInv
  <2>3. QED
    BY <1>6, <2>1, <2>2 DEF LoseDomains, Attribute, Fail
<1>7. CASE PlaceFlow
  <2>1. CASE UNCHANGED flowVars /\ at' = "done"
    <3>1. UNCHANGED <<net, flow, call>>
      BY <2>1 DEF flowVars
    <3>2. QED
      BY <1>2, <2>1, <3>1, OffSame DEF ConservedInv, SuperEnds
  <2>2. CASE ~ (UNCHANGED flowVars /\ at' = "done")
    <3>1. /\ Len(tally.fits) < Len(tally.flows) /\ at = "place" /\ at' = "placing"
          /\ \E limit : Solve(Out_(Placing.source), In(Placing.sink), limit, in.limits.work)
      BY <1>7, <2>2 DEF PlaceFlow, Fail
    <3>2. /\ UNCHANGED <<net, flow>> /\ call'.source = Out_(Placing.source)
          /\ call'.sink = In(Placing.sink)
      BY <3>1 DEF Solve
    <3>3. call'.source \in FlowEnds' /\ call'.sink \in FlowEnds' /\ call'.source # SuperSource
      BY <1>2, <3>1, <3>2, PlacingProperty, EndsDiffer
    <3>4. Off(FlowEnds)'
      BY <1>2, <3>1, <3>2, OffSame DEF ConservedInv
    <3>5. QED
      BY <3>1, <3>3, <3>4 DEF ConservedInv
  <2>3. QED
    BY <2>1, <2>2
<1>8. CASE FlowPlaced
  <2>1. UNCHANGED <<net, flow, call>> /\ at = "placing" /\ at' \in {"done", "place"}
    BY <1>8 DEF FlowPlaced, Answered, Fail
  <2>2. QED
    BY <1>2, <2>1, OffSame DEF ConservedInv, SuperEnds
<1>9. QED
  BY <1>3, <1>4, <1>5, <1>6, <1>7, <1>8 DEF AnalysisStep

\* Every step conserves what is in the network.
LEMMA ConservedStep ==
  ASSUME PredictionInv, SolverInv, SolverInv', Connected, FormInv, ConservedInv, [Next]_evaluation
  PROVE  ConservedInv'
<1>1. CASE Validate \/ Account \/ Analyse \/ Query \/ Predict \/ Analysed \/ Close
  <2>1. CASE \E shape : Begins(shape)
    <3>1. PICK shape : Begins(shape)
      BY <2>1
    <3>2. at' = "base" /\ solver' = "idle" /\ flow' = NoFlow(net')
      BY <3>1 DEF Begins
    <3>3. Off(SuperEnds)' /\ Off(FlowEnds)'
      BY <3>2, StillConserves
    <3>4. QED
      BY <3>2, <3>3 DEF ConservedInv
  <2>2. CASE ~ \E shape : Begins(shape)
    <3>1. UNCHANGED <<tally, flowVars>> /\ at' \notin {"base", "lost", "place", "placing"}
      BY <1>1, <2>2, OuterSteps DEF Outside
    <3>2. UNCHANGED <<net, flow, call, FlowEnds>>
      BY <3>1 DEF flowVars, FlowEnds, Sources, Sinks
    <3>3. QED
      BY <3>1, <3>2, OffSame DEF ConservedInv, SuperEnds
  <2>3. QED
    BY <2>1, <2>2
<1>2. CASE AnalysisStep
  BY <1>2, AnalysisConserves
<1>3. CASE Solving /\ tally # <<>>
  <2>1. Step /\ UNCHANGED <<at, tally>> /\ solver # "idle"
    BY <1>3 DEF Solving, analysis, Step, Scan, Levelled, Advance, Retreat, Augment, LimitReached, Finish
  <2>2. UNCHANGED <<net, call, FlowEnds>>
    BY <2>1, StepConserves DEF FlowEnds, Sources, Sinks
  <2>3. at \in {"base", "lost", "placing"}
    BY <2>1 DEF FormInv
  <2>4. CASE at \in {"base", "lost"}
    <3>1. call.source = SuperSource /\ call.sink = SuperSink /\ Leaving(SuperSource) = total
          /\ Off(SuperEnds)
      BY <1>3, <2>1, <2>4 DEF ConservedInv
    <3>2. Off(SuperEnds)' /\ Leaving(call.source)' = total'
      BY <2>1, <3>1, StepConserves DEF SuperEnds
    <3>3. Leaving(SuperSource)' = total'
      BY <2>2, <3>1, <3>2 DEF Leaving, Out
    <3>4. at' # "placing" /\ at' # "place" /\ solver' # "idle"
      BY <2>1, <2>4 DEF Step, Scan, Levelled, Advance, Retreat, Augment, LimitReached, Finish, Charge
    <3>5. QED
      BY <2>1, <2>2, <3>1, <3>2, <3>3, <3>4 DEF ConservedInv
  <2>5. CASE at = "placing"
    <3>1. call.source \in FlowEnds /\ call.sink \in FlowEnds /\ Off(FlowEnds)
          /\ call.source # SuperSource
      BY <1>3, <2>5, EndsDiffer DEF ConservedInv
    <3>2. Off(FlowEnds)'
      <4> DEFINE E == FlowEnds
      <4>1. E' = E /\ Off(E) /\ call.source \in E /\ call.sink \in E
        BY <2>2, <3>1
      <4> HIDE DEF E
      <4>2. \A ends : call.source \in ends /\ call.sink \in ends /\ Off(ends) => Off(ends)'
        BY <2>1, StepConserves
      <4>3. \A v \in net'.nodes \ E : Leaving(v)' = 0
        BY <4>1, <4>2 DEF Off
      <4>4. \A v \in net'.nodes \ E' : Leaving(v)' = 0
        BY <4>1, <4>3
      <4>5. QED
        BY <4>4 DEF Off, E
    <3>3. QED
      BY <2>1, <2>2, <2>5, <3>1, <3>2 DEF ConservedInv
  <2>6. QED
    BY <2>3, <2>4, <2>5
<1>4. CASE Solving /\ tally = <<>>
  BY <1>4 DEF Solving, analysis, ConservedInv
<1>5. CASE Cancelling \/ UNCHANGED evaluation
  <2>1. UNCHANGED <<net, flow, call, at, tally, solver, total>>
    BY <1>5 DEF Cancelling, Cancel, evaluation, flowVars, analysis
  <2>2. FlowEnds' = FlowEnds
    BY <2>1 DEF FlowEnds, Sources, Sinks
  <2>3. NoFlow(net)' = NoFlow(net)
    BY <2>1
  <2>4. Leaving(SuperSource)' = Leaving(SuperSource)
    BY <2>1, OffSame
  <2>5. QED
    BY <2>1, <2>2, <2>3, <2>4, OffSame DEF ConservedInv, SuperEnds
<1>6. QED
  BY <1>1, <1>2, <1>3, <1>4, <1>5 DEF Next, Evaluate

\* What an evaluation keeps whatever its answer: its problem, its form, and
\* what the solver keeps.
EvaluationInv == PredictionInv /\ SolverInv /\ Connected /\ FormInv

\* Every reachable evaluation has the form above, a problem of those
\* considered, and a solver that keeps its invariant (evaluate() and the
\* solver it drives).
THEOREM EvaluationInvariant == Spec => []EvaluationInv
<1>1. Init => PredictionInv /\ Connected /\ FormInv
  BY FormInit DEF Init, FlowInit, PredictionInv, Connected
<1>2. PredictionInv /\ [Next]_evaluation => PredictionInv'
  BY PredictionStep
<1>3. PredictionInv /\ FormInv /\ [Next]_evaluation => FormInv'
  BY FormStep
<1>4. SolverInv /\ Connected /\ [FlowNext]_flowVars => Connected'
  BY ConnectedStep
<1>5. Spec => []SolverInv /\ [][FlowNext]_flowVars
  BY EvaluationImplementsFlow, SolverInvariant, PTL DEF SolverProtocol
<1>6. QED
  BY <1>1, <1>2, <1>3, <1>4, <1>5, PTL DEF Spec, EvaluationInv

\* In every reachable evaluation what is in the network is conserved, except at
\* the ends of the last call (flow.cpp's augmentation, over one network).
THEOREM ConservedInvariant == Spec => []ConservedInv
<1>1. Init => ConservedInv
  BY DEF Init, ConservedInv
<1>2. EvaluationInv /\ EvaluationInv' /\ ConservedInv /\ [Next]_evaluation => ConservedInv'
  BY ConservedStep DEF EvaluationInv
<1>3. QED
  BY <1>1, <1>2, EvaluationInvariant, PTL DEF Spec

\* While a solve runs and between the solves of an analysis, what enters a
\* node leaves it, and what a call counts has left its source.
THEOREM FlowsAreConserved == Spec => []FlowConserved
<1>1. EvaluationInv /\ ConservedInv => FlowConserved
  <2>1. SUFFICES ASSUME EvaluationInv, ConservedInv, tally # <<>> PROVE FlowConserved
    BY DEF FlowConserved, Analysing
  <2>2. IF call.source = SuperSource THEN Off(SuperEnds) ELSE Off(FlowEnds)
    BY <2>1 DEF ConservedInv
  <2>3. at \in {"base", "lost"} /\ solver # "idle" => Leaving(SuperSource) = total
    BY <2>1 DEF ConservedInv
  <2>4. QED
    BY <2>2, <2>3 DEF FlowConserved, Off, SuperEnds, FlowEnds
<1>2. QED
  BY <1>1, EvaluationInvariant, ConservedInvariant, PTL

-----------------------------------------------------------------------------
(* Sorting *)

\* What is sorted are the members of what it was, each in a place of its own.
Rearranged(s, seq, p) ==
  /\ p \in [DOMAIN seq -> DOMAIN seq]
  /\ \A i, j \in DOMAIN seq : p[i] = p[j] => i = j
  /\ \A i \in DOMAIN seq : \E k \in DOMAIN seq : p[k] = i
  /\ s = [k \in DOMAIN seq |-> seq[p[k]]]

Places_(p, D, R) ==
  /\ DOMAIN p = D /\ p = [k \in D |-> p[k]]
  /\ \A k \in D : (\E i \in D : RankAmong(D, R, i) = k - 1)
                  => p[k] \in D /\ RankAmong(D, R, p[k]) = k - 1

\* A list that is laid out by the ranks of its members is rearranged.
LEMMA Sorting ==
  ASSUME NEW seq, IsList(seq), NEW R, TotalOrder(DOMAIN seq, R),
         NEW p, Places_(p, DOMAIN seq, R)
  PROVE  Rearranged([k \in DOMAIN seq |-> seq[p[k]]], seq, p)
<1> DEFINE D == DOMAIN seq
           Rank(i) == RankAmong(D, R, i)
<1>1. PICK n \in Nat : n = Len(seq)
  BY ListProperty
<1>2. D = 1 .. n /\ IsFiniteSet(D) /\ Cardinality(D) = n
  <2>1. D = 1 .. n
    BY <1>1, ListProperty
  <2>2. IsFiniteSet(1 .. n) /\ Cardinality(1 .. n) = n
    <3>1. 1 \in Int /\ n \in Int /\ n \in Nat
      BY <1>1
    <3>2. IsFiniteSet(1 .. n) /\ Cardinality(1 .. n) = IF 1 > n THEN 0 ELSE n - 1 + 1
      BY <3>1, FS_Interval
    <3>3. QED
      BY <3>1, <3>2
  <2>3. QED
    BY <2>1, <2>2
<1>3. /\ \A i \in D : Rank(i) \in 0 .. n - 1
      /\ \A i, k \in D : Rank(i) = Rank(k) => i = k
      /\ \A m \in 0 .. n - 1 : \E i \in D : Rank(i) = m
  <2>1. Ranks(D, R)
    BY <1>2, Ranking
  <2>2. QED
    BY <1>2, <2>1 DEF Ranks
<1>4. \A k \in D : (\E i \in D : Rank(i) = k - 1) => p[k] \in D /\ Rank(p[k]) = k - 1
  BY DEF Places_
<1> HIDE DEF Rank
<1>5. \A k \in D : p[k] \in D /\ Rank(p[k]) = k - 1
  <2>1. TAKE k \in D
  <2>2. k - 1 \in 0 .. n - 1
    BY <1>1, <1>2
  <2>3. QED
    BY <1>3, <1>4, <2>2
<1>6. p \in [D -> D]
  BY <1>5 DEF Places_
<1>7. \A i, j \in D : p[i] = p[j] => i = j
  <2>1. TAKE i, j \in D
  <2>2. i \in Int /\ j \in Int
    BY <1>1, <1>2
  <2>3. Rank(p[i]) = i - 1 /\ Rank(p[j]) = j - 1
    BY <1>5
  <2>4. QED
    BY <2>2, <2>3
<1>8. \A i \in D : \E k \in D : p[k] = i
  <2>1. TAKE i \in D
  <2>2. Rank(i) \in 0 .. n - 1
    BY <1>3
  <2>3. Rank(i) + 1 \in D
    BY <1>1, <1>2, <2>2
  <2>4. p[Rank(i) + 1] \in D /\ Rank(p[Rank(i) + 1]) = Rank(i)
    BY <1>1, <1>5, <2>2, <2>3
  <2>5. QED
    BY <1>3, <2>3, <2>4
<1>9. QED
  BY <1>6, <1>7, <1>8 DEF Rearranged

\* The resources in the order of their identities.
LEMMA SortedResources ==
  ASSUME NEW seq, IsList(seq), Distinct(Identities(seq)), Orders(Range(Identities(seq)))
  PROVE  \E p : Rearranged(SortedBy(seq, LAMBDA a, b : Before(a.id, b.id)), seq, p)
<1> DEFINE R == {d \in (DOMAIN seq) \X (DOMAIN seq) : Before(seq[d[1]].id, seq[d[2]].id)}
           s == SortedBy(seq, LAMBDA a, b : Before(a.id, b.id))
<1>1. \A i, j \in DOMAIN seq : <<i, j>> \in R <=> Before(seq[i].id, seq[j].id)
  OBVIOUS
<1>2. \A i, j \in DOMAIN seq : seq[i].id = seq[j].id => i = j
  BY DEF Distinct, Identities, Field
<1>3. \A i \in DOMAIN seq : seq[i].id \in Range(Identities(seq))
  BY DEF Range, Identities, Field
<1> DEFINE Ids == Range(Identities(seq))
<1>4. /\ \A x \in Ids : ~ Before(x, x)
      /\ \A x, y \in Ids : x # y => Before(x, y) \/ Before(y, x)
      /\ \A x, y, z \in Ids : Before(x, y) /\ Before(y, z) => Before(x, z)
  BY DEF Orders
<1> HIDE DEF Ids
<1>5. TotalOrder(DOMAIN seq, R)
  BY <1>1, <1>2, <1>3, <1>4 DEF Ids, TotalOrder
<1> DEFINE Ahead(i) == Cardinality({j \in DOMAIN seq : Before(seq[j].id, seq[i].id)})
           p == [k \in DOMAIN seq |-> CHOOSE i \in DOMAIN seq : Ahead(i) = k - 1]
<1>6. s = [k \in DOMAIN seq |-> seq[p[k]]]
  BY DEF SortedBy, RankIn
<1>7. \A i \in DOMAIN seq : Ahead(i) = RankAmong(DOMAIN seq, R, i)
  <2>1. \A i \in DOMAIN seq : {j \in DOMAIN seq : Before(seq[j].id, seq[i].id)}
                                = {j \in DOMAIN seq : <<j, i>> \in R}
    BY <1>1
  <2>2. QED
    BY <2>1 DEF RankAmong
<1> HIDE DEF Ahead
<1>8. \A k \in DOMAIN seq : (\E i \in DOMAIN seq : Ahead(i) = k - 1)
                              => p[k] \in DOMAIN seq /\ Ahead(p[k]) = k - 1
  <2>1. TAKE k \in DOMAIN seq
  <2>2. p[k] = CHOOSE i \in DOMAIN seq : Ahead(i) = k - 1
    OBVIOUS
  <2> HIDE DEF p
  <2>3. QED
    BY <2>2
<1>9. DOMAIN p = DOMAIN seq /\ p = [k \in DOMAIN p |-> p[k]]
  OBVIOUS
<1> HIDE DEF R, s, p
<1>10. Places_(p, DOMAIN seq, R)
  BY <1>7, <1>8, <1>9 DEF Places_
<1>11. Rearranged([k \in DOMAIN seq |-> seq[p[k]]], seq, p)
  BY <1>5, <1>10, Sorting
<1>12. QED
  BY <1>6, <1>11 DEF s

\* The flows of a shape in the order of their priorities.
LEMMA SortedFlows ==
  ASSUME NEW shape, IsList(shape.flows), Distinct(Identities(shape.flows)),
         Orders(Range(Identities(shape.flows))),
         \A i \in DOMAIN shape.flows : shape.flows[i].priority \in Nat
  PROVE  \E p : Rearranged(Ordered(shape), shape.flows, p)
<1> DEFINE seq == shape.flows
           First(a, b) == \/ a.priority < b.priority
                          \/ a.priority = b.priority /\ Before(a.id, b.id)
           R == {d \in (DOMAIN seq) \X (DOMAIN seq) : First(seq[d[1]], seq[d[2]])}
           Ids == Range(Identities(seq))
<1>1. \A i, j \in DOMAIN seq : <<i, j>> \in R <=> First(seq[i], seq[j])
  OBVIOUS
<1>2. \A i, j \in DOMAIN seq : seq[i].id = seq[j].id => i = j
  BY DEF Distinct, Identities, Field
<1>3. \A i \in DOMAIN seq : seq[i].id \in Ids
  BY DEF Range, Identities, Field
<1>4. /\ \A x \in Ids : ~ Before(x, x)
      /\ \A x, y \in Ids : x # y => Before(x, y) \/ Before(y, x)
      /\ \A x, y, z \in Ids : Before(x, y) /\ Before(y, z) => Before(x, z)
  BY DEF Orders
<1>5. TotalOrder(DOMAIN seq, R)
  <2> HIDE DEF Ids, R
  <2>1. \A i \in DOMAIN seq : <<i, i>> \notin R
    BY <1>1, <1>3, <1>4
  <2>2. \A i, j \in DOMAIN seq : i # j => <<i, j>> \in R \/ <<j, i>> \in R
    <3>1. TAKE i, j \in DOMAIN seq
    <3>2. seq[i].priority \in Nat /\ seq[j].priority \in Nat
      OBVIOUS
    <3>3. i # j => Before(seq[i].id, seq[j].id) \/ Before(seq[j].id, seq[i].id)
      BY <1>2, <1>3, <1>4
    <3>4. QED
      BY <1>1, <3>2, <3>3
  <2>3. \A i, j, k \in DOMAIN seq : <<i, j>> \in R /\ <<j, k>> \in R => <<i, k>> \in R
    <3>1. TAKE i, j, k \in DOMAIN seq
    <3>2. seq[i].priority \in Nat /\ seq[j].priority \in Nat /\ seq[k].priority \in Nat
      OBVIOUS
    <3>3. Before(seq[i].id, seq[j].id) /\ Before(seq[j].id, seq[k].id) => Before(seq[i].id, seq[k].id)
      BY <1>3, <1>4
    <3>4. QED
      BY <1>1, <3>2, <3>3
  <2>4. QED
    BY <2>1, <2>2, <2>3 DEF TotalOrder
<1> DEFINE Ahead(i) == Cardinality({j \in DOMAIN seq : First(seq[j], seq[i])})
           p == [k \in DOMAIN seq |-> CHOOSE i \in DOMAIN seq : Ahead(i) = k - 1]
<1>6. Ordered(shape) = [k \in DOMAIN seq |-> seq[p[k]]]
  BY DEF Ordered, SortedBy, RankIn
<1> HIDE DEF First
<1>7. \A i \in DOMAIN seq : Ahead(i) = RankAmong(DOMAIN seq, R, i)
  <2>1. \A i \in DOMAIN seq : {j \in DOMAIN seq : First(seq[j], seq[i])}
                                = {j \in DOMAIN seq : <<j, i>> \in R}
    BY <1>1
  <2>2. QED
    BY <2>1 DEF RankAmong
<1> HIDE DEF Ahead
<1>8. \A k \in DOMAIN seq : (\E i \in DOMAIN seq : Ahead(i) = k - 1)
                              => p[k] \in DOMAIN seq /\ Ahead(p[k]) = k - 1
  <2>1. TAKE k \in DOMAIN seq
  <2>2. p[k] = CHOOSE i \in DOMAIN seq : Ahead(i) = k - 1
    OBVIOUS
  <2> HIDE DEF p
  <2>3. QED
    BY <2>2
<1>9. DOMAIN p = DOMAIN seq /\ p = [k \in DOMAIN seq |-> p[k]]
  OBVIOUS
<1> HIDE DEF R, p
<1>10. Places_(p, DOMAIN seq, R)
  BY <1>7, <1>8, <1>9 DEF Places_
<1>11. Rearranged([k \in DOMAIN seq |-> seq[p[k]]], seq, p)
  BY <1>5, <1>10, Sorting
<1>12. QED
  BY <1>6, <1>11

-----------------------------------------------------------------------------
(* Checked sums *)

\* What is added up checked, when the sum fits, is the sum.
LEMMA AccumulatedIsSum ==
  ASSUME NEW terms, NEW n \in Nat, terms \in [1 .. n -> Nat]
  PROVE  /\ SumFunction(terms) = SumFunctionOnSet(terms, 1 .. n)
         /\ SumFunction(terms) \in Nat
         /\ Accumulated(terms) \in Nat
         /\ Fits(terms) => Accumulated(terms) = SumFunction(terms)
<1> DEFINE D == DOMAIN terms
           Next_(sum, term) == IF AddFits(sum, term) THEN sum + term ELSE sum
           F == [c \in D \X Nat |-> Next_(c[2], terms[c[1]])]
           p == [T \in SUBSET D |-> Max(T)]
           S(T) == SumFunctionOnSet(terms, T)
<1>1. D = 1 .. n /\ IsFiniteSet(D) /\ \A x \in D : terms[x] \in Nat
  <2>1. 1 \in Int /\ n \in Int
    OBVIOUS
  <2>2. IsFiniteSet(1 .. n)
    BY <2>1, FS_Interval
  <2>3. QED
    BY <2>2
<1>2. SumFunction(terms) = S(D)
  BY DEF SumFunction
<1>3. \A T \in SUBSET D : T # {} => Max(T) \in T
  <2>1. n \in Int
    OBVIOUS
  <2>2. QED
    BY <1>1, <2>1, LastOf
<1>4. 0 \in Nat /\ F \in [D \X Nat -> Nat]
  BY <1>1
<1> HIDE DEF D, Next_
<1>5. PICK g : Folds_(g, D, Nat, 0, F, p)
  <2>1. \A T \in SUBSET D : T # {} => p[T] \in T
    BY <1>3
  <2> HIDE DEF F, p
  <2>2. QED
    BY <1>1, <1>4, <2>1, FoldExists
<1> DEFINE Level_(h, T) == IF T = {} THEN 0 ELSE Next_(h[T \ {Max(T)}], terms[Max(T)])
           Fold(h) == h = [T \in SUBSET D |-> Level_(h, T)]
<1>6. g \in [SUBSET D -> Nat]
  BY <1>5 DEF Folds_
<1>7. \A T \in SUBSET D : g[T] = Level_(g, T)
  <2>1. TAKE T \in SUBSET D
  <2>2. g[T] = IF T = {} THEN 0 ELSE F[<<p[T], g[T \ {p[T]}]>>]
    BY <1>5 DEF Folds_
  <2>3. CASE T = {}
    BY <2>2, <2>3
  <2>4. CASE T # {}
    <3>1. Max(T) \in D /\ p[T] = Max(T) /\ g[T \ {Max(T)}] \in Nat
      BY <1>3, <1>6, <2>4
    <3>2. F[<<Max(T), g[T \ {Max(T)}]>>] = Next_(g[T \ {Max(T)}], terms[Max(T)])
      BY <3>1
    <3>3. QED
      BY <2>2, <2>4, <3>1, <3>2
  <2>5. QED
    BY <2>3, <2>4
<1>8. Fold(g)
  BY <1>6, <1>7
<1>9. Fold(CHOOSE h : Fold(h))
  BY <1>8
<1>10. PICK h : Fold(h) /\ Accumulated(terms) = h[D]
  <2>1. Accumulated(terms) = (CHOOSE h : Fold(h))[D]
    BY DEF Accumulated, FoldLeft, MapThenFoldSet, Next_, D
  <2>2. QED
    BY <1>9, <2>1
<1>11. \A T \in SUBSET D : h[T] = Level_(h, T)
  BY <1>10
<1>12. /\ S({}) = 0
       /\ \A T \in SUBSET D : S(T) \in Int /\ \A x \in T : S(T) = terms[x] + S(T \ {x})
  <2>1. \A x \in D : terms[x] \in Int
    BY <1>1
  <2>2. /\ SumFunctionOnSet(terms, {}) = 0
        /\ \A T \in SUBSET D :
             /\ SumFunctionOnSet(terms, T) \in Int
             /\ \A x \in T : SumFunctionOnSet(terms, T) = terms[x] + SumFunctionOnSet(terms, T \ {x})
    <3> HIDE DEF S, F, p, Fold, Level_
    <3>1. IsFiniteSet(D)
      BY <1>1
    <3>2. SumFunctionOnSet(terms, {}) = 0
      BY <2>1, <3>1, SumPicks
    <3>3. \A T \in SUBSET D :
             /\ SumFunctionOnSet(terms, T) \in Int
             /\ \A x \in T : SumFunctionOnSet(terms, T) = terms[x] + SumFunctionOnSet(terms, T \ {x})
      <4> HIDE DEF D
      <4>1. PICK E, f : E = D /\ f = terms
        OBVIOUS
      <4>2. IsFiniteSet(E) /\ \A x \in E : f[x] \in Int
        BY <2>1, <3>1, <4>1
      <4>3. \A T \in SUBSET E :
               /\ SumFunctionOnSet(f, T) \in Int
               /\ \A x \in T : SumFunctionOnSet(f, T) = f[x] + SumFunctionOnSet(f, T \ {x})
        BY <4>2, SumPicks
      <4>4. QED
        BY <4>1, <4>3
    <3>4. QED
      BY <3>2, <3>3
  <2>3. QED
    BY <2>2
<1> DEFINE P == {T \in SUBSET D : S(T) \in Nat /\ h[T] \in Nat /\ (S(T) <= U64Max => h[T] = S(T))}
<1> HIDE DEF S
<1>13. ASSUME NEW T \in SUBSET D, \A U \in SUBSET T : U # T => U \in P
       PROVE  T \in P
  <2>1. CASE T = {}
    <3>1. h[T] = 0 /\ S(T) = 0
      BY <1>11, <1>12, <2>1
    <3>2. QED
      BY <3>1
  <2>2. CASE T # {}
    <3>1. PICK m \in T : m = Max(T)
      BY <1>3, <2>2
    <3>2. PICK U \in SUBSET D : U = T \ {m}
      OBVIOUS
    <3>3. S(T) = terms[m] + S(U) /\ h[T] = Next_(h[U], terms[m]) /\ terms[m] \in Nat
      BY <1>1, <1>11, <1>12, <2>2, <3>1, <3>2
    <3>4. S(U) \in Nat /\ h[U] \in Nat /\ (S(U) <= U64Max => h[U] = S(U))
      BY <1>13, <3>1, <3>2
    <3>5. S(T) \in Nat /\ h[T] \in Nat /\ (S(T) <= U64Max => h[T] = S(T))
      BY <3>3, <3>4, CheckedAssumption DEF Next_, AddFits
    <3>6. QED
      BY <3>5
  <2>3. QED
    BY <2>1, <2>2
<1>14. D \in P
  <2>1. P \in SUBSET SUBSET D
    OBVIOUS
  <2> HIDE DEF P
  <2>2. P = SUBSET D
    BY <1>1, <1>13, <2>1, EverySubset
  <2>3. QED
    BY <2>2
<1>15. S(D) \in Nat /\ h[D] \in Nat /\ (S(D) <= U64Max => h[D] = S(D))
  BY <1>14
<1>16. S(D) = SumFunctionOnSet(terms, 1 .. n)
  BY <1>1 DEF S
<1>17. QED
  BY <1>2, <1>10, <1>15, <1>16 DEF Fits

-----------------------------------------------------------------------------
(* Rows *)

\* A fraction of units is a number of units.
LEMMA ScaleProperty ==
  ASSUME NEW value \in Nat, NEW ppm \in Nat
  PROVE  Scale(value, ppm) \in Nat
BY MulDivProperty, CheckedAssumption DEF Scale

SumsUp(terms, a, T) ==
  /\ SumFunction(terms) = SumFunctionOnSet(a, T)
  /\ SumFunction(terms) \in Nat /\ Accumulated(terms) \in Nat
  /\ Fits(terms) => Accumulated(terms) = SumFunction(terms)
OnIt(records, resource) == {i \in DOMAIN records : records[i].resource = resource}
Lay(records, resource, a) ==
  [i \in DOMAIN records |-> IF records[i].resource = resource THEN a[i] ELSE 0]

\* What is laid on a resource, record by record.
LEMMA LaidProperty ==
  ASSUME NEW records, IsList(records), NEW resource, NEW a,
         \A i \in DOMAIN records : a[i] \in Nat
  PROVE  SumsUp(Lay(records, resource, a), a, OnIt(records, resource))
<1> DEFINE laid == Lay(records, resource, a)
<1>1. PICK n \in Nat : n = Len(records) /\ DOMAIN records = 1 .. n
  BY ListProperty
<1>2. laid \in [1 .. n -> Nat]
  BY <1>1 DEF Lay
<1>3. IsFiniteSet(1 .. n)
  <2>1. 1 \in Int /\ n \in Int
    OBVIOUS
  <2>2. QED
    BY <2>1, FS_Interval
<1>4. PICK D : D = 1 .. n
  OBVIOUS
<1>5. PICK T \in SUBSET D : T = OnIt(records, resource)
  BY <1>1, <1>4 DEF OnIt
<1>6. SumFunctionOnSet(a, T) = SumFunctionOnSet(laid, D)
  <2>1. \A x \in T : a[x] \in Int /\ laid[x] = a[x]
    BY <1>1, <1>4, <1>5 DEF OnIt, Lay
  <2>2. \A x \in D \ T : laid[x] = 0
    BY <1>1, <1>4, <1>5 DEF OnIt, Lay
  <2>3. IsFiniteSet(D)
    BY <1>3, <1>4
  <2> HIDE DEF laid
  <2>4. QED
    BY <2>1, <2>2, <2>3, SumWhere
<1> HIDE DEF laid
<1>7. /\ SumFunction(laid) = SumFunctionOnSet(laid, 1 .. n)
      /\ SumFunction(laid) \in Nat /\ Accumulated(laid) \in Nat
      /\ Fits(laid) => Accumulated(laid) = SumFunction(laid)
  BY <1>2, AccumulatedIsSum
<1>8. SumsUp(laid, a, T)
  BY <1>4, <1>6, <1>7 DEF SumsUp
<1>9. QED
  BY <1>5, <1>8 DEF laid

\* The sums of what is reserved and what is lost of a resource.
AmountOn(in_, r) ==
  SumFunctionOnSet(Field(in_.reservations.records, LAMBDA x : x.amount),
                   {i \in DOMAIN in_.reservations.records :
                      in_.reservations.records[i].resource = r.id})
LostOn(in_, r) ==
  SumFunctionOnSet(Field(in_.degradation.records, LAMBDA x : x.lost),
                   {i \in DOMAIN in_.degradation.records :
                      in_.degradation.records[i].resource = r.id})
\* What the records of an input lay on a resource, with numbers that fit.
LaidWhole(in_, r) ==
  /\ Reserved(in_, r) \in Nat /\ Degraded(in_, r) \in Nat
  /\ Reserved(in_, r) = AmountOn(in_, r) /\ LostOn(in_, r) \in 0 .. Degraded(in_, r)

\* Reservations and losses of a resource are the whole of what is laid on it.
LEMMA LaidWholly ==
  ASSUME NEW in_, TypedCatalogs(in_), Derivable(in_), NEW j \in DOMAIN in_.resources.records,
         NEW r, r = in_.resources.records[j]
  PROVE  LaidWhole(in_, r)
<1> DEFINE Res == in_.reservations.records
           Deg == in_.degradation.records
           amounts == [i \in DOMAIN Res |-> Res[i].amount]
           losses == [i \in DOMAIN Deg |-> Loss(r, Deg[i])]
           lost == [i \in DOMAIN Deg |-> Deg[i].lost]
           Laid(records, f) == Lay(records, r.id, f)
           Where(records) == OnIt(records, r.id)
<1>1. IsList(Res) /\ IsList(Deg) /\ r.reported \in Nat
  BY DEF TypedCatalogs, U64
<1>2. \A i \in DOMAIN Res : amounts[i] \in Nat
  BY DEF TypedCatalogs, U64
<1>3. \A i \in DOMAIN Deg : Deg[i].lost \in Nat /\ Deg[i].ppm \in Nat
  BY DEF TypedCatalogs, U64
<1>4. \A i \in DOMAIN Deg : Loss(r, Deg[i]) \in Nat
  <2>1. TAKE i \in DOMAIN Deg
  <2>2. (IF r.authoritative THEN r.reported ELSE 0) \in Nat
    BY <1>1
  <2>3. QED
    BY <1>3, <2>2, ScaleProperty DEF Loss
<1>5. \A i \in DOMAIN Deg : Deg[i].lost <= Loss(r, Deg[i])
  <2>1. TAKE i \in DOMAIN Deg
  <2>2. (Deg[i].lost # 0) # (Deg[i].ppm # 0)
    BY DEF Derivable, ValidCatalogs, ValidDegradation, ValidLoss
  <2>3. CASE Deg[i].ppm = 0
    BY <1>3, <2>3 DEF Loss
  <2>4. CASE Deg[i].ppm # 0
    BY <1>3, <1>4, <2>2, <2>4
  <2>5. QED
    BY <2>3, <2>4
<1>6. Amounts(in_.reservations, r.id) = Laid(Res, amounts) /\ Losses(in_, r) = Laid(Deg, losses)
  BY DEF Amounts, Losses, LaidOn, Field, Lay
<1>7. Fits(Laid(Res, amounts)) /\ Fits(Laid(Deg, losses))
  <2>1. Fits(Amounts(in_.reservations, r.id)) /\ Fits(Losses(in_, r))
    BY DEF Derivable
  <2>2. QED
    BY <1>6, <2>1
<1>8. Field(Res, LAMBDA x : x.amount) = amounts /\ Field(Deg, LAMBDA x : x.lost) = lost
  BY DEF Field
<1>9. \A i \in DOMAIN Deg : losses[i] \in Nat /\ lost[i] \in Nat /\ lost[i] <= losses[i]
  BY <1>3, <1>4, <1>5
<1>10. Reserved(in_, r) = Accumulated(Laid(Res, amounts)) /\ Degraded(in_, r) = Accumulated(Laid(Deg, losses))
  BY <1>6 DEF Reserved, Degraded
<1> HIDE DEF Res, Deg, amounts, losses, lost
<1>11. /\ Accumulated(Laid(Res, amounts)) = SumFunctionOnSet(amounts, Where(Res))
       /\ Accumulated(Laid(Res, amounts)) \in Nat
  <2>1. SumsUp(Lay(Res, r.id, amounts), amounts, OnIt(Res, r.id))
    BY <1>1, <1>2, LaidProperty
  <2>2. QED
    BY <1>7, <2>1 DEF SumsUp
<1>12. /\ Accumulated(Laid(Deg, losses)) = SumFunctionOnSet(losses, Where(Deg))
       /\ Accumulated(Laid(Deg, losses)) \in Nat
  <2>1. SumsUp(Lay(Deg, r.id, losses), losses, OnIt(Deg, r.id))
    BY <1>1, <1>9, LaidProperty
  <2>2. QED
    BY <1>7, <2>1 DEF SumsUp
<1>13. SumFunctionOnSet(lost, Where(Deg)) <= SumFunctionOnSet(losses, Where(Deg))
  <2>1. IsFiniteSet(Where(Deg))
    <3>1. PICK n \in Nat : DOMAIN Deg = 1 .. n
      BY <1>1, ListProperty
    <3>2. 1 \in Int /\ n \in Int /\ Where(Deg) \in SUBSET (1 .. n)
      BY <3>1 DEF OnIt
    <3>3. QED
      BY <3>2, FS_Interval, FS_Subset
  <2>2. \A x \in Where(Deg) : lost[x] \in Int /\ losses[x] \in Int /\ lost[x] <= losses[x]
    BY <1>9 DEF OnIt
  <2> HIDE DEF Where
  <2>3. QED
    BY <2>1, <2>2, SumBound
<1>14. SumFunctionOnSet(lost, Where(Deg)) \in Nat
  <2>1. SumsUp(Lay(Deg, r.id, lost), lost, OnIt(Deg, r.id))
    BY <1>1, <1>9, LaidProperty
  <2>2. QED
    BY <2>1 DEF SumsUp
<1>15. QED
  <2>1. /\ AmountOn(in_, r) = SumFunctionOnSet(amounts, Where(Res))
        /\ LostOn(in_, r) = SumFunctionOnSet(lost, Where(Deg))
    BY <1>8 DEF AmountOn, LostOn, Res, Deg, OnIt
  <2>2. PICK m, n, k : /\ m = SumFunctionOnSet(amounts, Where(Res))
                       /\ n = SumFunctionOnSet(lost, Where(Deg))
                       /\ k = SumFunctionOnSet(losses, Where(Deg))
    OBVIOUS
  <2>3. /\ AmountOn(in_, r) = m /\ LostOn(in_, r) = n
        /\ Reserved(in_, r) = m /\ Degraded(in_, r) = k
        /\ m \in Nat /\ k \in Nat /\ n \in Nat /\ n <= k
    BY <1>10, <1>11, <1>12, <1>13, <1>14, <2>1, <2>2
  <2>4. QED
    BY <2>3 DEF LaidWhole

\* What a row says of its resource: its parts add up to what it has, and what
\* it leaves available exists.
RowOK(in_, r, w) ==
  /\ w.resource = r.id /\ w.domain = r.domain /\ w.healthy = Healthy(in_, r)
  /\ w.raw \in Nat /\ w.unknown \in Nat /\ w.raw <= U64Max
  /\ w.reserved \in Nat /\ w.headroom \in Nat /\ w.degraded \in Nat /\ w.available \in Nat
  /\ w.raw = w.reserved + w.headroom + w.degraded + w.available
  /\ w.available > 0 =>
       /\ r.authoritative /\ r.present
       /\ r.domain # None => Find(in_.domains.records, r.domain).healthy
       /\ AmountOn(in_, r) \in Nat /\ LostOn(in_, r) \in Nat /\ in_.policy.headroom \in Nat
       /\ r.reported \in Nat
       /\ w.available + in_.policy.headroom + AmountOn(in_, r) + LostOn(in_, r) <= r.reported

\* The row of a resource whose inputs were accepted.
LEMMA RowProperty ==
  ASSUME NEW in_, TypedCatalogs(in_), Derivable(in_), NEW j \in DOMAIN in_.resources.records,
         NEW r, r = in_.resources.records[j]
  PROVE  RowOK(in_, r, Row(in_, r))
<1> DEFINE w == Row(in_, r)
<1>0. w.resource = r.id /\ w.domain = r.domain /\ w.healthy = Healthy(in_, r)
  BY DEF Row
<1>1. /\ r.reported \in Nat /\ r.reported <= U64Max
      /\ in_.policy.headroom \in Nat /\ in_.policy.headroomPpm \in Nat
  BY CheckedAssumption DEF TypedCatalogs, U64
<1>2. Reserved(in_, r) \in Nat /\ Degraded(in_, r) \in Nat
  BY LaidWholly DEF LaidWhole
<1>3. /\ Headroom(in_, r.reported) \in Nat
      /\ \/ Headroom(in_, r.reported) = r.reported
         \/ Headroom(in_, r.reported) >= in_.policy.headroom
  <2>1. Scale(r.reported, in_.policy.headroomPpm) \in Nat
    BY <1>1, ScaleProperty
  <2>2. QED
    BY <1>1, <2>1 DEF Headroom
<1>4. CASE ~ Usable(r)
  <2>1. w.raw = 0 /\ w.unknown = r.reported /\ w.reserved = 0 /\ w.headroom = 0 /\ w.degraded = 0
        /\ w.available = 0 /\ w.resource = r.id
    BY <1>4 DEF Row
  <2>2. QED
    BY <1>0, <1>1, <2>1, CheckedAssumption DEF RowOK
<1>5. CASE Usable(r) /\ ~ Healthy(in_, r)
  <2>1. w.raw = r.reported /\ w.unknown = 0 /\ w.reserved = 0 /\ w.headroom = 0
        /\ w.degraded = r.reported /\ w.resource = r.id
    BY <1>5 DEF Row
  <2>2. w.available = r.reported - 0 - 0 - r.reported
    BY <1>5 DEF Row
  <2>3. w.available = 0
    BY <1>1, <2>2
  <2>4. QED
    BY <1>0, <1>1, <2>1, <2>3 DEF RowOK
<1>6. CASE Usable(r) /\ Healthy(in_, r)
  <2>1. w.raw = r.reported /\ w.unknown = 0 /\ w.reserved = Reserved(in_, r)
        /\ w.headroom = Headroom(in_, r.reported)
        /\ w.degraded = Degraded(in_, r) /\ w.resource = r.id
        /\ w.available = r.reported - Reserved(in_, r) - Headroom(in_, r.reported) - Degraded(in_, r)
    BY <1>6 DEF Row
  <2>2. w.available >= 0
    BY <1>6 DEF Derivable, Deductible
  <2>3. r.domain # None => Find(in_.domains.records, r.domain).healthy
    <3>1. r.domain # None => Known(in_.domains.records, r.domain)
      BY DEF Derivable, ValidCatalogs, ValidDegradation
    <3>2. QED
      BY <1>6, <3>1 DEF Healthy
  <2>4. r.authoritative /\ r.present
    BY <1>6 DEF Usable
  <2> DEFINE A == AmountOn(in_, r)
             L == LostOn(in_, r)
  <2>5. Reserved(in_, r) = A /\ L \in 0 .. Degraded(in_, r)
    BY LaidWholly DEF LaidWhole
  <2> HIDE DEF w, A, L
  <2>6. w.available \in Nat /\ w.raw = w.reserved + w.headroom + w.degraded + w.available
    BY <1>1, <1>2, <1>3, <2>1, <2>2
  <2>7. w.available > 0 => w.available + in_.policy.headroom + A + L <= r.reported
    BY <1>1, <1>2, <1>3, <2>1, <2>2, <2>5
  <2>8. /\ w.resource = r.id
        /\ w.raw \in Nat /\ w.unknown \in Nat /\ w.raw <= U64Max
        /\ w.reserved \in Nat /\ w.headroom \in Nat /\ w.degraded \in Nat /\ w.available \in Nat
    BY <1>1, <1>2, <1>3, <2>1, <2>6
  <2>9. RowOK(in_, r, w)
    BY <1>0, <1>1, <1>2, <2>3, <2>4, <2>5, <2>6, <2>7, <2>8 DEF RowOK, A, L
  <2>10. QED
    BY <2>9 DEF w
<1>7. QED
  BY <1>4, <1>5, <1>6

-----------------------------------------------------------------------------
(* Lists *)

\* Lists that are put one behind the other are a list.
LEMMA FlattenExists ==
  ASSUME NEW S, NEW n \in Nat, NEW seqs \in [1 .. n -> Seq(S)]
  PROVE  \E h : h = [k \in 1 .. n |-> IF k = 1 THEN seqs[k] ELSE h[k - 1] \o seqs[k]]
<1> DEFINE D == 1 .. n
           F == [c \in D \X Seq(S) |-> c[2] \o seqs[c[1]]]
           p == [T \in SUBSET D |-> Max(T)]
<1>1. IsFiniteSet(D)
  <2>1. 1 \in Int /\ n \in Int
    OBVIOUS
  <2>2. QED
    BY <2>1, FS_Interval
<1>2. F \in [D \X Seq(S) -> Seq(S)] /\ <<>> \in Seq(S)
  OBVIOUS
<1>3. \A T \in SUBSET D : T # {} => p[T] \in T
  <2>1. n \in Int
    OBVIOUS
  <2>2. \A T \in SUBSET D : T # {} => Max(T) \in T
    BY <2>1, LastOf
  <2>3. QED
    BY <2>2
<1>4. PICK g : Folds_(g, D, Seq(S), <<>>, F, p)
  <2> HIDE DEF D, F, p
  <2>1. QED
    BY <1>1, <1>2, <1>3, FoldExists
<1>5. \A k \in D : g[1 .. k] = g[1 .. (k - 1)] \o seqs[k] /\ g[1 .. k] \in Seq(S)
  <2>1. TAKE k \in D
  <2>2. 1 .. k \in SUBSET D /\ k \in 1 .. k /\ (1 .. k) \ {k} = 1 .. (k - 1) /\ 1 .. (k - 1) \in SUBSET D
    OBVIOUS
  <2>3. Max(1 .. k) = k
    <3>1. 1 .. k \in SUBSET Nat /\ k \in Nat /\ \A x \in 1 .. k : x <= k
      OBVIOUS
    <3>2. Max(1 .. k) \in 1 .. k /\ \A x \in 1 .. k : x <= Max(1 .. k)
      BY <2>2, <3>1, MaxProperty
    <3>3. QED
      BY <2>2, <3>2
  <2>4. p[1 .. k] = k
    BY <2>2, <2>3
  <2> DEFINE W == 1 .. k
             U == 1 .. (k - 1)
  <2>5. g[W] = F[<<p[W], g[W \ {p[W]}]>>]
    <3>1. W # {} /\ W \in SUBSET D
      BY <2>2
    <3>2. QED
      BY <1>4, <3>1 DEF Folds_
  <2>6. W \ {p[W]} = U
    BY <2>2, <2>4
  <2>7. g[U] \in Seq(S)
    BY <1>4, <2>2 DEF Folds_
  <2>8. F[<<k, g[U]>>] = g[U] \o seqs[k]
    BY <2>7
  <2> HIDE DEF F, p, W, U, D
  <2>9. g[W] = g[U] \o seqs[k]
    BY <2>4, <2>5, <2>6, <2>8 DEF W
  <2>10. g[W] \in Seq(S)
    BY <1>4, <2>2 DEF Folds_, W
  <2>11. QED
    BY <2>9, <2>10 DEF W, U
<1>6. g[1 .. 0] = <<>>
  <2>1. 1 .. 0 = {} /\ {} \in SUBSET D
    OBVIOUS
  <2>2. QED
    BY <1>4, <2>1 DEF Folds_
<1> DEFINE h == [k \in D |-> g[1 .. k]]
<1>7. h = [k \in D |-> IF k = 1 THEN seqs[k] ELSE h[k - 1] \o seqs[k]]
  <2>1. ASSUME NEW k \in D PROVE g[1 .. k] = IF k = 1 THEN seqs[k] ELSE h[k - 1] \o seqs[k]
    <3>1. CASE k = 1
      <4>1. g[1 .. 1] = g[1 .. 0] \o seqs[1] /\ seqs[1] \in Seq(S)
        <5>1. 1 \in D /\ 1 - 1 = 0
          BY <3>1
        <5>2. g[1 .. 1] = g[1 .. (1 - 1)] \o seqs[1]
          BY <1>5, <5>1
        <5>3. QED
          BY <5>1, <5>2
      <4>2. <<>> \o seqs[1] = seqs[1]
        BY <4>1
      <4>3. QED
        BY <1>6, <3>1, <4>1, <4>2
    <3>2. CASE k # 1
      <4>1. k - 1 \in D
        BY <3>2
      <4>2. h[k - 1] = g[1 .. (k - 1)]
        BY <4>1
      <4>3. QED
        BY <1>5, <3>2, <4>2
    <3>3. QED
      BY <3>1, <3>2
  <2> HIDE DEF F, p
  <2>2. QED
    BY <2>1
<1>8. QED
  BY <1>7

\* What is flattened is a list, each member of which is in one of the lists.
LEMMA FlattenProperty ==
  ASSUME NEW S, NEW n \in Nat, NEW seqs \in [1 .. n -> Seq(S)]
  PROVE  FlattenSeq(seqs) \in Seq(S)
<1> DEFINE Flat(h) == h = [k \in 1 .. n |-> IF k = 1 THEN seqs[k] ELSE h[k - 1] \o seqs[k]]
<1>1. Len(seqs) = n /\ seqs \in Seq(Seq(S))
  OBVIOUS
<1>2. CASE n = 0
  <2>1. FlattenSeq(seqs) = seqs
    BY <1>1, <1>2 DEF FlattenSeq
  <2>2. seqs = <<>>
    BY <1>1, <1>2
  <2>3. QED
    BY <2>1, <2>2
<1>3. CASE n # 0
  <2>1. FlattenSeq(seqs) = (CHOOSE h : Flat(h))[n]
    BY <1>1, <1>3 DEF FlattenSeq
  <2>2. Flat(CHOOSE h : Flat(h))
    BY FlattenExists
  <2>3. PICK h : Flat(h) /\ FlattenSeq(seqs) = h[n]
    BY <2>1, <2>2
  <2>4. \A k \in 1 .. n : h[k] = IF k = 1 THEN seqs[k] ELSE h[k - 1] \o seqs[k]
    BY <2>3
  <2> DEFINE Bad == {k \in 1 .. n : h[k] \notin Seq(S)}
  <2>5. Bad = {}
    <3>1. SUFFICES ASSUME Bad # {} PROVE FALSE
      OBVIOUS
    <3>2. Bad \in SUBSET Nat
      OBVIOUS
    <3>3. PICK m \in Bad : \A k \in Bad : m <= k
      BY <3>1, <3>2, LeastMember
    <3>4. m \in 1 .. n /\ h[m] \notin Seq(S) /\ seqs[m] \in Seq(S)
      OBVIOUS
    <3>5. m # 1
      BY <2>4, <3>4
    <3>6. m - 1 \in 1 .. n /\ m - 1 \notin Bad
      BY <3>3, <3>4, <3>5
    <3>7. h[m - 1] \in Seq(S)
      BY <3>6
    <3>8. h[m] = h[m - 1] \o seqs[m]
      BY <2>4, <3>4, <3>5
    <3>9. h[m] \in Seq(S)
      BY <3>4, <3>7, <3>8
    <3>10. QED
      BY <3>4, <3>9
  <2>6. n \in 1 .. n
    BY <1>3
  <2>7. n \notin Bad
    BY <2>5
  <2> HIDE DEF Flat
  <2>8. QED
    BY <2>3, <2>6, <2>7
<1>4. QED
  BY <1>2, <1>3

\* Two lists, one behind the other.
Joined(c, a, b, l) ==
  /\ IsList(c) /\ Len(c) = l + Len(b) /\ l = Len(a)
  /\ \A i \in DOMAIN c :
       \/ i \in DOMAIN a /\ c[i] = a[i]
       \/ i - l \in DOMAIN b /\ c[i] = b[i - l] /\ i > l

\* What two lists have one behind the other.
LEMMA JoinProperty ==
  ASSUME NEW a, NEW b, IsList(a), IsList(b)
  PROVE  Joined(a \o b, a, b, Len(a))
<1>1. PICK m \in Nat, n \in Nat : /\ m = Len(a) /\ DOMAIN a = 1 .. m /\ a \in Seq(Range(a))
                                /\ n = Len(b) /\ DOMAIN b = 1 .. n /\ b \in Seq(Range(b))
  BY ListProperty DEF IsList
<1>2. Len(a \o b) = m + n /\ DOMAIN (a \o b) = 1 .. (m + n)
  BY <1>1
<1>3. \A i \in 1 .. (m + n) : (a \o b)[i] = IF i <= m THEN a[i] ELSE b[i - m]
  BY <1>1
<1>4. PICK c : c = a \o b
  OBVIOUS
<1>5. IsList(c)
  <2>1. c \in Seq(Range(a) \cup Range(b))
    BY <1>1, <1>4
  <2>2. \A i \in DOMAIN c : c[i] \in Range(c)
    BY DEF Range
  <2>3. c \in [1 .. Len(c) -> Range(c)] /\ Len(c) \in Nat
    BY <2>1, <2>2
  <2>4. QED
    BY <2>3 DEF IsList
<1>6. Joined(c, a, b, m)
  <2>1. \A i \in DOMAIN c : (i \in DOMAIN a /\ c[i] = a[i])
                           \/ (i - m \in DOMAIN b /\ c[i] = b[i - m] /\ i > m)
    BY <1>1, <1>2, <1>3, <1>4
  <2>2. Len(c) = m + Len(b) /\ m = Len(a)
    BY <1>1, <1>2, <1>4
  <2>3. QED
    BY <1>5, <2>1, <2>2 DEF Joined
<1>7. QED
  BY <1>1, <1>4, <1>6

\* The slots are resources of the catalog, each once.
SlotsOK(in_) ==
  /\ IsList(Slots(in_.topology)) /\ Distinct(Slots(in_.topology))
  /\ \A i \in DOMAIN Slots(in_.topology) : \E j \in DOMAIN in_.resources.records :
       in_.resources.records[j].id = Slots(in_.topology)[i]

\* Slots of an accepted topology are a list of resources, none twice.
LEMMA SlotsProperty ==
  ASSUME NEW in_, TypedCatalogs(in_), Derivable(in_)
  PROVE  SlotsOK(in_)
<1> DEFINE nodes == in_.topology.nodes
           edges == in_.topology.edges
           H == Transits(nodes)
           e == InOrder(H)
           a == [k \in DOMAIN e |-> nodes[e[k]].transit]
           b == [k \in DOMAIN edges |-> edges[k].resource]
           slots == Slots(in_.topology)
           Res(id) == \E j \in DOMAIN in_.resources.records : in_.resources.records[j].id = id
<1>1. IsList(nodes) /\ IsList(edges)
  BY DEF TypedCatalogs
<1>2. PICK n \in Nat, m \in Nat : DOMAIN nodes = 1 .. n /\ DOMAIN edges = 1 .. m
  BY <1>1, ListProperty
<1>3. H \in SUBSET (1 .. n)
  BY <1>2 DEF Transits
<1>4. ValidTopology(in_.topology, in_.resources, in_.limits)
  BY DEF Derivable, ValidCatalogs
<1>5. slots = a \o b
  BY DEF Slots, Field
<1>6. \A i \in H : nodes[i].transit # None /\ Res(nodes[i].transit)
  BY <1>4 DEF ValidTopology, Transits, Bound, Known
<1>7. \A i \in DOMAIN edges : Res(edges[i].resource)
  BY <1>4 DEF ValidTopology, Bound, Known
<1>8. /\ \A i, j \in H : nodes[i].transit = nodes[j].transit => i = j
      /\ \A i, j \in DOMAIN edges : edges[i].resource = edges[j].resource => i = j
      /\ \A i \in H, j \in DOMAIN edges : nodes[i].transit # edges[j].resource
  BY <1>4 DEF ValidTopology, OwnedOnce, Distinct, Field
<1>9. PICK c \in Nat : c = Cardinality(H) /\ e \in [1 .. c -> H]
  BY <1>3, InOrderType
<1>10. \A i, j \in 1 .. c : e[i] = e[j] => i = j
  <2>1. \A i, j \in 1 .. c : i < j => e[i] < e[j]
    BY <1>3, <1>9, InOrderIncreases
  <2>2. \A i \in 1 .. c : e[i] \in Int
    BY <1>3, <1>9
  <2> HIDE DEF e, H
  <2>3. QED
    BY <2>1, <2>2
<1> HIDE DEF H, e, slots, nodes, edges, Res
<1>11. \A k \in DOMAIN a : k \in 1 .. c /\ e[k] \in H /\ a[k] = nodes[e[k]].transit
  BY <1>9
<1>12. DOMAIN a = 1 .. c
  BY <1>9
<1>13. IsList(a) /\ IsList(b)
  <2>1. ASSUME NEW x, NEW k \in Nat, x = [i \in 1 .. k |-> x[i]] PROVE IsList(x)
    <3>1. x \in [1 .. k -> Range(x)]
      BY <2>1 DEF Range
    <3>2. QED
      BY <3>1 DEF IsList
  <2>2. a = [i \in 1 .. c |-> a[i]] /\ b = [i \in 1 .. m |-> b[i]]
    BY <1>2, <1>12 DEF edges
  <2> HIDE DEF a, b
  <2>3. QED
    BY <2>1, <2>2
<1>14. \A k \in DOMAIN b : k \in DOMAIN edges /\ b[k] = edges[k].resource
  OBVIOUS
<1> HIDE DEF a, b
<1>15. PICK l : l = Len(a) /\ Joined(slots, a, b, l)
  BY <1>5, <1>13, JoinProperty
<1>16. /\ IsList(slots)
       /\ \A i \in DOMAIN slots :
              \/ i \in DOMAIN a /\ slots[i] = a[i]
              \/ i - l \in DOMAIN b /\ slots[i] = b[i - l] /\ i > l
  BY <1>15 DEF Joined
<1>17. \A i \in DOMAIN slots : Res(slots[i])
  BY <1>6, <1>7, <1>11, <1>14, <1>16
<1>18. l \in Nat /\ \A i \in DOMAIN slots : i \in Nat
  BY <1>13, <1>15, <1>16, ListProperty
<1>19. Distinct(slots)
  <2>1. ASSUME NEW i \in DOMAIN slots, NEW j \in DOMAIN slots, slots[i] = slots[j] PROVE i = j
    <3>1. CASE i \in DOMAIN a /\ slots[i] = a[i] /\ j \in DOMAIN a /\ slots[j] = a[j]
      <4>1. e[i] \in H /\ e[j] \in H /\ i \in 1 .. c /\ j \in 1 .. c
            /\ a[i] = nodes[e[i]].transit /\ a[j] = nodes[e[j]].transit
        BY <1>11, <3>1
      <4>2. nodes[e[i]].transit = nodes[e[j]].transit
        BY <2>1, <3>1, <4>1
      <4>3. e[i] = e[j]
        BY <1>8, <4>1, <4>2
      <4>4. QED
        BY <1>10, <4>1, <4>3
    <3>2. CASE i \in DOMAIN a /\ slots[i] = a[i] /\ j - l \in DOMAIN b /\ slots[j] = b[j - l]
      <4>1. e[i] \in H /\ a[i] = nodes[e[i]].transit
        BY <1>11, <3>2
      <4>2. j - l \in DOMAIN edges /\ b[j - l] = edges[j - l].resource
        BY <1>14, <3>2
      <4>3. nodes[e[i]].transit = edges[j - l].resource
        BY <2>1, <3>2, <4>1, <4>2
      <4>4. QED
        BY <1>8, <4>1, <4>2, <4>3
    <3>3. CASE j \in DOMAIN a /\ slots[j] = a[j] /\ i - l \in DOMAIN b /\ slots[i] = b[i - l]
      <4>1. e[j] \in H /\ a[j] = nodes[e[j]].transit
        BY <1>11, <3>3
      <4>2. i - l \in DOMAIN edges /\ b[i - l] = edges[i - l].resource
        BY <1>14, <3>3
      <4>3. nodes[e[j]].transit = edges[i - l].resource
        BY <2>1, <3>3, <4>1, <4>2
      <4>4. QED
        BY <1>8, <4>1, <4>2, <4>3
    <3>4. CASE i - l \in DOMAIN b /\ slots[i] = b[i - l] /\ j - l \in DOMAIN b /\ slots[j] = b[j - l]
      <4>1. i - l = j - l
        <5>1. /\ i - l \in DOMAIN edges /\ b[i - l] = edges[i - l].resource
              /\ j - l \in DOMAIN edges /\ b[j - l] = edges[j - l].resource
          BY <1>14, <3>4
        <5>2. edges[i - l].resource = edges[j - l].resource
          BY <2>1, <3>4, <5>1
        <5>3. QED
          BY <1>8, <5>1, <5>2
      <4>2. QED
        BY <1>18, <4>1
    <3>5. QED
      BY <1>16, <3>1, <3>2, <3>3, <3>4
  <2>2. QED
    BY <2>1 DEF Distinct
<1>20. QED
  BY <1>16, <1>17, <1>19 DEF SlotsOK, slots, Res

-----------------------------------------------------------------------------
(* The arcs of an analysis *)

\* What an arc without a capacity of its own joins.
Inner(pair) ==
  \E a, b : pair \in {<<In(a), Out_(b)>>, <<In(a), SlotIn(b)>>, <<SlotOut(a), Out_(b)>>,
                      <<Out_(a), SlotIn(b)>>, <<SlotOut(a), In(b)>>,
                      <<SuperSource, Out_(b)>>, <<In(a), SuperSink>>}

\* What arcs beside those of the slots join.
LEMMA InnerList ==
  ASSUME NEW n \in Nat, NEW seqs, seqs = [i \in 1 .. n |-> seqs[i]],
         \A i \in 1 .. n : \E p, q : /\ seqs[i] = <<p>> \/ seqs[i] = <<p, q>>
                                     /\ Inner(p) /\ Inner(q)
  PROVE  /\ IsList(FlattenSeq(seqs))
         /\ \A i \in DOMAIN FlattenSeq(seqs) : Inner(FlattenSeq(seqs)[i])
<1> DEFINE S == {x \in UNION {Range(seqs[i]) : i \in 1 .. n} : Inner(x)}
<1>1. \A i \in 1 .. n : seqs[i] \in Seq(S)
  <2>1. TAKE i \in 1 .. n
  <2>2. PICK p, q : (seqs[i] = <<p>> \/ seqs[i] = <<p, q>>) /\ Inner(p) /\ Inner(q)
    OBVIOUS
  <2> HIDE DEF Inner
  <2>3. CASE seqs[i] = <<p>>
    <3>1. p = seqs[i][1] /\ 1 \in DOMAIN seqs[i]
      BY <2>3
    <3>2. p \in Range(seqs[i])
      BY <3>1 DEF Range
    <3>3. p \in S
      BY <2>2, <3>2
    <3> HIDE DEF S
    <3>4. <<p>> \in Seq(S)
      BY <3>3
    <3>5. QED
      BY <2>3, <3>4
  <2>4. CASE seqs[i] = <<p, q>>
    <3>1. p = seqs[i][1] /\ q = seqs[i][2] /\ {1, 2} \subseteq DOMAIN seqs[i]
      BY <2>4
    <3>2. p \in Range(seqs[i]) /\ q \in Range(seqs[i])
      BY <3>1 DEF Range
    <3>3. p \in S /\ q \in S
      BY <2>2, <3>2
    <3> HIDE DEF S
    <3>4. <<p, q>> \in Seq(S)
      BY <3>3
    <3>5. QED
      BY <2>4, <3>4
  <2>5. QED
    BY <2>2, <2>3, <2>4
<1>2. \A x \in S : Inner(x)
  OBVIOUS
<1> HIDE DEF S, Inner
<1>3. seqs \in [1 .. n -> Seq(S)]
  BY <1>1
<1>4. PICK f : f = FlattenSeq(seqs)
  OBVIOUS
<1>5. f \in Seq(S)
  BY <1>3, <1>4, FlattenProperty
<1>6. \A i \in DOMAIN f : f[i] \in S
  BY <1>5
<1>7. IsList(f)
  <2>1. \A i \in DOMAIN f : f[i] \in Range(f)
    BY DEF Range
  <2>2. f \in [1 .. Len(f) -> Range(f)] /\ Len(f) \in Nat
    BY <1>5, <2>1
  <2>3. QED
    BY <2>2 DEF IsList
<1>8. QED
  BY <1>2, <1>4, <1>6, <1>7

\* The slots have the first arcs, and the other arcs join the slots to the
\* nodes, or the nodes to the two ends.
EndsOK(t, flows) ==
  /\ IsList(Ends(t, flows)) /\ Len(Slots(t)) <= Len(Ends(t, flows))
  /\ \A e \in DOMAIN Ends(t, flows) :
       \/ /\ e \in DOMAIN Slots(t)
          /\ Ends(t, flows)[e] = <<SlotIn(Slots(t)[e]), SlotOut(Slots(t)[e])>>
       \/ e > Len(Slots(t)) /\ Inner(Ends(t, flows)[e])

\* The ends of the arcs of an analysis, those of its slots first.
LEMMA EndsProperty ==
  ASSUME NEW t, NEW flows, IsList(t.nodes), IsList(t.edges), IsList(flows), IsList(Slots(t))
  PROVE  EndsOK(t, flows)
<1> DEFINE slots == Slots(t)
           A == [i \in DOMAIN slots |-> <<SlotIn(slots[i]), SlotOut(slots[i])>>]
           sB == [i \in DOMAIN t.nodes |-> NodeArcs(t.nodes[i])]
           sC == [i \in DOMAIN t.edges |-> EdgeArcs(t.edges[i])]
           sD == [i \in DOMAIN flows |-> FlowArcs(flows[i])]
           B == FlattenSeq(sB)
           C == FlattenSeq(sC)
           F == FlattenSeq(sD)
           All(s) == IsList(s) /\ \A i \in DOMAIN s : Inner(s[i])
<1>1. Ends(t, flows) = ((A \o B) \o C) \o F
  BY DEF Ends, Field
<1>2. All(B)
  <2>1. PICK n \in Nat : DOMAIN t.nodes = 1 .. n
    BY ListProperty
  <2>2. \A i \in 1 .. n : \E p, q : (sB[i] = <<p>> \/ sB[i] = <<p, q>>) /\ Inner(p) /\ Inner(q)
    <3>1. TAKE i \in 1 .. n
    <3>2. sB[i] = NodeArcs(t.nodes[i])
      BY <2>1
    <3> DEFINE node == t.nodes[i]
    <3>3. CASE node.transit = None
      <4>1. sB[i] = << <<In(node.id), Out_(node.id)>> >>
        BY <3>2, <3>3 DEF NodeArcs
      <4>2. Inner(<<In(node.id), Out_(node.id)>>)
        BY DEF Inner
      <4>3. QED
        BY <4>1, <4>2
    <3>4. CASE node.transit # None
      <4>1. sB[i] = << <<In(node.id), SlotIn(node.transit)>>, <<SlotOut(node.transit), Out_(node.id)>> >>
        BY <3>2, <3>4 DEF NodeArcs
      <4>2. Inner(<<In(node.id), SlotIn(node.transit)>>) /\ Inner(<<SlotOut(node.transit), Out_(node.id)>>)
        BY DEF Inner
      <4>3. QED
        BY <4>1, <4>2
    <3>5. QED
      BY <3>3, <3>4
  <2>3. sB = [i \in 1 .. n |-> sB[i]]
    BY <2>1
  <2> HIDE DEF sB
  <2>4. QED
    BY <2>2, <2>3, InnerList
<1>3. All(C)
  <2>1. PICK n \in Nat : DOMAIN t.edges = 1 .. n
    BY ListProperty
  <2>2. \A i \in 1 .. n : \E p, q : (sC[i] = <<p>> \/ sC[i] = <<p, q>>) /\ Inner(p) /\ Inner(q)
    <3>1. TAKE i \in 1 .. n
    <3>2. sC[i] = << <<Out_(t.edges[i].from), SlotIn(t.edges[i].resource)>>,
                     <<SlotOut(t.edges[i].resource), In(t.edges[i].to)>> >>
      BY <2>1 DEF EdgeArcs
    <3>3. Inner(<<Out_(t.edges[i].from), SlotIn(t.edges[i].resource)>>)
          /\ Inner(<<SlotOut(t.edges[i].resource), In(t.edges[i].to)>>)
      BY DEF Inner
    <3>4. QED
      BY <3>2, <3>3
  <2>3. sC = [i \in 1 .. n |-> sC[i]]
    BY <2>1
  <2> HIDE DEF sC
  <2>4. QED
    BY <2>2, <2>3, InnerList
<1>4. All(F)
  <2>1. PICK n \in Nat : DOMAIN flows = 1 .. n
    BY ListProperty
  <2>2. \A i \in 1 .. n : \E p, q : (sD[i] = <<p>> \/ sD[i] = <<p, q>>) /\ Inner(p) /\ Inner(q)
    <3>1. TAKE i \in 1 .. n
    <3>2. sD[i] = << <<SuperSource, Out_(flows[i].source)>>, <<In(flows[i].sink), SuperSink>> >>
      BY <2>1 DEF FlowArcs
    <3>3. Inner(<<SuperSource, Out_(flows[i].source)>>) /\ Inner(<<In(flows[i].sink), SuperSink>>)
      BY DEF Inner
    <3>4. QED
      BY <3>2, <3>3
  <2>3. sD = [i \in 1 .. n |-> sD[i]]
    BY <2>1
  <2> HIDE DEF sD
  <2>4. QED
    BY <2>2, <2>3, InnerList
<1>5. IsList(A) /\ Len(A) = Len(slots) /\ DOMAIN A = DOMAIN slots
      /\ \A i \in DOMAIN A : A[i] = <<SlotIn(slots[i]), SlotOut(slots[i])>>
  <2>1. PICK n \in Nat : DOMAIN slots = 1 .. n /\ Len(slots) = n
    BY ListProperty
  <2>2. DOMAIN A = 1 .. n /\ \A i \in DOMAIN A : A[i] \in Range(A)
    BY <2>1 DEF Range
  <2>3. A \in [1 .. n -> Range(A)]
    BY <2>1, <2>2
  <2>4. IsList(A) /\ Len(A) = n
    BY <2>3 DEF IsList
  <2>5. QED
    BY <2>1, <2>4
<1> HIDE DEF A, B, C, F, slots
<1>6. PICK AB : AB = A \o B
  OBVIOUS
<1>7. PICK ABC : ABC = AB \o C
  OBVIOUS
<1>8. PICK E : E = ABC \o F /\ E = Ends(t, flows)
  BY <1>1, <1>6, <1>7
<1>9. PICK a \in Nat, b \in Nat, c \in Nat, f \in Nat :
        /\ a = Len(A) /\ b = Len(B) /\ c = Len(C) /\ f = Len(F)
        /\ DOMAIN A = 1 .. a /\ DOMAIN B = 1 .. b /\ DOMAIN C = 1 .. c /\ DOMAIN F = 1 .. f
  BY <1>2, <1>3, <1>4, <1>5, ListProperty
<1> HIDE DEF Inner
<1>10. /\ IsList(AB) /\ Len(AB) = a + b
       /\ \A i \in DOMAIN AB : (i \in DOMAIN A /\ AB[i] = A[i]) \/ (i > a /\ Inner(AB[i]))
  <2>1. Joined(AB, A, B, a)
    BY <1>2, <1>5, <1>6, <1>9, JoinProperty
  <2>2. QED
    BY <1>2, <1>9, <2>1 DEF Joined
<1>11. /\ IsList(ABC) /\ Len(ABC) = a + b + c
       /\ \A i \in DOMAIN ABC : (i \in DOMAIN A /\ ABC[i] = A[i]) \/ (i > a /\ Inner(ABC[i]))
  <2>1. PICK k \in Nat : k = Len(AB) /\ k = a + b
    BY <1>10
  <2>2. Joined(ABC, AB, C, k)
    BY <1>3, <1>7, <1>10, <2>1, JoinProperty
  <2>3. \A i \in DOMAIN ABC : i \in Nat
    BY <2>2, ListProperty DEF Joined
  <2>4. ASSUME NEW i \in DOMAIN ABC PROVE (i \in DOMAIN A /\ ABC[i] = A[i]) \/ (i > a /\ Inner(ABC[i]))
    <3>1. CASE i \in DOMAIN AB /\ ABC[i] = AB[i]
      BY <1>10, <3>1
    <3>2. CASE i - k \in DOMAIN C /\ ABC[i] = C[i - k] /\ i > k
      BY <1>3, <2>1, <2>3, <3>2
    <3>3. QED
      BY <2>2, <3>1, <3>2 DEF Joined
  <2>5. QED
    BY <1>9, <2>1, <2>2, <2>4 DEF Joined
<1>12. /\ IsList(E) /\ Len(E) = a + b + c + f
       /\ \A i \in DOMAIN E : (i \in DOMAIN A /\ E[i] = A[i]) \/ (i > a /\ Inner(E[i]))
  <2>1. PICK k \in Nat : k = Len(ABC) /\ k = a + b + c
    BY <1>11
  <2>2. Joined(E, ABC, F, k)
    BY <1>4, <1>8, <1>11, <2>1, JoinProperty
  <2>3. \A i \in DOMAIN E : i \in Nat
    BY <2>2, ListProperty DEF Joined
  <2>4. ASSUME NEW i \in DOMAIN E PROVE (i \in DOMAIN A /\ E[i] = A[i]) \/ (i > a /\ Inner(E[i]))
    <3>1. CASE i \in DOMAIN ABC /\ E[i] = ABC[i]
      BY <1>11, <3>1
    <3>2. CASE i - k \in DOMAIN F /\ E[i] = F[i - k] /\ i > k
      BY <1>4, <2>1, <2>3, <3>2
    <3>3. QED
      BY <2>2, <3>1, <3>2 DEF Joined
  <2>5. QED
    BY <1>9, <2>1, <2>2, <2>4 DEF Joined
<1>13. a = Len(slots) /\ a <= Len(E)
  BY <1>5, <1>9, <1>12
<1>14. \A e \in DOMAIN E : (e \in DOMAIN slots /\ E[e] = <<SlotIn(slots[e]), SlotOut(slots[e])>>)
                            \/ (e > Len(slots) /\ Inner(E[e]))
  BY <1>5, <1>12, <1>13
<1>15. QED
  BY <1>8, <1>12, <1>13, <1>14 DEF EndsOK, slots

-----------------------------------------------------------------------------
(* The rows of an evaluation *)

RowFields == {"resource", "domain", "present", "authoritative", "healthy", "raw", "unknown", "reserved",
              "headroom", "degraded", "available", "admissible", "stranded", "cause"}

\* There is a row for every resource, and it says of it what is so.
RowsOK(in_, rs) ==
  /\ IsList(rs)
  /\ \A k \in DOMAIN rs : /\ DOMAIN rs[k] = RowFields
                          /\ \E j \in DOMAIN in_.resources.records :
                               RowOK(in_, in_.resources.records[j], rs[k])
  /\ \A j \in DOMAIN in_.resources.records :
       \E k \in DOMAIN rs : rs[k].resource = in_.resources.records[j].id
  /\ \A k, l \in DOMAIN rs : rs[k].resource = rs[l].resource => k = l

\* The accounting of accepted inputs has a row for every resource.
LEMMA RowsProperty ==
  ASSUME NEW in_, TypedCatalogs(in_), Derivable(in_)
  PROVE  RowsOK(in_, Rows(in_))
<1> DEFINE seq == in_.resources.records
           s == SortedBy(seq, LAMBDA a, b : Before(a.id, b.id))
           rs == Rows(in_)
<1>1. IsList(seq) /\ Distinct(Identities(seq)) /\ Orders(Range(Identities(seq)))
  BY DEF TypedCatalogs, Derivable, ValidCatalogs, ValidResources
<1>2. PICK p : Rearranged(s, seq, p)
  BY <1>1, SortedResources
<1>3. PICK n \in Nat : DOMAIN seq = 1 .. n
  BY <1>1, ListProperty
<1>4. rs = [k \in DOMAIN s |-> Row(in_, s[k])]
  BY DEF Rows, Field
<1> HIDE DEF s, rs, seq
<1>5. /\ p \in [1 .. n -> 1 .. n]
      /\ \A i, j \in 1 .. n : p[i] = p[j] => i = j
      /\ \A i \in 1 .. n : \E k \in 1 .. n : p[k] = i
      /\ s = [k \in 1 .. n |-> seq[p[k]]]
  BY <1>2, <1>3 DEF Rearranged
<1>6. rs = [k \in 1 .. n |-> Row(in_, seq[p[k]])]
  BY <1>4, <1>5
<1>7. \A k \in 1 .. n : RowOK(in_, seq[p[k]], rs[k]) /\ rs[k].resource = seq[p[k]].id
                        /\ DOMAIN rs[k] = RowFields
  <2>1. TAKE k \in 1 .. n
  <2>2. p[k] \in DOMAIN in_.resources.records
    BY <1>3, <1>5 DEF seq
  <2>3. PICK r : r = in_.resources.records[p[k]]
    OBVIOUS
  <2>4. rs[k] = Row(in_, r)
    BY <1>6, <2>3 DEF seq
  <2>5. RowOK(in_, r, Row(in_, r))
    BY <2>2, <2>3, RowProperty
  <2>6. DOMAIN Row(in_, r) = RowFields
    BY DEF Row, RowFields
  <2>7. Row(in_, r).resource = r.id
    BY <2>5 DEF RowOK
  <2>8. QED
    BY <2>3, <2>4, <2>5, <2>6, <2>7 DEF seq
<1>8. \A i, j \in 1 .. n : seq[i].id = seq[j].id => i = j
  BY <1>1, <1>3 DEF Distinct, Identities, Field
<1>9. IsList(rs) /\ DOMAIN rs = 1 .. n
  <2>1. rs \in [1 .. n -> Range(rs)]
    BY <1>6 DEF Range
  <2>2. QED
    BY <2>1 DEF IsList
<1>10. \A k \in 1 .. n : \E j \in 1 .. n : RowOK(in_, seq[j], rs[k])
  BY <1>5, <1>7
<1>11. \A j \in 1 .. n : \E k \in 1 .. n : rs[k].resource = seq[j].id
  <2>1. TAKE j \in 1 .. n
  <2>2. PICK k \in 1 .. n : p[k] = j
    BY <1>5
  <2>3. rs[k].resource = seq[p[k]].id
    BY <1>7
  <2>4. QED
    BY <2>2, <2>3
<1>12. \A k, l \in 1 .. n : rs[k].resource = rs[l].resource => k = l
  <2>1. TAKE k, l \in 1 .. n
  <2>2. p[k] \in 1 .. n /\ p[l] \in 1 .. n
    BY <1>5
  <2>3. rs[k].resource = seq[p[k]].id /\ rs[l].resource = seq[p[l]].id
    BY <1>7
  <2>4. rs[k].resource = rs[l].resource => p[k] = p[l]
    BY <1>8, <2>2, <2>3
  <2>5. p[k] = p[l] => k = l
    BY <1>5
  <2>6. QED
    BY <2>4, <2>5
<1>13. RowsOK(in_, rs)
  BY <1>3, <1>7, <1>9, <1>10, <1>11, <1>12 DEF RowsOK, seq
<1>14. QED
  BY <1>13 DEF rs

\* What the analysis writes into the rows is not what they account for.
Revised(rs, qs) ==
  /\ DOMAIN qs = DOMAIN rs /\ qs = [k \in DOMAIN rs |-> qs[k]]
  /\ \A k \in DOMAIN rs :
       /\ DOMAIN qs[k] = RowFields /\ qs[k].resource = rs[k].resource
       /\ qs[k].raw = rs[k].raw /\ qs[k].unknown = rs[k].unknown /\ qs[k].reserved = rs[k].reserved
       /\ qs[k].headroom = rs[k].headroom /\ qs[k].degraded = rs[k].degraded
       /\ qs[k].available = rs[k].available
       /\ qs[k].domain = rs[k].domain /\ qs[k].healthy = rs[k].healthy

AvailableFits(rs) == Fits(Field(rs, LAMBDA row : row.available))

\* Rows that are marked are still the rows they were.
LEMMA RevisedProperty ==
  ASSUME NEW in_, NEW rs, NEW qs, RowsOK(in_, rs), Revised(rs, qs)
  PROVE  /\ RowsOK(in_, qs)
         /\ RollUpFits(qs) <=> RollUpFits(rs)
         /\ AvailableFits(qs) <=> AvailableFits(rs)
<1>1. PICK n \in Nat : DOMAIN rs = 1 .. n
  BY ListProperty DEF RowsOK
<1>2. DOMAIN qs = 1 .. n /\ IsList(qs)
  <2>1. DOMAIN qs = 1 .. n
    BY <1>1 DEF Revised
  <2>2. qs \in [1 .. n -> Range(qs)]
    BY <1>1, <2>1 DEF Revised, Range
  <2>3. QED
    BY <2>1, <2>2 DEF IsList
<1>3. \A k \in 1 .. n, j \in DOMAIN in_.resources.records :
        RowOK(in_, in_.resources.records[j], rs[k]) => RowOK(in_, in_.resources.records[j], qs[k])
  BY <1>1 DEF Revised, RowOK
<1>4. RowsOK(in_, qs)
  BY <1>1, <1>2, <1>3 DEF RowsOK, Revised
<1>5. /\ Field(qs, LAMBDA row : row.raw) = Field(rs, LAMBDA row : row.raw)
      /\ Field(qs, LAMBDA row : row.unknown) = Field(rs, LAMBDA row : row.unknown)
      /\ Field(qs, LAMBDA row : row.reserved) = Field(rs, LAMBDA row : row.reserved)
      /\ Field(qs, LAMBDA row : row.headroom) = Field(rs, LAMBDA row : row.headroom)
      /\ Field(qs, LAMBDA row : row.degraded) = Field(rs, LAMBDA row : row.degraded)
      /\ Field(qs, LAMBDA row : row.available) = Field(rs, LAMBDA row : row.available)
  BY DEF Field, Revised
<1>6. QED
  BY <1>4, <1>5 DEF RollUpFits, AvailableFits

\* What an analysis writes.
LEMMA RowsRevised ==
  ASSUME RowsOK(in, rows), BaseSolved \/ Attribute
  PROVE  Revised(rows, rows')
<1>1. \A k \in DOMAIN rows : DOMAIN rows[k] = RowFields
  BY DEF RowsOK
<1>2. rows = [k \in DOMAIN rows |-> rows[k]]
  BY ListProperty DEF RowsOK
<1>3. CASE UNCHANGED rows
  BY <1>1, <1>2, <1>3 DEF Revised
<1>4. CASE \E x : rows' = [i \in DOMAIN rows |-> [rows[i] EXCEPT !.admissible = x[i]]]
  <2>1. PICK x : rows' = [i \in DOMAIN rows |-> [rows[i] EXCEPT !.admissible = x[i]]]
    BY <1>4
  <2>2. QED
    BY <1>1, <2>1 DEF Revised, RowFields
<1>5. CASE BaseSolved /\ ~ UNCHANGED rows
  <2>1. PICK admissible :
          rows' = [i \in DOMAIN rows |-> [rows[i] EXCEPT !.admissible = rows[i].resource \in admissible]]
    BY <1>5 DEF BaseSolved
  <2> DEFINE x == [i \in DOMAIN rows |-> rows[i].resource \in admissible]
  <2>2. rows' = [i \in DOMAIN rows |-> [rows[i] EXCEPT !.admissible = x[i]]]
    BY <2>1
  <2> HIDE DEF x
  <2>3. QED
    BY <1>4, <2>2
<1>6. CASE Attribute /\ ~ UNCHANGED rows
  <2>1. rows' = [i \in DOMAIN rows |-> Witnessed(rows[i], tally.used[i])]
    BY <1>6 DEF Attribute
  <2>2. QED
    BY <1>1, <2>1 DEF Witnessed, Revised, RowFields
<1>7. QED
  BY <1>3, <1>5, <1>6

\* The rows stay what the catalogs make them.
RowsHeld ==
  /\ rows # <<>> \/ at \in {"accounted", "close"} \/ tally # <<>> =>
       in.kind # "predict" /\ TypedCatalogs(in) /\ Derivable(in) /\ RowsOK(in, rows)
  /\ in.kind = "evaluate" /\ (at = "close" \/ tally # <<>>) => RollUpFits(rows)
  /\ at = "close" => in.kind = "evaluate"

\* Every step keeps the rows what the catalogs make them.
LEMMA RowsStep ==
  ASSUME PredictionInv, FormInv, RowsHeld, [Next]_evaluation
  PROVE  RowsHeld'
<1>1. CASE Validate \/ Account \/ Analyse \/ Query \/ Predict \/ Analysed \/ Close
  <2>1. CASE \E shape : Begins(shape)
    BY <2>1 DEF Begins, RowsHeld
  <2>2. CASE ~ \E shape : Begins(shape)
    <3>1. Outside
      BY <1>1, <2>2, OuterSteps
    <3>2. CASE at' = "accounted"
      <4>1. rows' = Rows(in) /\ Derivable(in) /\ in' = in /\ tally' = tally /\ tally = <<>>
            /\ in.kind # "predict"
        BY <3>1, <3>2 DEF Outside
      <4>2. TypedCatalogs(in)
        BY <4>1, ProblemsAssumption DEF PredictionInv, IsProblem
      <4>3. RowsOK(in, rows')
        BY <4>1, <4>2, RowsProperty
      <4>4. QED
        BY <3>2, <4>1, <4>2, <4>3 DEF RowsHeld
    <3>3. CASE at' # "accounted"
      BY <3>1, <3>3 DEF Outside, RowsHeld, FormInv
    <3>4. QED
      BY <3>2, <3>3
  <2>3. QED
    BY <2>1, <2>2
<1>2. CASE AnalysisStep
  <2>1. Keeps
    BY <1>2, AnalysisKeeps
  <2>2. at' # "close" /\ at' # "accounted" /\ tally # <<>> /\ in' = in
    BY <1>2, <2>1 DEF AnalysisStep, SolveBase, SolveScenario, SolveAll, SolveFailed, BaseSolved,
       LoseDomains, ScenarioSolved, RegainDomains, Attribute, PlaceFlow, FlowPlaced, analysis, Fail, Keeps
  <2>3. RowsOK(in, rows)
    BY <2>2 DEF RowsHeld
  <2>4. CASE UNCHANGED rows
    BY <2>2, <2>4 DEF RowsHeld
  <2>5. CASE ~ UNCHANGED rows
    <3>1. BaseSolved \/ Attribute
      BY <1>2, <2>5 DEF AnalysisStep, SolveBase, SolveScenario, SolveAll, SolveFailed, LoseDomains,
         ScenarioSolved, RegainDomains, PlaceFlow, FlowPlaced, analysis
    <3>2. Revised(rows, rows')
      BY <2>3, <3>1, RowsRevised
    <3>3. RowsOK(in, rows') /\ (RollUpFits(rows') <=> RollUpFits(rows))
      BY <2>3, <3>2, RevisedProperty
    <3>4. QED
      BY <2>2, <3>3 DEF RowsHeld
  <2>6. QED
    BY <2>4, <2>5
<1>3. CASE Solving \/ Cancelling \/ UNCHANGED evaluation
  <2>1. UNCHANGED <<in, at, rows, tally>>
    BY <1>3 DEF Solving, Cancelling, evaluation, analysis
  <2>2. QED
    BY <2>1 DEF RowsHeld
<1>4. QED
  BY <1>1, <1>2, <1>3 DEF Next, Evaluate

-----------------------------------------------------------------------------
(* The network of an analysis *)

\* A slot has as many units as its row leaves available, or none.
Capped(in_, c, rs, lost) ==
  \A i \in DOMAIN Slots(in_.topology) :
    IF Slots(in_.topology)[i] \in lost THEN c[2 * i - 1] = 0
    ELSE \E k \in DOMAIN rs : /\ rs[k].resource = Slots(in_.topology)[i]
                              /\ c[2 * i - 1] = rs[k].available

\* Capacities that are set are those of the rows.
LEMMA CappedProperty ==
  ASSUME NEW in_, NEW rs, RowsOK(in_, rs), SlotsOK(in_), NEW n \in Nat,
         Len(Slots(in_.topology)) <= n, NEW lost
  PROVE  Capped(in_, Capacities(in_.topology, rs, 2 * n, lost), rs, lost)
<1> DEFINE slots == Slots(in_.topology)
           c == Capacities(in_.topology, rs, 2 * n, lost)
<1>1. PICK m \in Nat : m = Len(slots) /\ DOMAIN slots = 1 .. m /\ m <= n
  BY ListProperty DEF SlotsOK
<1>2. ASSUME NEW i \in 1 .. m
      PROVE  c[2 * i - 1] = IF slots[i] \in lost THEN 0 ELSE RowOf(rs, slots[i]).available
  <2>1. PICK a : a = 2 * i - 1
    OBVIOUS
  <2>2. a \in 1 .. 2 * n /\ a % 2 # 0 /\ (a + 1) \div 2 = i
    BY <1>1, <2>1
  <2>3. i \in Int /\ m \in Int /\ ~ i > m
    BY <1>1
  <2>4. c[a] = IF slots[i] \in lost THEN 0 ELSE RowOf(rs, slots[i]).available
    BY <1>1, <2>2, <2>3 DEF Capacities
  <2>5. QED
    BY <2>1, <2>4
<1>3. ASSUME NEW i \in 1 .. m
      PROVE  \E k \in DOMAIN rs : rs[k].resource = slots[i] /\ RowOf(rs, slots[i]) = rs[k]
  <2>1. \E j \in DOMAIN in_.resources.records : in_.resources.records[j].id = slots[i]
    BY <1>1 DEF SlotsOK
  <2>2. \E k \in DOMAIN rs : rs[k].resource = slots[i]
    BY <2>1 DEF RowsOK
  <2>3. QED
    BY <2>2 DEF RowOf
<1> HIDE DEF c
<1>4. \A i \in 1 .. m : IF slots[i] \in lost THEN c[2 * i - 1] = 0
                        ELSE \E k \in DOMAIN rs : rs[k].resource = slots[i] /\ c[2 * i - 1] = rs[k].available
  BY <1>2, <1>3
<1>5. Capped(in_, c, rs, lost)
  BY <1>1, <1>4 DEF Capped
<1>6. QED
  BY <1>5 DEF c

\* Marking rows does not disturb them.
LEMMA CappedRevised ==
  ASSUME NEW in_, NEW rs, NEW qs, Revised(rs, qs), NEW c, NEW lost, Capped(in_, c, rs, lost)
  PROVE  Capped(in_, c, qs, lost)
BY DEF Revised, Capped

\* The flows that are placed, and their grain.
FlowsOK(in_, flows, granularity) ==
  /\ IsList(flows) /\ granularity \in Nat
  /\ \A i \in DOMAIN flows : flows[i].magnitude \in Nat /\ flows[i].magnitude <= in_.limits.capacity

\* Flows in order of their placing are a list.
LEMMA ArrangedIsList ==
  ASSUME NEW seq, IsList(seq), NEW s, NEW p, Rearranged(s, seq, p)
  PROVE  IsList(s) /\ DOMAIN s = DOMAIN seq /\ \A k \in DOMAIN s : s[k] = seq[p[k]] /\ p[k] \in DOMAIN seq
<1>1. PICK n \in Nat : DOMAIN seq = 1 .. n
  BY ListProperty
<1>2. /\ s = [k \in 1 .. n |-> seq[p[k]]]
      /\ \A k \in 1 .. n : p[k] \in 1 .. n
  BY <1>1 DEF Rearranged
<1>3. s \in [1 .. n -> Range(s)]
  BY <1>2 DEF Range
<1>4. IsList(s)
  BY <1>3 DEF IsList
<1>5. QED
  BY <1>1, <1>2, <1>4

\* The flows an analysis begins with.
LEMMA BegunFlows ==
  ASSUME PredictionInv, NEW shape, Begins(shape)
  PROVE  /\ FlowsOK(in, Ordered(shape), shape.granularity)
         /\ \E p : Rearranged(Ordered(shape), shape.flows, p)
<1>1. /\ IsList(shape.flows) /\ Distinct(Identities(shape.flows))
      /\ Orders(Range(Identities(shape.flows)))
      /\ \A i \in DOMAIN shape.flows : shape.flows[i].priority \in Nat /\ shape.flows[i].magnitude \in Nat
      /\ \A i \in DOMAIN shape.flows : shape.flows[i].magnitude <= in.limits.capacity
      /\ shape.granularity \in Nat
  <2>1. IsProblem(in) /\ IsList(shape.flows)
    BY ProblemsAssumption DEF PredictionInv, Begins
  <2>2. CASE in.kind = "evaluate"
    <3>1. shape = in.shape /\ shape # None /\ Accepted(in)
      BY <2>2 DEF Begins
    <3>2. TypedShape(shape)
      BY <2>1, <2>2, <3>1 DEF IsProblem
    <3>3. ValidShape(shape, in.resources, in.limits)
      BY <3>1 DEF Accepted, Consistent
    <3>4. U64 \subseteq Nat
      BY CheckedAssumption DEF U64
    <3>5. Distinct(Identities(shape.flows))
          /\ \A i \in DOMAIN shape.flows : shape.flows[i].magnitude <= in.limits.capacity
      BY <3>3 DEF ValidShape
    <3>6. QED
      BY <3>2, <3>4, <3>5 DEF TypedShape
  <2>3. CASE in.kind = "fit"
    <3>1. shape = QueryShape(in.query) /\ AcceptedQuery(in.query)
      BY <2>3 DEF Begins
    <3>2. Orders(QueryIdentities) /\ in.query.magnitude \in Nat /\ in.query.granularity \in Nat
      BY <2>1, <2>3, CheckedAssumption DEF IsProblem, U64
    <3>3. PICK f : /\ shape.flows = <<f>> /\ f.id = "fit-flow" /\ f.magnitude = in.query.magnitude
                   /\ f.priority = 0 /\ shape.granularity = in.query.granularity
      BY <3>1 DEF QueryShape
    <3>4. Identities(shape.flows) = <<"fit-flow">>
      BY <3>3 DEF Identities, Field
    <3>5. Range(Identities(shape.flows)) = QueryIdentities
      BY <3>4 DEF Range, QueryIdentities
    <3>6. Distinct(Identities(shape.flows))
      BY <3>4 DEF Distinct
    <3>7. QED
      BY <2>1, <3>1, <3>2, <3>3, <3>5, <3>6 DEF AcceptedQuery
  <2>4. QED
    BY <2>2, <2>3 DEF Begins
<1>2. PICK p : Rearranged(Ordered(shape), shape.flows, p)
  BY <1>1, SortedFlows
<1>3. PICK s : s = Ordered(shape)
  OBVIOUS
<1>4. IsList(s) /\ \A k \in DOMAIN s : s[k] = shape.flows[p[k]] /\ p[k] \in DOMAIN shape.flows
  BY <1>1, <1>2, <1>3, ArrangedIsList
<1>5. QED
  BY <1>1, <1>2, <1>3, <1>4 DEF FlowsOK

-----------------------------------------------------------------------------
(* The network keeps the form it was assembled in, and its slots what their *)
(* rows leave available.                                                   *)

NetHeld ==
  /\ tally = <<>> => net = NoNetwork
  /\ tally # <<>> =>
       /\ AvailableFits(rows)
       /\ net = Assemble(in.topology, tally.flows)
       /\ FlowsOK(in, tally.flows, tally.granularity)
       /\ \E lost : Capped(in, cap, rows, lost) /\ (at = "lost" => lost = Head(tally.scenarios))

\* What the network has for its arcs.
LEMMA NetArcs ==
  ASSUME NEW t, NEW flows, EndsOK(t, flows)
  PROVE  \E n \in Nat : n = Len(Ends(t, flows)) /\ Len(Assemble(t, flows).tail) = 2 * n
<1>1. PICK n : n = Len(Ends(t, flows))
  OBVIOUS
<1>2. n \in Nat
  BY <1>1, ListProperty DEF EndsOK
<1>3. Assemble(t, flows).tail
        = [a \in 1 .. 2 * n |-> Paired(Ends(t, flows))[a][IF a % 2 = 1 THEN 1 ELSE 2]]
  BY <1>1 DEF Assemble, NetworkOf
<1>4. 2 * n \in Nat
  BY <1>2
<1>5. Len(Assemble(t, flows).tail) = 2 * n
  BY <1>3, <1>4
<1>6. QED
  BY <1>1, <1>2, <1>5

\* What the rows of an analysis say of its slots and arcs.
LEMMA HeldFacts ==
  ASSUME RowsHeld, NEW flows, IsList(flows), rows # <<>> \/ at = "accounted" \/ tally # <<>>
  PROVE  SlotsOK(in) /\ EndsOK(in.topology, flows) /\ RowsOK(in, rows)
<1>1. TypedCatalogs(in) /\ Derivable(in) /\ RowsOK(in, rows)
  BY DEF RowsHeld
<1>2. SlotsOK(in)
  BY <1>1, SlotsProperty
<1>3. IsList(in.topology.nodes) /\ IsList(in.topology.edges) /\ IsList(Slots(in.topology))
  BY <1>1, <1>2 DEF TypedCatalogs, SlotsOK
<1>4. EndsOK(in.topology, flows)
  BY <1>3, EndsProperty
<1>5. QED
  BY <1>1, <1>2, <1>4

\* The network an analysis begins with.
LEMMA NetBegins ==
  ASSUME PredictionInv, RowsHeld, NEW shape, Begins(shape)
  PROVE  NetHeld'
<1>1. PICK flows : flows = Ordered(shape) /\ FlowsOK(in, flows, shape.granularity)
  BY BegunFlows
<1>2. tally'.flows = flows /\ tally'.granularity = shape.granularity /\ tally' # <<>>
  BY <1>1, BeginForm DEF Begins, FreshTally
<1>3. SlotsOK(in) /\ EndsOK(in.topology, flows) /\ RowsOK(in, rows)
  BY <1>1, HeldFacts DEF FlowsOK, Begins
<1>4. PICK n \in Nat : n = Len(Ends(in.topology, flows))
  BY <1>3, NetArcs
<1>5. Len(Slots(in.topology)) <= n
  BY <1>3, <1>4 DEF EndsOK
<1>6. Capped(in, Capacities(in.topology, rows, 2 * n, {}), rows, {})
  BY <1>3, <1>5, CappedProperty
<1>7. cap' = Capacities(in.topology, rows, 2 * n, {}) /\ in' = in /\ rows' = rows /\ at' = "base"
      /\ net' = Assemble(in.topology, flows)
  BY <1>1, <1>4 DEF Begins
<1>8. AvailableFits(rows)
  BY DEF Begins, Assemblable, AvailableFits
<1>9. AvailableFits(rows')
  BY <1>7, <1>8
<1>10. Capped(in', cap', rows', {})
  BY <1>6, <1>7
<1>11. FlowsOK(in', tally'.flows, tally'.granularity) /\ net' = Assemble(in'.topology, tally'.flows)
  BY <1>1, <1>2, <1>7
<1>12. QED
  BY <1>2, <1>7, <1>9, <1>10, <1>11 DEF NetHeld

\* Its steps keep the network, and give slots what their rows leave available.
LEMMA NetAnalysed ==
  ASSUME FormInv, RowsHeld, NetHeld, AnalysisStep
  PROVE  NetHeld'
<1>1. Keeps
  BY AnalysisKeeps
<1>2. tally # <<>> /\ tally' # <<>> /\ tally'.flows = tally.flows
      /\ tally'.granularity = tally.granularity /\ in' = in
  BY <1>1 DEF Keeps
<1>3. PICK flows : flows = tally.flows /\ IsList(flows)
  BY <1>2 DEF NetHeld, FlowsOK
<1>4. SlotsOK(in) /\ EndsOK(in.topology, flows) /\ RowsOK(in, rows)
  BY <1>2, <1>3, HeldFacts
<1>5. PICK n \in Nat : n = Len(Ends(in.topology, flows)) /\ Len(net.tail) = 2 * n
  BY <1>2, <1>3, <1>4, NetArcs DEF NetHeld
<1>6. Len(Slots(in.topology)) <= n
  BY <1>4, <1>5 DEF EndsOK
<1>7. \A lost : Capped(in, Capacities(in.topology, rows, Len(net.tail), lost), rows, lost)
  BY <1>4, <1>5, <1>6, CappedProperty
<1>8. net' = net
  BY DEF AnalysisStep, SolveBase, SolveScenario, SolveAll, SolveFailed, BaseSolved, LoseDomains,
         ScenarioSolved, RegainDomains, Attribute, PlaceFlow, FlowPlaced, Solve, Answered, Reset, Raise,
         flowVars
<1>9. ASSUME NEW lost, Capped(in, cap', rows, lost), at' = "lost" => lost = Head(tally'.scenarios)
      PROVE  NetHeld'
  <2>1. Revised(rows, rows') \/ UNCHANGED rows
    <3>1. CASE BaseSolved \/ Attribute
      BY <1>4, <3>1, RowsRevised
    <3>2. CASE ~ (BaseSolved \/ Attribute)
      BY <3>2 DEF AnalysisStep, SolveBase, SolveScenario, SolveAll, SolveFailed, LoseDomains,
         ScenarioSolved, RegainDomains, PlaceFlow, FlowPlaced, analysis
    <3>3. QED
      BY <3>1, <3>2
  <2>2. Capped(in', cap', rows', lost)
    BY <1>2, <1>9, <2>1, CappedRevised
  <2>3. AvailableFits(rows')
    <3>1. AvailableFits(rows)
      BY <1>2 DEF NetHeld
    <3>2. CASE UNCHANGED rows
      BY <3>1, <3>2
    <3>3. CASE Revised(rows, rows')
      BY <1>4, <3>1, <3>3, RevisedProperty
    <3>4. QED
      BY <2>1, <3>2, <3>3
  <2>4. net' = Assemble(in'.topology, tally'.flows) /\ FlowsOK(in', tally'.flows, tally'.granularity)
    BY <1>2, <1>8 DEF NetHeld
  <2>5. QED
    BY <1>2, <1>9, <2>2, <2>3, <2>4 DEF NetHeld
<1>10. PICK lost : Capped(in, cap, rows, lost) /\ (at = "lost" => lost = Head(tally.scenarios))
  BY <1>2 DEF NetHeld
<1>11. CASE cap' = cap /\ (at' = "lost" => at = "lost" /\ tally' = tally)
  BY <1>9, <1>10, <1>11
<1>12. CASE LoseDomains
  <2>1. CASE UNCHANGED flowVars /\ at' = "done"
    BY <1>11, <2>1 DEF flowVars
  <2>2. CASE ~ (UNCHANGED flowVars /\ at' = "done")
    <3>1. cap' = Capacities(in.topology, rows, Len(net.tail), Head(tally.scenarios)) /\ tally' = tally
      BY <1>12, <2>2 DEF LoseDomains, Fail, Reset
    <3>2. QED
      BY <1>7, <1>9, <3>1
  <2>3. QED
    BY <2>1, <2>2
<1>13. CASE RegainDomains
  <2>1. cap' = Capacities(in.topology, rows, Len(net.tail), {}) /\ at' = "scenarios"
    BY <1>13 DEF RegainDomains, Raise
  <2>2. QED
    BY <1>7, <1>9, <2>1
<1>14. CASE ~ (LoseDomains \/ RegainDomains)
  <2>1. cap' = cap
    BY <1>14 DEF AnalysisStep, SolveBase, SolveScenario, SolveAll, SolveFailed, BaseSolved,
         ScenarioSolved, Attribute, PlaceFlow, FlowPlaced, Solve, Answered, Reset, flowVars
  <2>2. at' = "lost" => at = "lost" /\ tally' = tally
    BY <1>14 DEF AnalysisStep, SolveBase, SolveScenario, SolveAll, SolveFailed, BaseSolved,
         ScenarioSolved, Attribute, PlaceFlow, FlowPlaced, Fail, analysis
  <2>3. QED
    BY <1>11, <2>1, <2>2
<1>15. QED
  BY <1>12, <1>13, <1>14

\* Every step keeps the network of the analysis.
LEMMA NetStep ==
  ASSUME PredictionInv, FormInv, RowsHeld, NetHeld, [Next]_evaluation
  PROVE  NetHeld'
<1>1. CASE Validate \/ Account \/ Analyse \/ Query \/ Predict \/ Analysed \/ Close
  <2>1. CASE \E shape : Begins(shape)
    BY <2>1, NetBegins
  <2>2. CASE ~ \E shape : Begins(shape)
    <3>1. Outside
      BY <1>1, <2>2, OuterSteps
    <3>2. tally' = tally /\ net' = net /\ cap' = cap /\ in' = in /\ at' # "lost"
          /\ (tally # <<>> => rows' = rows)
      BY <3>1 DEF Outside, flowVars
    <3>3. CASE tally = <<>>
      BY <3>2, <3>3 DEF NetHeld
    <3>4. CASE tally # <<>>
      <4>1. PICK lost : Capped(in, cap, rows, lost)
        BY <3>4 DEF NetHeld
      <4>2. Capped(in', cap', rows', lost) /\ AvailableFits(rows')
        BY <3>2, <3>4, <4>1 DEF NetHeld
      <4>3. QED
        BY <3>2, <3>4, <4>2 DEF NetHeld
    <3>5. QED
      BY <3>3, <3>4
  <2>3. QED
    BY <2>1, <2>2
<1>2. CASE AnalysisStep
  BY <1>2, NetAnalysed
<1>3. CASE Solving \/ Cancelling \/ UNCHANGED evaluation
  <2>1. UNCHANGED <<in, at, rows, tally>>
    BY <1>3 DEF Solving, Cancelling, evaluation, analysis
  <2>2. UNCHANGED <<net, cap>>
    BY <1>3 DEF Solving, Cancelling, Cancel, evaluation, flowVars, Step, Scan, Levelled, Advance,
         Retreat, Augment, LimitReached, Finish
  <2>3. QED
    BY <2>1, <2>2 DEF NetHeld
<1>4. QED
  BY <1>1, <1>2, <1>3 DEF Next, Evaluate

\* What the accounting and the network keep, beside what an evaluation does.
EngineInv == EvaluationInv /\ RowsHeld /\ NetHeld

\* In every reachable evaluation rows are what the catalogs make them and
\* the network is what rows make it (derive_accounting, add_arc and
\* set_arc_capacity, from one solve to the next).
THEOREM EngineInvariant == Spec => []EngineInv
<1>1. Init => RowsHeld /\ NetHeld
  BY DEF Init, FlowInit, RowsHeld, NetHeld
<1>2. EvaluationInv /\ RowsHeld /\ NetHeld /\ [Next]_evaluation => RowsHeld' /\ NetHeld'
  BY RowsStep, NetStep DEF EvaluationInv
<1>3. QED
  BY <1>1, <1>2, EvaluationInvariant, PTL DEF Spec, EngineInv

\* The arc of a slot, and what it carries.
LEMMA SlotProperty ==
  ASSUME EngineInv, tally # <<>>, NEW r \in Range(in.resources.records),
         r.id \in SlotSet, ArcFlow(SlotArc(in.topology, r.id)) > 0
  PROVE  \E w \in Range(rows) :
           /\ RowOK(in, r, w) /\ cap[SlotArc(in.topology, r.id)] = w.available
           /\ ArcFlow(SlotArc(in.topology, r.id)) \in 1 .. w.available
           /\ at = "lost" => r.id \notin Head(tally.scenarios)
<1> DEFINE slots == Slots(in.topology)
<1>1. /\ SlotsOK(in) /\ EndsOK(in.topology, tally.flows) /\ RowsOK(in, rows) /\ Derivable(in)
      /\ net = Assemble(in.topology, tally.flows)
  <2>1. RowsHeld /\ NetHeld
    BY DEF EngineInv
  <2>2. IsList(tally.flows)
    BY <2>1 DEF NetHeld, FlowsOK
  <2>3. QED
    BY <2>1, <2>2, HeldFacts DEF NetHeld, RowsHeld
<1>2. PICK n \in Nat : n = Len(Ends(in.topology, tally.flows)) /\ Len(net.tail) = 2 * n
  BY <1>1, NetArcs
<1>3. PICK m \in Nat : DOMAIN slots = 1 .. m /\ m <= n
  BY <1>1, <1>2, ListProperty DEF SlotsOK, EndsOK
<1>4. PICK i \in DOMAIN slots : slots[i] = r.id /\ SlotArc(in.topology, r.id) = 2 * i - 1
  <2>1. \E i \in DOMAIN slots : slots[i] = r.id
    BY DEF SlotSet, Range
  <2>2. QED
    BY <2>1 DEF SlotArc
<1>5. PICK a : a = 2 * i - 1 /\ a = SlotArc(in.topology, r.id)
  BY <1>4
<1>6. NetworkOK /\ FlowIsFeasible
  BY DEF EngineInv, EvaluationInv, SolverInv
<1>7. a \in Arcs(net)
  <2>1. Arcs(net) = 1 .. 2 * n
    <3>1. net.tail \in Seq(net.nodes)
      BY <1>6 DEF NetworkOK, IsNetwork
    <3>2. QED
      BY <1>2, <3>1 DEF Arcs
  <2>2. i \in 1 .. m
    BY <1>3
  <2>3. a \in 1 .. 2 * n
    BY <1>3, <1>5, <2>2
  <2>4. QED
    BY <2>1, <2>3
<1>8. flow[a] \in Int /\ flow[a] <= cap[a] /\ ArcFlow(a) > 0 /\ cap[a] \in Nat
  BY <1>5, <1>6, <1>7, CheckedAssumption DEF NetworkOK, FlowIsFeasible, Capacitated
<1>9. ArcFlow(a) = flow[a] /\ flow[a] \in 1 .. cap[a]
  BY <1>8 DEF ArcFlow
<1>10. PICK lost : Capped(in, cap, rows, lost) /\ (at = "lost" => lost = Head(tally.scenarios))
  BY DEF EngineInv, NetHeld
<1>11. IF slots[i] \in lost THEN cap[a] = 0
       ELSE \E k \in DOMAIN rows : rows[k].resource = slots[i] /\ cap[a] = rows[k].available
  BY <1>5, <1>10 DEF Capped
<1>12. slots[i] \notin lost
  BY <1>9, <1>11
<1>13. PICK k \in DOMAIN rows : rows[k].resource = r.id /\ cap[a] = rows[k].available
  BY <1>4, <1>11, <1>12
<1>14. PICK j \in DOMAIN in.resources.records : RowOK(in, in.resources.records[j], rows[k])
  BY <1>1, <1>13 DEF RowsOK
<1>15. in.resources.records[j] = r
  <2>1. PICK l \in DOMAIN in.resources.records : r = in.resources.records[l]
    BY DEF Range
  <2>2. in.resources.records[j].id = in.resources.records[l].id
    BY <1>13, <1>14, <2>1 DEF RowOK
  <2>3. Distinct(Identities(in.resources.records))
    BY <1>1 DEF Derivable, ValidCatalogs, ValidResources
  <2>4. j = l
    BY <2>2, <2>3 DEF Distinct, Identities, Field
  <2>5. QED
    BY <2>1, <2>4
<1>16. rows[k] \in Range(rows)
  BY DEF Range
<1>17. QED
  BY <1>4, <1>5, <1>9, <1>10, <1>12, <1>13, <1>14, <1>15, <1>16

\* What flows over a resource is there, whatever is reserved of it, lost of it
\* and protected.
THEOREM PromisesAreBacked == Spec => []PromisedUnitsExist
<1>1. EngineInv => PromisedUnitsExist
  <2>1. SUFFICES ASSUME EngineInv, net # NoNetwork, NEW r \in Range(in.resources.records),
                        r.id \in SlotSet, ArcFlow(SlotArc(in.topology, r.id)) > 0
                 PROVE  /\ r.authoritative /\ r.present
                        /\ r.domain # None => Find(in.domains.records, r.domain).healthy
                        /\ at = "lost" => cap[SlotArc(in.topology, r.id)] # 0
                        /\ at = "lost" => r.id \notin Head(tally.scenarios)
                        /\ ArcFlow(SlotArc(in.topology, r.id)) + in.policy.headroom
                             + AmountOn(in, r) + LostOn(in, r) <= r.reported
    BY DEF PromisedUnitsExist, AmountOn, LostOn
  <2>2. tally # <<>>
    BY <2>1 DEF EngineInv, NetHeld
  <2>3. PICK f : f = ArcFlow(SlotArc(in.topology, r.id))
    OBVIOUS
  <2>4. PICK w \in Range(rows) :
           /\ RowOK(in, r, w) /\ cap[SlotArc(in.topology, r.id)] = w.available
           /\ f \in 1 .. w.available
           /\ at = "lost" => r.id \notin Head(tally.scenarios)
    BY <2>1, <2>2, <2>3, SlotProperty
  <2>5. w.available \in Nat /\ w.available > 0
    BY <2>4 DEF RowOK
  <2>6. /\ r.authoritative /\ r.present
        /\ r.domain # None => Find(in.domains.records, r.domain).healthy
        /\ AmountOn(in, r) \in Nat /\ LostOn(in, r) \in Nat /\ in.policy.headroom \in Nat
        /\ r.reported \in Nat
        /\ w.available + in.policy.headroom + AmountOn(in, r) + LostOn(in, r) <= r.reported
    BY <2>4, <2>5 DEF RowOK
  <2>7. f + in.policy.headroom + AmountOn(in, r) + LostOn(in, r) <= r.reported
    BY <2>4, <2>5, <2>6
  <2>8. QED
    BY <2>3, <2>4, <2>5, <2>6, <2>7
<1>2. QED
  BY <1>1, EngineInvariant, PTL

-----------------------------------------------------------------------------
(* Types *)

Statuses == {"none", "ok", "rejected", "cancelled", "exhausted", "contradictory"}

\* There is an answer when the evaluation is done, and not before.
AnswerInv ==
  /\ answer.status \in Statuses /\ (at = "done" <=> answer.status # "none")
  /\ cancelled \in BOOLEAN

AnswerStays == UNCHANGED answer /\ at # "done" /\ at' # "done"
AnswerGiven == at # "done" /\ at' = "done" /\ answer'.status \in Statuses \ {"none"}

\* A step leaves the answer alone or gives one.
LEMMA AnswerChanges ==
  ASSUME SolverInv, FormInv, [Next]_evaluation
  PROVE  /\ AnswerStays \/ AnswerGiven \/ UNCHANGED <<answer, at>>
         /\ cancelled' = cancelled \/ cancelled' = TRUE
<1> USE DEF AnswerStays, AnswerGiven, Statuses
<1>1. CASE Validate \/ Account
  BY <1>1 DEF Validate, Account, Fail, flowVars
<1>2. ASSUME NEW shape, NEW resilience, NEW single, BeginAnalysis(shape, resilience, single), at = "accounted"
      PROVE  (AnswerStays \/ AnswerGiven) /\ cancelled' = cancelled
  BY <1>2 DEF BeginAnalysis, Fail, Build, flowVars
<1>3. CASE Analyse
  <2>1. CASE BeginAnalysis(in.shape, in.policy.resilience, in.policy.singleSlice)
    BY <1>2, <1>3, <2>1 DEF Analyse
  <2>2. CASE ~ BeginAnalysis(in.shape, in.policy.resilience, in.policy.singleSlice)
    BY <1>3, <2>2 DEF Analyse, Fail, flowVars
  <2>3. QED
    BY <2>1, <2>2
<1>4. CASE Query
  <2>1. CASE ~ AcceptedQuery(in.query)
    BY <1>4, <2>1 DEF Query, Fail, flowVars
  <2>2. CASE AcceptedQuery(in.query)
    <3>1. BeginAnalysis(QueryShape(in.query), in.query.resilience, FALSE) /\ at = "accounted"
      BY <1>4, <2>2 DEF Query
    <3>2. QED
      BY <1>2, <3>1
  <2>3. QED
    BY <2>1, <2>2
<1>5. CASE Predict
  <2>1. ASSUME NEW a \in Predictions(in.request, in.now, in.limits) PROVE a.status \in {"ok", "rejected"}
    <3>1. ASSUME NEW entries, NEW limits PROVE Totalled(entries, limits).status \in {"ok", "rejected"}
      BY DEF Totalled
    <3>2. a = [status |-> "rejected"] \/ \E entries : a = Totalled(entries, in.limits)
      BY DEF Predictions
    <3>3. QED
      BY <3>1, <3>2
  <2>2. QED
    BY <1>5, <2>1 DEF Predict, flowVars
<1>6. CASE Analysed \/ Close
  BY <1>6 DEF Analysed, AllPlaced, Close, Fail, QueryAnswer, flowVars
<1>7. CASE AnalysisStep
  <2>1. CASE SolveBase \/ SolveScenario
    BY <2>1 DEF SolveBase, SolveScenario, SolveAll, Solve, analysis
  <2>2. CASE SolveFailed
    <3>1. solver \in {"exhausted", "cancelled"} /\ at' = "done" /\ answer' = [status |-> solver]
          /\ cancelled' = cancelled
      BY <2>2 DEF SolveFailed, Fail, Answered
    <3>2. at # "done"
      BY <3>1 DEF FormInv
    <3>3. QED
      BY <3>1, <3>2
  <2>3. CASE BaseSolved \/ LoseDomains \/ ScenarioSolved
    BY <2>3 DEF BaseSolved, LoseDomains, ScenarioSolved, Fail, Answered, Reset, flowVars
  <2>4. CASE RegainDomains \/ Attribute \/ PlaceFlow \/ FlowPlaced
    BY <2>4 DEF RegainDomains, Attribute, PlaceFlow, FlowPlaced, Fail, Answered, Reset, Raise, Solve, flowVars
  <2>5. QED
    BY <1>7, <2>1, <2>2, <2>3, <2>4 DEF AnalysisStep
<1>8. CASE Solving
  BY <1>8 DEF Solving, analysis, Step, Scan, Levelled, Advance, Retreat, Augment, LimitReached, Finish
<1>9. CASE Cancelling \/ UNCHANGED evaluation
  BY <1>9 DEF Cancelling, Cancel, evaluation, analysis, flowVars
<1>10. QED
  BY <1>1, <1>3, <1>4, <1>5, <1>6, <1>7, <1>8, <1>9 DEF Next, Evaluate

\* Every step keeps the answer what it can be.
LEMMA AnswerStep ==
  ASSUME SolverInv, FormInv, AnswerInv, [Next]_evaluation
  PROVE  AnswerInv'
<1>1. AnswerStays \/ AnswerGiven \/ UNCHANGED <<answer, at>>
  BY AnswerChanges
<1>2. cancelled' \in BOOLEAN
  BY AnswerChanges DEF AnswerInv
<1>3. QED
  BY <1>1, <1>2 DEF AnswerStays, AnswerGiven, AnswerInv

\* The members of a list are finitely many.
LEMMA RangeFinite ==
  ASSUME NEW s, IsList(s)
  PROVE  IsFiniteSet(Range(s))
<1>1. PICK n \in Nat : DOMAIN s = 1 .. n
  BY ListProperty
<1>2. PICK D : D = DOMAIN s
  OBVIOUS
<1>3. IsFiniteSet(D)
  <2>1. 1 \in Int /\ n \in Int
    OBVIOUS
  <2>2. QED
    BY <1>1, <1>2, <2>1, FS_Interval
<1>4. {s[i] : i \in D} = Range(s)
  BY <1>2 DEF Range
<1>5. s \in Surjection(D, Range(s))
  <2>1. s \in [D -> Range(s)]
    BY <1>2, ListProperty DEF Range
  <2>2. QED
    BY <1>2, <2>1 DEF Surjection, Range
<1>6. QED
  BY <1>3, <1>5, FS_Surjection

\* The nodes of an assembled network are finitely many.
LEMMA VerticesFinite ==
  ASSUME NEW t, IsList(t.nodes), IsList(Slots(t))
  PROVE  IsFiniteSet(Vertices(t))
<1> DEFINE ids == Identities(t.nodes)
           A == Names(t)
           B == Range(Slots(t))
<1>1. IsFiniteSet(A)
  <2>1. PICK n \in Nat : DOMAIN t.nodes = 1 .. n
    BY ListProperty
  <2>2. ids = [i \in 1 .. n |-> t.nodes[i].id]
    BY <2>1 DEF Identities, Field
  <2> HIDE DEF ids
  <2>3. ids \in [1 .. n -> Range(ids)]
    BY <2>2 DEF Range
  <2>4. IsList(ids)
    BY <2>3 DEF IsList
  <2>5. IsFiniteSet(Range(ids))
    BY <2>4, RangeFinite
  <2>6. QED
    BY <2>5 DEF Names, ids
<1>2. IsFiniteSet(B)
  BY RangeFinite
<1> HIDE DEF A, B
<1>3. IsFiniteSet({In(v) : v \in A})
  <2>1. PICK R : R = {In(v) : v \in A}
    OBVIOUS
  <2>2. PICK f : f \in [A -> R] /\ \A y \in R : \E x \in A : f[x] = y
    <3>1. [v \in A |-> In(v)] \in [A -> R]
      BY <2>1
    <3>2. \A y \in R : \E x \in A : [v \in A |-> In(v)][x] = y
      BY <2>1
    <3>3. QED
      BY <3>1, <3>2
  <2>3. IsFiniteSet(R)
    BY <1>1, <2>2, ImageFinite
  <2>4. QED
    BY <2>1, <2>3
<1>4. IsFiniteSet({Out_(v) : v \in A})
  <2>1. PICK R : R = {Out_(v) : v \in A}
    OBVIOUS
  <2>2. PICK f : f \in [A -> R] /\ \A y \in R : \E x \in A : f[x] = y
    <3>1. [v \in A |-> Out_(v)] \in [A -> R]
      BY <2>1
    <3>2. \A y \in R : \E x \in A : [v \in A |-> Out_(v)][x] = y
      BY <2>1
    <3>3. QED
      BY <3>1, <3>2
  <2>3. IsFiniteSet(R)
    BY <1>1, <2>2, ImageFinite
  <2>4. QED
    BY <2>1, <2>3
<1>5. IsFiniteSet({SlotIn(v) : v \in B})
  <2>1. PICK R : R = {SlotIn(v) : v \in B}
    OBVIOUS
  <2>2. PICK f : f \in [B -> R] /\ \A y \in R : \E x \in B : f[x] = y
    <3>1. [v \in B |-> SlotIn(v)] \in [B -> R]
      BY <2>1
    <3>2. \A y \in R : \E x \in B : [v \in B |-> SlotIn(v)][x] = y
      BY <2>1
    <3>3. QED
      BY <3>1, <3>2
  <2>3. IsFiniteSet(R)
    BY <1>2, <2>2, ImageFinite
  <2>4. QED
    BY <2>1, <2>3
<1>6. IsFiniteSet({SlotOut(v) : v \in B})
  <2>1. PICK R : R = {SlotOut(v) : v \in B}
    OBVIOUS
  <2>2. PICK f : f \in [B -> R] /\ \A y \in R : \E x \in B : f[x] = y
    <3>1. [v \in B |-> SlotOut(v)] \in [B -> R]
      BY <2>1
    <3>2. \A y \in R : \E x \in B : [v \in B |-> SlotOut(v)][x] = y
      BY <2>1
    <3>3. QED
      BY <3>1, <3>2
  <2>3. IsFiniteSet(R)
    BY <1>2, <2>2, ImageFinite
  <2>4. QED
    BY <2>1, <2>3
<1>7. IsFiniteSet({SuperSource, SuperSink})
  <2>1. IsFiniteSet({SuperSource}) /\ IsFiniteSet({SuperSink})
    BY FS_Singleton
  <2>2. IsFiniteSet({SuperSource} \cup {SuperSink})
    BY <2>1, FS_Union
  <2>3. QED
    BY <2>2
<1>8. QED
  <2>1. PICK P, Q, R, S, T : /\ P = {In(v) : v \in A} /\ Q = {Out_(v) : v \in A}
                             /\ R = {SlotIn(v) : v \in B} /\ S = {SlotOut(v) : v \in B}
                             /\ T = {SuperSource, SuperSink}
    OBVIOUS
  <2>2. IsFiniteSet((((P \cup Q) \cup R) \cup S) \cup T)
    BY <1>3, <1>4, <1>5, <1>6, <1>7, <2>1, FS_Union
  <2>3. Vertices(t) = (((P \cup Q) \cup R) \cup S) \cup T
    BY <2>1 DEF Vertices, A, B
  <2>4. QED
    BY <2>2, <2>3

\* The nodes of the network are finitely many.
LEMMA NodesFinite ==
  ASSUME EngineInv
  PROVE  IsFiniteSet(net.nodes)
<1>1. CASE tally = <<>>
  <2>1. net.nodes = {}
    BY <1>1 DEF EngineInv, NetHeld, NoNetwork
  <2>2. QED
    BY <2>1, FS_EmptySet
<1>2. CASE tally # <<>>
  <2>1. net = Assemble(in.topology, tally.flows) /\ IsList(tally.flows) /\ RowsHeld
    BY <1>2 DEF EngineInv, NetHeld, FlowsOK
  <2>2. SlotsOK(in) /\ TypedCatalogs(in)
    BY <1>2, <2>1, HeldFacts DEF RowsHeld
  <2>3. net.nodes = Vertices(in.topology)
    BY <2>1 DEF Assemble, NetworkOf
  <2>4. QED
    BY <2>2, <2>3, VerticesFinite DEF TypedCatalogs, SlotsOK
<1>3. QED
  BY <1>1, <1>2

\* Every variable of an evaluation has its type.
THEOREM EvaluationsAreTyped == Spec => []TypeOK
<1>1. Init => AnswerInv /\ LevelInv
  <2>1. ASSUME Init PROVE AnswerInv
    BY <2>1 DEF Init, FlowInit, AnswerInv, Unanswered, Statuses
  <2>2. ASSUME Init PROVE LevelInv
    BY <2>2 DEF Init, FlowInit, LevelInv, NoNetwork
  <2>3. QED
    BY <2>1, <2>2
<1>2. EngineInv /\ AnswerInv /\ [Next]_evaluation => AnswerInv'
  BY AnswerStep DEF EngineInv, EvaluationInv
<1>3. EngineInv => IsFiniteSet(net.nodes)
  BY NodesFinite
<1>4. EngineInv /\ EngineInv' /\ LevelInv /\ [FlowNext]_flowVars => LevelInv'
  <2>1. (EngineInv => IsFiniteSet(net.nodes))'
    BY <1>3, PTL
  <2>2. SUFFICES ASSUME EngineInv, EngineInv', LevelInv, [FlowNext]_flowVars PROVE LevelInv'
    OBVIOUS
  <2>3. IsFiniteSet(net'.nodes) /\ IsFiniteSet(net.nodes)
    BY <1>3, <2>1, <2>2
  <2>4. QED
    BY <2>2, <2>3, LevelStep DEF EngineInv, EvaluationInv
<1>5. EngineInv /\ AnswerInv /\ LevelInv => TypeOK
  <2>1. SUFFICES ASSUME EngineInv, AnswerInv, LevelInv PROVE TypeOK
    OBVIOUS
  <2>2. at \in Phases /\ solver \in Places /\ NetworkOK
    BY <2>1 DEF EngineInv, EvaluationInv, FormInv, SolverInv
  <2>3. \A i \in DOMAIN rows : rows[i].available \in 0 .. U64Max
    <3>1. TAKE i \in DOMAIN rows
    <3>2. rows # <<>>
      OBVIOUS
    <3>3. RowsOK(in, rows)
      BY <2>1, <3>2 DEF EngineInv, RowsHeld
    <3>4. PICK r : RowOK(in, r, rows[i])
      BY <3>3 DEF RowsOK
    <3>5. QED
      BY <3>4, CheckedAssumption DEF RowOK
  <2>4. /\ answer.status \in Statuses /\ (at = "done") = (answer.status # "none")
        /\ cancelled \in BOOLEAN
    BY <2>1 DEF AnswerInv
  <2>5. IsNetwork(net) /\ DOMAIN cap = Arcs(net) /\ DOMAIN flow = Arcs(net)
    BY <2>2 DEF NetworkOK, Capacitated
  <2>6. \A v \in net.nodes : level[v] \in -1 .. Cardinality(net.nodes)
    BY <2>1 DEF LevelInv
  <2>7. QED
    BY <2>2, <2>3, <2>4, <2>5, <2>6 DEF TypeOK, Phases, Places, Statuses
<1>6. Spec => [][FlowNext]_flowVars
  BY EvaluationImplementsFlow DEF SolverProtocol
<1>7. QED
  BY <1>1, <1>2, <1>4, <1>5, <1>6, EngineInvariant, PTL DEF Spec

-----------------------------------------------------------------------------
(* What is in reach *)

\* What is computed as in reach is, and is closed.
LEMMA ReachProperty ==
  ASSUME NEW pairs, NEW origin, NEW N, IsFiniteSet(N), origin \in N, \A p \in pairs : p[2] \in N
  PROVE  ReachOK(Reach(pairs, origin, N), pairs, origin, N)
<1>1. PICK n : n = Cardinality(N) /\ n \in Nat
  BY FS_CardinalityType
<1> DEFINE Is(near) ==
             near = [k \in 0 .. n |->
                       IF k = 0 THEN {origin}
                       ELSE UNION {S \cup {p[2] : p \in {q \in pairs : q[1] \in S}} : S \in {near[k - 1]}}]
<1>2. \A near : Is(near) <=> Nears(near, pairs, origin, n)
  <2>1. ASSUME NEW T PROVE UNION {S \cup {p[2] : p \in {q \in pairs : q[1] \in S}} : S \in {T}}
                           = T \cup Onward_(pairs, T)
    BY DEF Onward_
  <2>2. QED
    BY <2>1 DEF Nears
<1>3. Reach(pairs, origin, N) = (CHOOSE near : Is(near))[n]
  BY <1>1 DEF Reach
<1>4. \E near : Is(near)
  BY <1>1, <1>2, NearExists
<1>5. Is(CHOOSE near : Is(near))
  BY <1>4
<1>6. PICK near : Is(near) /\ Reach(pairs, origin, N) = near[n]
  BY <1>3, <1>5
<1> HIDE DEF Is
<1>7. Nears(near, pairs, origin, n)
  BY <1>2, <1>6
<1>8. QED
  BY <1>1, <1>6, <1>7, NearsClose

-----------------------------------------------------------------------------
(* A cut of the network *)

\* The arcs of an assembled network are the pairs of its ends, there and back.
ArcsOf(ends) ==
  \A a \in Arcs(net) :
    \E e \in DOMAIN ends :
      \/ a = 2 * e - 1 /\ net.tail[a] = ends[e][1] /\ net.head[a] = ends[e][2]
      \/ a \notin Forward(net)

\* The arcs of the network of an analysis are the pairs of its ends.
LEMMA ArcsOfProperty ==
  ASSUME SolverInv, NEW t, NEW flows, EndsOK(t, flows), net = Assemble(t, flows)
  PROVE  /\ ArcsOf(Ends(t, flows))
         /\ \A e \in DOMAIN Ends(t, flows) : /\ Ends(t, flows)[e][1] \in Vertices(t)
                                             /\ Ends(t, flows)[e][2] \in Vertices(t)
<1>1. PICK ends : ends = Ends(t, flows)
  OBVIOUS
<1>2. PICK n \in Nat : n = Len(ends) /\ Len(net.tail) = 2 * n /\ DOMAIN ends = 1 .. n
  BY <1>1, NetArcs, ListProperty DEF EndsOK
<1>3. /\ net.nodes = Vertices(t)
      /\ net.tail = [a \in 1 .. 2 * n |-> Paired(ends)[a][IF a % 2 = 1 THEN 1 ELSE 2]]
      /\ net.head = [a \in 1 .. 2 * n |-> Paired(ends)[a][IF a % 2 = 1 THEN 2 ELSE 1]]
      /\ Paired(ends) = [a \in 1 .. 2 * n |-> ends[(a + 1) \div 2]]
  BY <1>1, <1>2 DEF Assemble, NetworkOf, Paired
<1>4. Arcs(net) = 1 .. 2 * n /\ \A a \in Arcs(net) : net.tail[a] \in net.nodes /\ net.head[a] \in net.nodes
  BY <1>2, ArcsProperty
<1>5. \A a \in 1 .. 2 * n : Paired(ends)[a] = ends[(a + 1) \div 2]
  BY <1>3
<1>6. \A a \in 1 .. 2 * n : a % 2 = 1 => net.tail[a] = ends[(a + 1) \div 2][1]
                                         /\ net.head[a] = ends[(a + 1) \div 2][2]
  BY <1>3, <1>5
<1>7. \A e \in 1 .. n : /\ 2 * e - 1 \in 1 .. 2 * n /\ (2 * e - 1) % 2 = 1
                        /\ ((2 * e - 1) + 1) \div 2 = e
  OBVIOUS
<1>8. \A e \in 1 .. n : ends[e][1] = net.tail[2 * e - 1] /\ ends[e][2] = net.head[2 * e - 1]
  BY <1>6, <1>7
<1>9. \A a \in 1 .. 2 * n : (a + 1) \div 2 \in 1 .. n /\ (a % 2 = 1 => a = 2 * ((a + 1) \div 2) - 1)
  OBVIOUS
<1>10. ASSUME NEW a \in Arcs(net)
       PROVE  \E e \in DOMAIN ends :
                \/ a = 2 * e - 1 /\ net.tail[a] = ends[e][1] /\ net.head[a] = ends[e][2]
                \/ a \notin Forward(net)
  <2>1. PICK e \in 1 .. n : e = (a + 1) \div 2
    BY <1>4, <1>9
  <2>2. a % 2 = 1 => a = 2 * e - 1 /\ net.tail[a] = ends[e][1] /\ net.head[a] = ends[e][2]
    BY <1>4, <1>6, <1>9, <2>1
  <2>3. QED
    BY <1>2, <2>1, <2>2 DEF Forward
<1>11. ArcsOf(ends)
  BY <1>10 DEF ArcsOf
<1>12. \A e \in 1 .. n : ends[e][1] \in net.nodes /\ ends[e][2] \in net.nodes
  BY <1>4, <1>7, <1>8
<1>13. QED
  BY <1>1, <1>2, <1>3, <1>11, <1>12

\* What is in reach of the source of all, and as far as it leads to the sink
\* of all, only where a slot or an edge begins.
Upstream(v) == v = SuperSource \/ (\E x : v = Out_(x)) \/ (\E s : v = SlotIn(s))
Near(N, R, L) == {v \in N : v \in R /\ (Upstream(v) \/ v \notin L)}

\* Which nodes are upstream.
LEMMA Kinds ==
  /\ \A x : ~ Upstream(In(x)) /\ ~ Upstream(SlotOut(x)) /\ Upstream(Out_(x)) /\ Upstream(SlotIn(x))
  /\ Upstream(SuperSource) /\ ~ Upstream(SuperSink) /\ SuperSink # SuperSource
  /\ \A x, y : /\ SlotIn(x) = SlotIn(y) => x = y
               /\ SlotOut(x) = SlotOut(y) => x = y
BY DEF Upstream, In, Out_, SlotIn, SlotOut, SuperSource, SuperSink

\* The slots in reach of both.
SlotsBetween(t, R, L) ==
  {v[2] : v \in R \cap {SlotIn(s) : s \in Range(Slots(t))}}
    \cap {v[2] : v \in L \cap {SlotOut(s) : s \in Range(Slots(t))}}

\* Out of it lead only slots that lie between the two.
LEMMA CutArcs ==
  ASSUME SolverInv, NEW t, NEW flows, EndsOK(t, flows), net = Assemble(t, flows),
         NEW R, NEW L, NEW N, N = Vertices(t),
         ReachOK(R, Range(Ends(t, flows)), SuperSource, N),
         ReachOK(L, Reversed(Range(Ends(t, flows))), SuperSink, N),
         NEW a \in Cut(Near(N, R, L)), a \in Forward(net)
  PROVE  \E i \in DOMAIN Slots(t) : a = 2 * i - 1 /\ Slots(t)[i] \in SlotsBetween(t, R, L)
<1>1. PICK ends : ends = Ends(t, flows)
  OBVIOUS
<1>2. PICK S : S = Near(N, R, L)
  OBVIOUS
<1>3. a \in Arcs(net) /\ net.tail[a] \in S /\ net.head[a] \notin S
  BY <1>2 DEF Cut, From
<1>4. PICK e \in DOMAIN ends : a = 2 * e - 1 /\ net.tail[a] = ends[e][1] /\ net.head[a] = ends[e][2]
  BY <1>1, <1>3, ArcsOfProperty DEF ArcsOf
<1>5. PICK u, v : u = ends[e][1] /\ v = ends[e][2]
  OBVIOUS
<1>6. u \in N /\ v \in N /\ u \in S /\ v \notin S
  BY <1>1, <1>3, <1>4, <1>5, ArcsOfProperty
<1>7. PICK p : p = ends[e] /\ p \in Range(ends)
  BY DEF Range
<1>8. u \in R /\ v \in R
  <2>1. u \in R
    BY <1>2, <1>6 DEF Near
  <2>2. QED
    BY <1>1, <1>5, <1>7, <2>1 DEF ReachOK
<1>9. v \in L /\ ~ Upstream(v)
  BY <1>2, <1>6, <1>8 DEF Near
<1>10. u \in L
  <2>1. <<v, u>> \in Reversed(Range(ends))
    BY <1>5, <1>7 DEF Reversed
  <2>2. <<v, u>>[1] \in L => <<v, u>>[2] \in L
    BY <1>1, <2>1 DEF ReachOK
  <2>3. QED
    BY <1>9, <2>2
<1>11. Upstream(u)
  BY <1>2, <1>6, <1>10 DEF Near
<1>12. ~ Inner(ends[e])
  <2>1. SUFFICES ASSUME Inner(ends[e]) PROVE FALSE
    OBVIOUS
  <2>2. \E x, y : \/ u = In(x) \/ u = SlotOut(x)
                  \/ v = Out_(y) \/ v = SlotIn(y)
    BY <1>5, <2>1 DEF Inner
  <2>3. QED
    BY <1>9, <1>11, <2>2, Kinds
<1>13. e \in DOMAIN Slots(t) /\ ends[e] = <<SlotIn(Slots(t)[e]), SlotOut(Slots(t)[e])>>
  BY <1>1, <1>12 DEF EndsOK
<1>14. PICK s : s = Slots(t)[e] /\ s \in Range(Slots(t))
  BY <1>13 DEF Range
<1>15. u = SlotIn(s) /\ v = SlotOut(s)
  BY <1>5, <1>13, <1>14
<1>16. s \in SlotsBetween(t, R, L)
  <2>1. u[2] = s /\ v[2] = s
    BY <1>15 DEF SlotIn, SlotOut
  <2>2. u \in R \cap {SlotIn(x) : x \in Range(Slots(t))}
    BY <1>8, <1>14, <1>15
  <2>3. v \in L \cap {SlotOut(x) : x \in Range(Slots(t))}
    BY <1>9, <1>14, <1>15
  <2>4. QED
    BY <2>1, <2>2, <2>3 DEF SlotsBetween
<1>17. QED
  BY <1>4, <1>13, <1>14, <1>16

\* The admissible slots are those in between.
LEMMA AdmissibleProperty ==
  ASSUME NEW t, NEW flows, EndsOK(t, flows), IsFiniteSet(Vertices(t)),
         \A e \in DOMAIN Ends(t, flows) : /\ Ends(t, flows)[e][1] \in Vertices(t)
                                          /\ Ends(t, flows)[e][2] \in Vertices(t)
  PROVE  \E R, L : /\ Admissible(t, flows) = SlotsBetween(t, R, L)
                   /\ ReachOK(R, Range(Ends(t, flows)), SuperSource, Vertices(t))
                   /\ ReachOK(L, Reversed(Range(Ends(t, flows))), SuperSink, Vertices(t))
<1>1. PICK pairs, N : pairs = Range(Ends(t, flows)) /\ N = Vertices(t)
  OBVIOUS
<1>2. \A p \in pairs : p[1] \in N /\ p[2] \in N
  BY <1>1 DEF Range
<1>3. SuperSource \in N /\ SuperSink \in N /\ IsFiniteSet(N)
  BY <1>1 DEF Vertices
<1>4. ReachOK(Reach(pairs, SuperSource, N), pairs, SuperSource, N)
  BY <1>2, <1>3, ReachProperty
<1>5. \A p \in Reversed(pairs) : p[2] \in N
  BY <1>2 DEF Reversed
<1>6. ReachOK(Reach(Reversed(pairs), SuperSink, N), Reversed(pairs), SuperSink, N)
  <2>1. PICK back : back = Reversed(pairs)
    OBVIOUS
  <2>2. ReachOK(Reach(back, SuperSink, N), back, SuperSink, N)
    BY <1>3, <1>5, <2>1, ReachProperty
  <2>3. QED
    BY <2>1, <2>2
<1>7. Admissible(t, flows)
        = SlotsBetween(t, Reach(pairs, SuperSource, N), Reach(Reversed(pairs), SuperSink, N))
  BY <1>1 DEF Admissible, SlotsBetween
<1>8. QED
  BY <1>1, <1>4, <1>6, <1>7

-----------------------------------------------------------------------------
(* What a solve of everything can push *)

AmongRows(rs, allowed) == {k \in DOMAIN rs : rs[k].resource \in allowed}
Units(rs) == Field(rs, LAMBDA row : row.available)

\* A slot has a row, and no more units than it.
LEMMA SlotRow ==
  ASSUME NEW in_, NEW c, NEW rs, NEW lost, Capped(in_, c, rs, lost), RowsOK(in_, rs), SlotsOK(in_),
         NEW i \in DOMAIN Slots(in_.topology)
  PROVE  \E k \in DOMAIN rs : /\ rs[k].resource = Slots(in_.topology)[i]
                              /\ rs[k].available \in Nat /\ c[2 * i - 1] <= rs[k].available
<1>1. \A k \in DOMAIN rs : rs[k].available \in Nat
  BY DEF RowsOK, RowOK
<1>2. PICK s : s = Slots(in_.topology)[i]
  OBVIOUS
<1>3. \E k \in DOMAIN rs : rs[k].resource = s
  BY <1>2 DEF RowsOK, SlotsOK
<1>4. CASE s \in lost
  <2>1. c[2 * i - 1] = 0
    BY <1>2, <1>4 DEF Capped
  <2>2. QED
    BY <1>1, <1>2, <1>3, <2>1
<1>5. CASE s \notin lost
  <2>1. PICK k \in DOMAIN rs : rs[k].resource = s /\ c[2 * i - 1] = rs[k].available
    BY <1>2, <1>5 DEF Capped
  <2>2. QED
    BY <1>1, <1>2, <2>1
<1>6. QED
  BY <1>4, <1>5

\* The admissible rows bound what crosses the cut.
LEMMA CutBound ==
  ASSUME EngineInv, tally # <<>>, NEW R, NEW L, NEW S,
         S = Near(Vertices(in.topology), R, L),
         ReachOK(R, Range(Ends(in.topology, tally.flows)), SuperSource, Vertices(in.topology)),
         ReachOK(L, Reversed(Range(Ends(in.topology, tally.flows))), SuperSink, Vertices(in.topology)),
         NEW allowed, allowed = SlotsBetween(in.topology, R, L)
  PROVE  SumFunctionOnSet(flow, Cut(S)) <= SumFunctionOnSet(Units(rows), AmongRows(rows, allowed))
<1> DEFINE slots == Slots(in.topology)
           C == Cut(S)
           O == C \cap Forward(net)
           D == AmongRows(rows, allowed)
           h == [a \in C |-> IF a \in O THEN flow[a] ELSE 0]
<1>1. SolverInv /\ IsList(tally.flows) /\ net = Assemble(in.topology, tally.flows) /\ RowsHeld
  BY DEF EngineInv, EvaluationInv, NetHeld, FlowsOK
<1>2. SlotsOK(in) /\ EndsOK(in.topology, tally.flows) /\ RowsOK(in, rows)
  BY <1>1, HeldFacts
<1>3. PICK lost : Capped(in, cap, rows, lost)
  BY DEF EngineInv, NetHeld
<1>4. PICK n \in Nat : DOMAIN rows = 1 .. n
  BY <1>2, ListProperty DEF RowsOK
<1>5. IsFiniteSet(D) /\ \A k \in D : k \in DOMAIN rows /\ rows[k].available \in Nat
  <2>1. 1 \in Int /\ n \in Int
    OBVIOUS
  <2>2. PICK T : T = 1 .. n /\ IsFiniteSet(T)
    BY <2>1, FS_Interval
  <2>3. D \in SUBSET T
    BY <1>4, <2>2 DEF AmongRows
  <2>4. \A k \in D : k \in DOMAIN rows
    BY DEF AmongRows
  <2>5. QED
    BY <1>2, <2>2, <2>3, <2>4, FS_Subset DEF RowsOK, RowOK
<1>6. C \in SUBSET Arcs(net) /\ IsFiniteSet(C) /\ O \in SUBSET C /\ IsFiniteSet(O)
      /\ \A a \in C : flow[a] \in Int
  <2>1. C \in SUBSET Arcs(net)
    BY DEF Cut, From
  <2>2. O \in SUBSET Arcs(net)
    BY <2>1
  <2>3. QED
    BY <1>1, <2>1, <2>2, ArcsFinite
<1>7. \A a \in C : flow[a] <= h[a] /\ h[a] \in Int
  <2>1. TAKE a \in C
  <2>2. CASE a \in O
    BY <1>6, <2>2
  <2>3. CASE a \notin O
    <3>1. cap[a] = 0 /\ flow[a] <= cap[a]
      BY <1>1, <1>6, <2>3 DEF SolverInv, NetworkOK, Capacitated, FlowIsFeasible
    <3>2. QED
      BY <1>6, <2>3, <3>1
  <2>4. QED
    BY <2>2, <2>3
<1>8. SumFunctionOnSet(flow, C) <= SumFunctionOnSet(h, C)
  <2> HIDE DEF h, C, O
  <2>1. QED
    BY <1>6, <1>7, SumBound
<1>9. SumFunctionOnSet(flow, O) = SumFunctionOnSet(h, C)
  <2>1. (\A x \in O : flow[x] \in Int /\ h[x] = flow[x]) /\ (\A x \in C \ O : h[x] = 0)
    BY <1>6
  <2> HIDE DEF h, C, O
  <2>2. QED
    BY <1>6, <2>1, SumWhere
<1>10. ASSUME NEW a \in O
       PROVE  \E i \in DOMAIN slots : \E k \in D :
                /\ a = 2 * i - 1 /\ rows[k].resource = slots[i] /\ flow[a] <= rows[k].available
  <2>1. PICK i \in DOMAIN slots : a = 2 * i - 1 /\ slots[i] \in allowed
    BY <1>1, <1>2, CutArcs
  <2>2. PICK k \in DOMAIN rows : rows[k].resource = slots[i] /\ rows[k].available \in Nat
                                 /\ cap[a] <= rows[k].available
    BY <1>2, <1>3, <2>1, SlotRow
  <2>3. flow[a] <= cap[a] /\ flow[a] \in Int /\ cap[a] \in Int
    BY <1>1, <1>6, CheckedAssumption DEF SolverInv, NetworkOK, Capacitated, FlowIsFeasible
  <2>4. flow[a] <= rows[k].available
    BY <2>2, <2>3
  <2>5. k \in D
    BY <2>1, <2>2 DEF AmongRows
  <2>6. QED
    BY <2>1, <2>2, <2>4, <2>5
<1> DEFINE p == [a \in O |-> CHOOSE k \in D : \E i \in DOMAIN slots :
                  a = 2 * i - 1 /\ rows[k].resource = slots[i] /\ flow[a] <= rows[k].available]
<1>11. \A a \in O : p[a] \in D /\ \E i \in DOMAIN slots :
          a = 2 * i - 1 /\ rows[p[a]].resource = slots[i] /\ flow[a] <= rows[p[a]].available
  <2> HIDE DEF D, O, slots
  <2>1. TAKE a \in O
  <2>2. \E k \in D : \E i \in DOMAIN slots :
          a = 2 * i - 1 /\ rows[k].resource = slots[i] /\ flow[a] <= rows[k].available
    BY <1>10
  <2>3. QED
    BY <2>2
<1>12. p \in [O -> D]
  <2> HIDE DEF D, O
  <2>1. QED
    BY <1>11
<1> HIDE DEF p
<1>13. \A a, b \in O : p[a] = p[b] => a = b
  <2>1. TAKE a, b \in O
  <2>2. PICK i \in DOMAIN slots : a = 2 * i - 1 /\ rows[p[a]].resource = slots[i]
    BY <1>11
  <2>3. PICK j \in DOMAIN slots : b = 2 * j - 1 /\ rows[p[b]].resource = slots[j]
    BY <1>11
  <2>4. p[a] = p[b] => slots[i] = slots[j]
    BY <2>2, <2>3
  <2>5. p[a] = p[b] => i = j
    BY <1>2, <2>4 DEF SlotsOK, Distinct
  <2>6. QED
    BY <2>2, <2>3, <2>5
<1> DEFINE g == Units(rows)
<1>14. \A k \in D : g[k] = rows[k].available /\ g[k] \in Nat
  BY <1>5 DEF Units, Field
<1>15. \A a \in O : flow[a] \in Int /\ flow[a] <= g[p[a]]
  <2>1. TAKE a \in O
  <2>2. p[a] \in D /\ flow[a] <= rows[p[a]].available
    BY <1>11
  <2> HIDE DEF g, D
  <2>3. QED
    BY <1>6, <1>14, <2>2
<1>16. SumFunctionOnSet(flow, O) <= SumFunctionOnSet(g, D)
  <2> HIDE DEF g, D, O
  <2>1. QED
    BY <1>5, <1>6, <1>12, <1>13, <1>14, <1>15, SumInjected
<1>17. SumFunctionOnSet(flow, C) <= SumFunctionOnSet(g, D)
  <2>1. \A k \in D : g[k] \in Int
    BY <1>14
  <2> HIDE DEF g, D, O, C, h
  <2>2. SumFunctionOnSet(flow, C) \in Int /\ SumFunctionOnSet(h, C) \in Int /\ SumFunctionOnSet(g, D) \in Int
    BY <1>5, <1>6, <1>7, <2>1, SumPick
  <2>3. QED
    BY <1>8, <1>9, <1>16, <2>2
<1>18. QED
  BY <1>17

\* A solve from the source of all pushes no more than the admissible rows hold.
LEMMA PushedBound ==
  ASSUME EngineInv, tally # <<>>, Off(SuperEnds), Leaving(SuperSource) = total
  PROVE  total <= SumFunctionOnSet(Units(rows), AmongRows(rows, Admissible(in.topology, tally.flows)))
<1> DEFINE N == Vertices(in.topology)
<1>1. SolverInv /\ IsList(tally.flows) /\ net = Assemble(in.topology, tally.flows) /\ RowsHeld
  BY DEF EngineInv, EvaluationInv, NetHeld, FlowsOK
<1>2. SlotsOK(in) /\ EndsOK(in.topology, tally.flows) /\ RowsOK(in, rows)
  BY <1>1, HeldFacts
<1>3. net.nodes = N /\ IsFiniteSet(N)
  BY <1>1, NodesFinite DEF Assemble, NetworkOf
<1>4. PICK R, L :
        /\ Admissible(in.topology, tally.flows) = SlotsBetween(in.topology, R, L)
        /\ ReachOK(R, Range(Ends(in.topology, tally.flows)), SuperSource, N)
        /\ ReachOK(L, Reversed(Range(Ends(in.topology, tally.flows))), SuperSink, N)
  BY <1>1, <1>2, <1>3, ArcsOfProperty, AdmissibleProperty
<1>5. PICK S : S = Near(N, R, L)
  OBVIOUS
<1>6. S \in SUBSET N /\ SuperSource \in S /\ SuperSink \notin S
  <2>1. SuperSource \in R /\ R \in SUBSET N /\ SuperSink \in L
    BY <1>4 DEF ReachOK
  <2>2. QED
    BY <1>5, <2>1, Kinds DEF Near
<1>7. IsFiniteSet(S)
  BY <1>3, <1>6, FS_Subset
<1>8. \A v \in S \ {SuperSource} : Leaving(v) = 0
  BY <1>3, <1>6 DEF Off, SuperEnds
<1>9. Leaving(SuperSource) = SumFunctionOnSet(flow, Cut(S))
  BY <1>1, <1>6, <1>7, <1>8, CutProperty
<1>10. PICK allowed : allowed = SlotsBetween(in.topology, R, L)
  OBVIOUS
<1>11. SumFunctionOnSet(flow, Cut(S)) <= SumFunctionOnSet(Units(rows), AmongRows(rows, allowed))
  BY <1>4, <1>5, <1>10, CutBound
<1>12. QED
  BY <1>4, <1>9, <1>10, <1>11

-----------------------------------------------------------------------------
(* What is admissible, and what is segmented *)

SegmentsOf(rs) == Sum(rs, LAMBDA row : IF row.admissible THEN 0 ELSE row.available)
Admitting(rs) == {k \in DOMAIN rs : rs[k].admissible}
Splits(rs) ==
  /\ AvailableTotal(rs) \in Nat /\ AvailableTotal(rs) <= U64Max /\ SegmentsOf(rs) \in Nat
  /\ SumFunctionOnSet(Units(rs), Admitting(rs)) + SegmentsOf(rs) = AvailableTotal(rs)
  /\ SumFunctionOnSet(Units(rs), Admitting(rs)) \in Int

\* What is available is admissible or segmented.
LEMMA SplitProperty ==
  ASSUME NEW in_, NEW rs, RowsOK(in_, rs), AvailableFits(rs)
  PROVE  Splits(rs)
<1> DEFINE A == Admitting(rs)
           u == Units(rs)
           s == Field(rs, LAMBDA row : IF row.admissible THEN 0 ELSE row.available)
           g == [k \in DOMAIN rs |-> IF k \in A THEN u[k] ELSE 0]
<1>1. PICK n \in Nat : DOMAIN rs = 1 .. n
  BY ListProperty DEF RowsOK
<1>2. \A k \in 1 .. n : rs[k].available \in Nat
  BY <1>1 DEF RowsOK, RowOK
<1>3. PICK T : T = 1 .. n /\ IsFiniteSet(T)
  <2>1. 1 \in Int /\ n \in Int
    OBVIOUS
  <2>2. QED
    BY <2>1, FS_Interval
<1>4. A \in SUBSET T
  BY <1>1, <1>3 DEF Admitting
<1>5. u = [k \in 1 .. n |-> rs[k].available]
      /\ s = [k \in 1 .. n |-> IF rs[k].admissible THEN 0 ELSE rs[k].available]
  BY <1>1 DEF Units, Field
<1>6. u \in [1 .. n -> Nat] /\ s \in [1 .. n -> Nat]
  <2>1. \A k \in 1 .. n : (IF rs[k].admissible THEN 0 ELSE rs[k].available) \in Nat
    BY <1>2
  <2>2. QED
    BY <1>2, <1>5, <2>1
<1>7. \A k \in T : u[k] \in Int /\ s[k] \in Int /\ g[k] \in Int /\ u[k] = g[k] + s[k] /\ s[k] <= u[k]
  <2>1. TAKE k \in T
  <2>2. u[k] = rs[k].available /\ u[k] \in Nat /\ s[k] = IF rs[k].admissible THEN 0 ELSE u[k]
    BY <1>2, <1>3, <1>5
  <2>3. g[k] = IF rs[k].admissible THEN u[k] ELSE 0
    BY <1>1, <1>3 DEF Admitting
  <2> HIDE DEF u, s, g
  <2>4. QED
    BY <2>2, <2>3
<1> HIDE DEF u, s, g, A
<1>8. SumFunctionOnSet(u, T) = SumFunctionOnSet(g, T) + SumFunctionOnSet(s, T)
  BY <1>3, <1>7, SumAdd
<1>9. SumFunctionOnSet(u, A) = SumFunctionOnSet(g, T)
  <2>1. (\A k \in A : u[k] \in Int /\ g[k] = u[k]) /\ (\A k \in T \ A : g[k] = 0)
    BY <1>1, <1>3, <1>4, <1>7 DEF g
  <2>2. IsFiniteSet(T)
    BY <1>3
  <2>3. QED
    BY <1>4, <2>1, <2>2, SumWhere
<1>10. SumFunctionOnSet(s, T) <= SumFunctionOnSet(u, T)
  BY <1>3, <1>7, SumBound
<1>11. /\ SumFunction(u) = SumFunctionOnSet(u, T) /\ SumFunction(u) \in Nat
       /\ Fits(u) => Accumulated(u) = SumFunction(u)
  BY <1>3, <1>6, AccumulatedIsSum
<1>12. /\ SumFunction(s) = SumFunctionOnSet(s, T) /\ SumFunction(s) \in Nat
       /\ Fits(s) => Accumulated(s) = SumFunction(s)
  BY <1>3, <1>6, AccumulatedIsSum
<1>13. Fits(u)
  BY DEF AvailableFits, u, Units
<1>14. Fits(s)
  BY <1>10, <1>11, <1>12, <1>13, CheckedAssumption DEF Fits
<1>15. AvailableTotal(rs) = SumFunction(u) /\ SegmentsOf(rs) = SumFunction(s)
  <2>1. AvailableTotal(rs) = Accumulated(u)
    BY DEF AvailableTotal, Sum, u, Units
  <2>2. SegmentsOf(rs) = Accumulated(s)
    BY DEF SegmentsOf, Sum, s
  <2>3. QED
    BY <1>11, <1>12, <1>13, <1>14, <2>1, <2>2
<1>16. SumFunctionOnSet(g, T) \in Int
  BY <1>3, <1>7, SumPick
<1>17. SumFunction(u) <= U64Max
  BY <1>13 DEF Fits
<1>18. SumFunctionOnSet(u, A) + SumFunction(s) = SumFunction(u) /\ SumFunctionOnSet(u, A) \in Int
  BY <1>8, <1>9, <1>11, <1>12, <1>16
<1>19. QED
  BY <1>11, <1>12, <1>15, <1>17, <1>18 DEF Splits, u, A

\* What the analysis writes into the rows leaves their units.
LEMMA RevisedUnits ==
  ASSUME NEW rs, NEW qs, Revised(rs, qs)
  PROVE  Units(qs) = Units(rs) /\ AvailableTotal(qs) = AvailableTotal(rs) /\ DOMAIN qs = DOMAIN rs
<1>1. Units(qs) = Units(rs)
  BY DEF Units, Field, Revised
<1>2. QED
  BY <1>1 DEF Units, AvailableTotal, Sum, Revised

\* Only multiples of the grain are taken.
LEMMA QuantizeProperty ==
  ASSUME NEW value \in Nat, NEW granularity \in Nat
  PROVE  QuantizeDown(value, granularity) \in Nat /\ QuantizeDown(value, granularity) <= value
<1>1. CASE granularity = 0
  BY <1>1 DEF QuantizeDown
<1>2. CASE granularity # 0
  <2>1. PICK q \in Nat, r \in Nat : q = value \div granularity /\ r = value % granularity
                                    /\ value = q * granularity + r
    BY <1>2, Products
  <2>2. PICK k \in Nat : k = q * granularity
    BY Products
  <2>3. QuantizeDown(value, granularity) = k
    BY <1>2, <2>1, <2>2 DEF QuantizeDown
  <2>4. k <= value
    <3>1. value = k + r
      BY <2>1, <2>2
    <3>2. QED
      BY <3>1
  <2>5. QED
    BY <2>3, <2>4
<1>3. QED
  BY <1>1, <1>2

-----------------------------------------------------------------------------
(* What the analysis attributes and places *)

\* Before the attribution: what is deliverable, and beside it what no path of
\* the shape reaches.
Measured(t, rs) ==
  /\ t.base \in Nat /\ t.deliverable \in Nat /\ t.deliverable <= t.base
  /\ t.base + SegmentsOf(rs) <= AvailableTotal(rs)
  /\ t.satisfied = 0 /\ t.granularityLoss = 0

\* After it: every available unit is deliverable or stranded for one cause, and
\* every deliverable one is left, satisfies a flow or is lost to the grain.
Shared(t, rs) ==
  /\ t.breakdown.segmentation \in Nat /\ t.breakdown.bottleneck \in Nat /\ t.breakdown.resilience \in Nat
  /\ t.deliverable + t.breakdown.segmentation + t.breakdown.bottleneck + t.breakdown.resilience
       = AvailableTotal(rs)
  /\ t.deliverable \in Nat /\ t.budget \in Nat /\ t.satisfied \in Nat /\ t.granularityLoss \in Nat
  /\ t.budget + t.satisfied + t.granularityLoss = t.deliverable

SharesInv ==
  /\ at = "base" => tally.satisfied = 0 /\ tally.granularityLoss = 0
  /\ at \in {"scenarios", "lost", "regain"} => Measured(tally, rows)
  /\ at \in {"place", "placing"} \/ (at = "close" /\ tally # <<>>) => Shared(tally, rows)
  /\ at = "placing" => call.limit \in 0 .. tally.budget /\ call.limit < U64Max

\* What is measured can be attributed.
LEMMA MeasuredAttributes ==
  ASSUME EngineInv, tally # <<>>, Measured(tally, rows)
  PROVE  Attributable /\ Segmented = SegmentsOf(rows) /\ Splits(rows)
<1>1. RowsOK(in, rows) /\ AvailableFits(rows)
  BY DEF EngineInv, RowsHeld, NetHeld
<1>2. Splits(rows)
  BY <1>1, SplitProperty
<1>3. Segmented = SegmentsOf(rows)
  BY DEF Segmented, SegmentsOf
<1>4. PICK v, s : v = AvailableTotal(rows) /\ s = SegmentsOf(rows)
  OBVIOUS
<1>5. v \in Nat /\ s \in Nat /\ tally.base \in Nat /\ tally.deliverable \in Nat
      /\ tally.deliverable <= tally.base /\ tally.base + s <= v
  BY <1>2, <1>4 DEF Splits, Measured
<1>6. /\ tally.deliverable <= v /\ s <= v - tally.deliverable
      /\ tally.base - tally.deliverable <= v - tally.deliverable - s
  BY <1>5
<1>7. Attributable
  BY <1>3, <1>4, <1>6 DEF Attributable
<1>8. QED
  BY <1>2, <1>3, <1>7

\* The solve with everything in place is measured against the rows it marks.
LEMMA BaseMeasured ==
  ASSUME EngineInv, ConservedInv, SharesInv, BaseSolved, at' = "scenarios"
  PROVE  Measured(tally', rows')
<1>1. tally # <<>> /\ at = "base" /\ solver = "solved" /\ DOMAIN tally = TallyFields
  BY DEF BaseSolved, EngineInv, EvaluationInv, FormInv
<1>2. Off(SuperEnds) /\ Leaving(SuperSource) = total
  BY <1>1 DEF ConservedInv
<1>3. PICK allowed : allowed = Admissible(in.topology, tally.flows)
  OBVIOUS
<1>4. total <= SumFunctionOnSet(Units(rows), AmongRows(rows, allowed))
  BY <1>1, <1>2, <1>3, PushedBound
<1>5. PICK scenarios, used :
        /\ rows' = [i \in DOMAIN rows |-> [rows[i] EXCEPT !.admissible = rows[i].resource \in allowed]]
        /\ tally' = [tally EXCEPT !.base = total, !.deliverable = total, !.scenarios = scenarios,
                                  !.used = used]
  <2>1. at' # "done"
    OBVIOUS
  <2> DEFINE used_ == [i \in DOMAIN rows |-> IF rows[i].resource \in Range(Slots(in.topology))
                          THEN ArcFlow(SlotArc(in.topology, rows[i].resource)) ELSE 0]
  <2>2. \E scenarios :
          /\ rows' = [i \in DOMAIN rows |-> [rows[i] EXCEPT !.admissible = rows[i].resource \in allowed]]
          /\ tally' = [tally EXCEPT !.base = total, !.deliverable = total, !.scenarios = scenarios,
                                    !.used = used_]
    BY <1>3, <2>1 DEF BaseSolved, Fail
  <2> HIDE DEF used_
  <2>3. QED
    BY <2>2
<1>6. tally'.base = total /\ tally'.deliverable = total /\ tally'.satisfied = tally.satisfied
      /\ tally'.granularityLoss = tally.granularityLoss
  BY <1>1, <1>5 DEF TallyFields
<1>7. tally'.satisfied = 0 /\ tally'.granularityLoss = 0
  BY <1>1, <1>6 DEF SharesInv
<1>8. total \in Nat
  BY <1>1 DEF EngineInv, EvaluationInv, SolverInv, CallOK
<1>9. RowsOK(in, rows) /\ AvailableFits(rows)
  BY <1>1 DEF EngineInv, RowsHeld, NetHeld
<1>10. PICK qs : qs = rows'
  OBVIOUS
<1>11. Revised(rows, qs)
  BY <1>9, <1>10, RowsRevised
<1>12. RowsOK(in, qs) /\ AvailableFits(qs)
  BY <1>9, <1>11, RevisedProperty
<1>13. Splits(qs)
  BY <1>12, SplitProperty
<1>14. Admitting(qs) = AmongRows(rows, allowed)
  <2>1. \A k \in DOMAIN rows : "admissible" \in DOMAIN rows[k]
    BY <1>9 DEF RowsOK, RowFields
  <2>2. DOMAIN qs = DOMAIN rows /\ \A k \in DOMAIN rows : qs[k].admissible = (rows[k].resource \in allowed)
    BY <1>5, <1>10, <2>1
  <2>3. QED
    BY <2>2 DEF Admitting, AmongRows
<1>15. Units(qs) = Units(rows)
  BY <1>11, RevisedUnits
<1>16. total <= SumFunctionOnSet(Units(qs), Admitting(qs))
  BY <1>4, <1>14, <1>15
<1>17. total + SegmentsOf(qs) <= AvailableTotal(qs)
  BY <1>8, <1>13, <1>16 DEF Splits
<1>18. Measured(tally', qs)
  BY <1>6, <1>7, <1>8, <1>17 DEF Measured
<1>19. QED
  BY <1>10, <1>18

\* A scenario delivers no more than what came before it.
LEMMA ScenarioMeasured ==
  ASSUME EngineInv, SharesInv, ScenarioSolved
  PROVE  Measured(tally', rows') /\ at' = "regain"
<1>1. tally # <<>> /\ at = "lost" /\ solver = "solved" /\ DOMAIN tally = TallyFields
  BY DEF ScenarioSolved, EngineInv, EvaluationInv, FormInv
<1>2. total \in Nat
  BY <1>1 DEF EngineInv, EvaluationInv, SolverInv, CallOK
<1>3. PICK least : least = IF total < tally.deliverable THEN total ELSE tally.deliverable
  OBVIOUS
<1>4. \E tail, examined : tally' = [tally EXCEPT !.deliverable = least, !.scenarios = tail, !.examined = examined]
  <2>1. tally' = [tally EXCEPT !.deliverable = IF total < @ THEN total ELSE @,
                               !.scenarios = Tail(@), !.examined = @ + 1]
    BY DEF ScenarioSolved
  <2>2. tally' = [tally EXCEPT !.deliverable = least, !.scenarios = Tail(tally.scenarios),
                               !.examined = tally.examined + 1]
    BY <1>1, <1>3, <2>1 DEF TallyFields
  <2>3. QED
    BY <2>2
<1>5. tally'.base = tally.base /\ tally'.deliverable = least /\ tally'.satisfied = tally.satisfied
      /\ tally'.granularityLoss = tally.granularityLoss
  BY <1>1, <1>4 DEF TallyFields
<1>6. Measured(tally, rows)
  BY <1>1 DEF SharesInv
<1>7. least \in Nat /\ least <= tally.base
  BY <1>2, <1>3, <1>6 DEF Measured
<1>8. Measured(tally', rows)
  BY <1>5, <1>6, <1>7 DEF Measured
<1>9. QED
  BY <1>8 DEF ScenarioSolved

\* What is attributed is shared out.
LEMMA AttributeShares ==
  ASSUME EngineInv, SharesInv, Attribute
  PROVE  at' = "place" /\ Shared(tally', rows') /\ answer' = answer
<1>1. tally # <<>> /\ at = "scenarios" /\ DOMAIN tally = TallyFields /\ Measured(tally, rows)
  BY DEF Attribute, EngineInv, EvaluationInv, FormInv, SharesInv
<1>2. Attributable /\ Segmented = SegmentsOf(rows) /\ Splits(rows)
  BY <1>1, MeasuredAttributes
<1>3. at' = "place" /\ answer' = answer
  BY <1>2 DEF Attribute
<1>4. PICK v, s, d, b : v = AvailableTotal(rows) /\ s = Segmented /\ d = tally.deliverable /\ b = tally.base
  OBVIOUS
<1>5. v \in Nat /\ s \in Nat /\ d \in Nat /\ b \in Nat /\ d <= b /\ b + s <= v
  BY <1>1, <1>2, <1>4 DEF Measured, Splits
<1>6. PICK bd : bd = [segmentation |-> s, bottleneck |-> (v - d) - s - (b - d), resilience |-> b - d]
  OBVIOUS
<1>7. \E stranded : tally' = [tally EXCEPT !.breakdown = bd, !.reservedStranded = stranded, !.budget = d]
  BY <1>2, <1>4, <1>6 DEF Attribute
<1>8. tally'.breakdown = bd /\ tally'.budget = d /\ tally'.deliverable = d
      /\ tally'.satisfied = tally.satisfied /\ tally'.granularityLoss = tally.granularityLoss
  BY <1>1, <1>4, <1>7 DEF TallyFields
<1>9. tally'.satisfied = 0 /\ tally'.granularityLoss = 0
  BY <1>1, <1>8 DEF Measured
<1>10. bd.segmentation \in Nat /\ bd.bottleneck \in Nat /\ bd.resilience \in Nat
       /\ d + bd.segmentation + bd.bottleneck + bd.resilience = v
  BY <1>5, <1>6
<1>11. AvailableTotal(rows') = v
  <2>1. RowsOK(in, rows)
    BY <1>1 DEF EngineInv, RowsHeld
  <2>2. PICK qs : qs = rows'
    OBVIOUS
  <2>3. Revised(rows, qs)
    BY <2>1, <2>2, RowsRevised
  <2>4. QED
    BY <1>4, <2>2, <2>3, RevisedUnits
<1>12. Shared(tally', rows')
  BY <1>5, <1>8, <1>9, <1>10, <1>11 DEF Shared
<1>13. QED
  BY <1>3, <1>12

\* What a flow is given is taken from what is left.
LEMMA PlaceShares ==
  ASSUME EngineInv, SharesInv, PlaceFlow, at' = "placing"
  PROVE  /\ Shared(tally', rows') /\ answer' = answer
         /\ call'.limit \in 0 .. tally'.budget /\ call'.limit < U64Max
<1>1. tally # <<>> /\ at = "place" /\ DOMAIN tally = TallyFields /\ Shared(tally, rows)
  BY DEF PlaceFlow, EngineInv, EvaluationInv, FormInv, SharesInv
<1>2. /\ call'.limit = IF Wanted < tally.budget THEN Wanted ELSE tally.budget
      /\ tally' = [tally EXCEPT !.quantized = @ + Wanted] /\ rows' = rows /\ answer' = answer
  BY DEF PlaceFlow, Fail, Solve
<1>3. tally'.breakdown = tally.breakdown /\ tally'.deliverable = tally.deliverable
      /\ tally'.budget = tally.budget /\ tally'.satisfied = tally.satisfied
      /\ tally'.granularityLoss = tally.granularityLoss
  BY <1>1, <1>2 DEF TallyFields
<1>4. Shared(tally', rows')
  BY <1>1, <1>2, <1>3 DEF Shared
<1>5. Len(tally.fits) + 1 \in DOMAIN tally.flows
  BY <1>1, PlacingProperty DEF PlaceFlow, EngineInv, EvaluationInv
<1>6. Placing.magnitude \in Nat /\ Placing.magnitude <= in.limits.capacity /\ tally.granularity \in Nat
      /\ in.limits.capacity \in 0 .. I64Max
  BY <1>1, <1>5 DEF EngineInv, NetHeld, FlowsOK, RowsHeld, TypedCatalogs, Placing
<1>7. PICK w, m : w = Wanted /\ m = Placing.magnitude
  OBVIOUS
<1>8. w \in Nat /\ w <= m
  BY <1>6, <1>7, QuantizeProperty DEF Wanted
<1>9. w < U64Max
  BY <1>6, <1>7, <1>8, CheckedAssumption
<1>10. tally.budget \in Nat
  BY <1>1 DEF Shared
<1>11. call'.limit \in 0 .. tally.budget /\ call'.limit < U64Max
  BY <1>2, <1>7, <1>8, <1>9, <1>10, CheckedAssumption
<1>12. QED
  BY <1>2, <1>3, <1>4, <1>11

\* And what it is not granted is lost to the grain.
LEMMA PlacedShares ==
  ASSUME EngineInv, SharesInv, FlowPlaced, at' = "place"
  PROVE  Shared(tally', rows') /\ answer' = answer
<1>1. tally # <<>> /\ at = "placing" /\ DOMAIN tally = TallyFields /\ Shared(tally, rows)
      /\ call.limit \in 0 .. tally.budget /\ call.limit < U64Max /\ solver = "solved"
  BY DEF FlowPlaced, EngineInv, EvaluationInv, FormInv, SharesInv
<1>2. total \in Nat /\ total <= call.limit
  BY <1>1, CheckedAssumption DEF EngineInv, EvaluationInv, SolverInv, CallOK
<1>3. PICK whole, admitted :
        /\ whole = QuantizeDown(total, tally.granularity)
        /\ admitted = IF tally.singleSlice /\ whole < Placing.magnitude THEN 0 ELSE whole
  OBVIOUS
<1>4. /\ rows' = rows /\ answer' = answer
      /\ \E fit : tally' = [tally EXCEPT
                     !.granularityLoss = @ + (total - admitted), !.budget = @ - total,
                     !.satisfied = @ + admitted, !.fits = Append(@, fit)]
  <2>1. at' # "done"
    OBVIOUS
  <2>2. tally' = [tally EXCEPT
                     !.granularityLoss = @ + (total - admitted), !.budget = @ - total,
                     !.satisfied = @ + admitted,
                     !.fits = Append(@, [id |-> Placing.id, admitted |-> admitted,
                                         unmet |-> Placing.magnitude - admitted,
                                         satisfied |-> admitted >= Placing.magnitude])]
    BY <1>3, <2>1 DEF FlowPlaced, Fail
  <2>3. QED
    BY <2>1, <2>2 DEF FlowPlaced, Fail
<1>5. /\ tally'.breakdown = tally.breakdown /\ tally'.deliverable = tally.deliverable
      /\ tally'.budget = tally.budget - total /\ tally'.satisfied = tally.satisfied + admitted
      /\ tally'.granularityLoss = tally.granularityLoss + (total - admitted)
  BY <1>1, <1>4 DEF TallyFields
<1>6. whole \in Nat /\ whole <= total
  <2>1. tally.granularity \in Nat
    BY <1>1 DEF EngineInv, NetHeld, FlowsOK
  <2>2. QED
    BY <1>2, <1>3, <2>1, QuantizeProperty
<1>7. admitted \in Nat /\ admitted <= total
  BY <1>2, <1>3, <1>6
<1>8. /\ tally.budget \in Nat /\ tally.satisfied \in Nat /\ tally.granularityLoss \in Nat
      /\ tally.deliverable \in Nat /\ total <= tally.budget
      /\ tally.budget + tally.satisfied + tally.granularityLoss = tally.deliverable
  BY <1>1, <1>2 DEF Shared
<1>9. /\ tally'.budget \in Nat /\ tally'.satisfied \in Nat /\ tally'.granularityLoss \in Nat
      /\ tally'.budget + tally'.satisfied + tally'.granularityLoss = tally'.deliverable
  BY <1>2, <1>5, <1>7, <1>8
<1>10. QED
  BY <1>1, <1>4, <1>5, <1>9 DEF Shared

-----------------------------------------------------------------------------
(* The identities of closure *)

\* Sums of two, three and four terms that fit.
LEMMA ShortSums ==
  ASSUME NEW a \in Nat, NEW b \in Nat, NEW c \in Nat, NEW d \in Nat
  PROVE  /\ a + b <= U64Max => SumsTo(<<a, b>>, a + b)
         /\ a + b + c <= U64Max => SumsTo(<<a, b, c>>, a + b + c)
         /\ a + b + c + d <= U64Max => SumsTo(<<a, b, c, d>>, a + b + c + d)
<1>1. ASSUME NEW n \in Nat, NEW terms \in [1 .. n -> Nat], NEW sum,
             sum = SumFunctionOnSet(terms, 1 .. n), sum <= U64Max
      PROVE  SumsTo(terms, sum)
  <2>1. SumFunction(terms) = sum /\ (Fits(terms) => Accumulated(terms) = SumFunction(terms))
    BY <1>1, AccumulatedIsSum
  <2>2. Fits(terms)
    BY <1>1, <2>1 DEF Fits
  <2>3. QED
    BY <2>1, <2>2 DEF SumsTo
<1>2. ASSUME NEW n \in Nat, NEW terms \in [1 .. n -> Nat]
      PROVE  /\ n = 2 => SumFunctionOnSet(terms, 1 .. n) = terms[1] + terms[2]
             /\ n = 3 => SumFunctionOnSet(terms, 1 .. n) = terms[1] + terms[2] + terms[3]
             /\ n = 4 => SumFunctionOnSet(terms, 1 .. n) = terms[1] + terms[2] + terms[3] + terms[4]
  <2> DEFINE s(k) == SumUpTo(terms, k)
  <2>1. s(0) = 0 /\ \A k \in 1 .. n : s(k) \in Int /\ s(k) = terms[k] + s(k - 1)
    BY SumPrefixes
  <2> HIDE DEF s
  <2>2. n >= 2 => s(1) = terms[1] /\ s(2) = terms[2] + s(1) /\ terms[1] \in Nat /\ terms[2] \in Nat
    <3>1. SUFFICES ASSUME n >= 2 PROVE s(1) = terms[1] /\ s(2) = terms[2] + s(1)
                                       /\ terms[1] \in Nat /\ terms[2] \in Nat
      OBVIOUS
    <3>2. 1 \in 1 .. n /\ 2 \in 1 .. n /\ 1 - 1 = 0 /\ 2 - 1 = 1
      BY <3>1
    <3>3. s(1) = terms[1] + s(1 - 1) /\ s(2) = terms[2] + s(2 - 1)
      BY <2>1, <3>2
    <3>4. QED
      BY <2>1, <3>2, <3>3
  <2>3. n >= 3 => s(3) = terms[3] + s(2) /\ terms[3] \in Nat
    <3>1. SUFFICES ASSUME n >= 3 PROVE s(3) = terms[3] + s(2) /\ terms[3] \in Nat
      OBVIOUS
    <3>2. 3 \in 1 .. n /\ 3 - 1 = 2
      BY <3>1
    <3>3. s(3) = terms[3] + s(3 - 1)
      BY <2>1, <3>2
    <3>4. QED
      BY <3>2, <3>3
  <2>4. n >= 4 => s(4) = terms[4] + s(3) /\ terms[4] \in Nat
    <3>1. SUFFICES ASSUME n >= 4 PROVE s(4) = terms[4] + s(3) /\ terms[4] \in Nat
      OBVIOUS
    <3>2. 4 \in 1 .. n /\ 4 - 1 = 3
      BY <3>1
    <3>3. s(4) = terms[4] + s(4 - 1)
      BY <2>1, <3>2
    <3>4. QED
      BY <3>2, <3>3
  <2>5. CASE n = 2
    <3>1. s(n) = terms[1] + terms[2]
      BY <2>2, <2>5
    <3>2. QED
      BY <2>5, <3>1 DEF s, SumUpTo
  <2>6. CASE n = 3
    <3>1. s(n) = terms[1] + terms[2] + terms[3]
      BY <2>2, <2>3, <2>6
    <3>2. QED
      BY <2>6, <3>1 DEF s, SumUpTo
  <2>7. CASE n = 4
    <3>1. s(n) = terms[1] + terms[2] + terms[3] + terms[4]
      BY <2>2, <2>3, <2>4, <2>7
    <3>2. QED
      BY <2>7, <3>1 DEF s, SumUpTo
  <2>8. QED
    BY <2>5, <2>6, <2>7
<1>3. ASSUME a + b <= U64Max PROVE SumsTo(<<a, b>>, a + b)
  <2>1. PICK terms : terms = <<a, b>>
    OBVIOUS
  <2>2. terms \in [1 .. 2 -> Nat] /\ terms[1] = a /\ terms[2] = b
    BY <2>1
  <2>3. SumFunctionOnSet(terms, 1 .. 2) = a + b
    BY <1>2, <2>2
  <2>4. QED
    BY <1>1, <1>3, <2>1, <2>2, <2>3
<1>4. ASSUME a + b + c <= U64Max PROVE SumsTo(<<a, b, c>>, a + b + c)
  <2>1. PICK terms : terms = <<a, b, c>>
    OBVIOUS
  <2>2. terms \in [1 .. 3 -> Nat] /\ terms[1] = a /\ terms[2] = b /\ terms[3] = c
    BY <2>1
  <2>3. SumFunctionOnSet(terms, 1 .. 3) = a + b + c
    BY <1>2, <2>2
  <2>4. QED
    BY <1>1, <1>4, <2>1, <2>2, <2>3
<1>5. ASSUME a + b + c + d <= U64Max PROVE SumsTo(<<a, b, c, d>>, a + b + c + d)
  <2>1. PICK terms : terms = <<a, b, c, d>>
    OBVIOUS
  <2>2. terms \in [1 .. 4 -> Nat] /\ terms[1] = a /\ terms[2] = b /\ terms[3] = c /\ terms[4] = d
    BY <2>1
  <2>3. SumFunctionOnSet(terms, 1 .. 4) = a + b + c + d
    BY <1>2, <2>2
  <2>4. QED
    BY <1>1, <1>5, <2>1, <2>2, <2>3
<1>6. QED
  BY <1>3, <1>4, <1>5

\* The totals of the rows add up as the rows do.
Totals(rs) ==
  /\ RollUp(rs).raw \in Nat /\ RollUp(rs).raw <= U64Max
  /\ RollUp(rs).reserved \in Nat /\ RollUp(rs).headroom \in Nat /\ RollUp(rs).degraded \in Nat
  /\ RollUp(rs).available \in Nat
  /\ RollUp(rs).reserved + RollUp(rs).headroom + RollUp(rs).degraded + RollUp(rs).available = RollUp(rs).raw
  /\ RollUp(rs).available = AvailableTotal(rs)

\* Rows that add up have totals that do.
LEMMA TotalsProperty ==
  ASSUME NEW in_, NEW rs, RowsOK(in_, rs), RollUpFits(rs)
  PROVE  Totals(rs)
<1>1. PICK n \in Nat : DOMAIN rs = 1 .. n
  BY ListProperty DEF RowsOK
<1>2. \A k \in 1 .. n :
        /\ rs[k].raw \in Nat /\ rs[k].reserved \in Nat /\ rs[k].headroom \in Nat
        /\ rs[k].degraded \in Nat /\ rs[k].available \in Nat
        /\ rs[k].raw = rs[k].reserved + rs[k].headroom + rs[k].degraded + rs[k].available
  BY <1>1 DEF RowsOK, RowOK
<1>3. PICK T : T = 1 .. n
  OBVIOUS
<1>4. IsFiniteSet(T)
  <2>1. 1 \in Int /\ n \in Int
    OBVIOUS
  <2>2. QED
    BY <1>3, <2>1, FS_Interval
<1>5. PICK w, r, h, d, a :
        /\ w = Field(rs, LAMBDA row : row.raw) /\ r = Field(rs, LAMBDA row : row.reserved)
        /\ h = Field(rs, LAMBDA row : row.headroom) /\ d = Field(rs, LAMBDA row : row.degraded)
        /\ a = Field(rs, LAMBDA row : row.available)
  OBVIOUS
<1>6. /\ w = [k \in 1 .. n |-> rs[k].raw] /\ r = [k \in 1 .. n |-> rs[k].reserved]
      /\ h = [k \in 1 .. n |-> rs[k].headroom] /\ d = [k \in 1 .. n |-> rs[k].degraded]
      /\ a = [k \in 1 .. n |-> rs[k].available]
  BY <1>1, <1>5 DEF Field
<1>7. /\ w \in [1 .. n -> Nat] /\ r \in [1 .. n -> Nat] /\ h \in [1 .. n -> Nat]
      /\ d \in [1 .. n -> Nat] /\ a \in [1 .. n -> Nat]
  BY <1>2, <1>6
<1>8. Fits(w) /\ Fits(r) /\ Fits(h) /\ Fits(d) /\ Fits(a)
  BY <1>5 DEF RollUpFits
<1>9. \A terms \in [1 .. n -> Nat] : Fits(terms) =>
        /\ Accumulated(terms) = SumFunctionOnSet(terms, T) /\ Accumulated(terms) \in Nat
        /\ Accumulated(terms) <= U64Max
  BY <1>3, AccumulatedIsSum DEF Fits
<1>10. Accumulated(w) = Accumulated(r) + Accumulated(h) + Accumulated(d) + Accumulated(a)
  <2> DEFINE x == [k \in 1 .. n |-> rs[k].reserved + rs[k].headroom]
             y == [k \in 1 .. n |-> rs[k].reserved + rs[k].headroom + rs[k].degraded]
  <2>1. \A k \in T : /\ r[k] \in Int /\ h[k] \in Int /\ d[k] \in Int /\ a[k] \in Int
                     /\ x[k] = r[k] + h[k] /\ y[k] = x[k] + d[k] /\ w[k] = y[k] + a[k]
                     /\ x[k] \in Int /\ y[k] \in Int
    <3>1. TAKE k \in T
    <3>2. PICK row : row = rs[k]
      OBVIOUS
    <3>3. /\ row.raw \in Nat /\ row.reserved \in Nat /\ row.headroom \in Nat
          /\ row.degraded \in Nat /\ row.available \in Nat
          /\ row.raw = row.reserved + row.headroom + row.degraded + row.available
      BY <1>2, <1>3, <3>2
    <3>4. /\ w[k] = row.raw /\ r[k] = row.reserved /\ h[k] = row.headroom /\ d[k] = row.degraded
          /\ a[k] = row.available
      BY <1>3, <1>6, <3>2
    <3>5. x[k] = row.reserved + row.headroom /\ y[k] = row.reserved + row.headroom + row.degraded
      BY <1>3, <3>2
    <3> HIDE DEF x, y
    <3>6. QED
      BY <3>3, <3>4, <3>5
  <2> HIDE DEF x, y
  <2>2. SumFunctionOnSet(x, T) = SumFunctionOnSet(r, T) + SumFunctionOnSet(h, T)
    BY <1>4, <2>1, SumAdd
  <2>3. SumFunctionOnSet(y, T) = SumFunctionOnSet(x, T) + SumFunctionOnSet(d, T)
    BY <1>4, <2>1, SumAdd
  <2>4. SumFunctionOnSet(w, T) = SumFunctionOnSet(y, T) + SumFunctionOnSet(a, T)
    BY <1>4, <2>1, SumAdd
  <2>5. QED
    BY <1>7, <1>8, <1>9, <2>2, <2>3, <2>4
<1>11. PICK ru : ru = RollUp(rs)
  OBVIOUS
<1>12. /\ ru.raw = Accumulated(w) /\ ru.reserved = Accumulated(r) /\ ru.headroom = Accumulated(h)
       /\ ru.degraded = Accumulated(d) /\ ru.available = Accumulated(a)
       /\ AvailableTotal(rs) = Accumulated(a)
  BY <1>5, <1>11 DEF RollUp, Sum, AvailableTotal
<1>13. QED
  BY <1>7, <1>8, <1>9, <1>10, <1>11, <1>12 DEF Totals

-----------------------------------------------------------------------------
(* No evaluation is refused for what it makes of its own numbers *)

\* What is computed of the rows closes.
LEMMA PlainCloses ==
  ASSUME NEW ru, NEW frag,
         ru.raw \in Nat, ru.raw <= U64Max, ru.reserved \in Nat, ru.headroom \in Nat,
         ru.degraded \in Nat, ru.available \in Nat,
         ru.reserved + ru.headroom + ru.degraded + ru.available = ru.raw,
         ru.usable \in Nat, ru.spare \in Nat, ru.stranded \in Nat,
         ru.usable + ru.spare + ru.stranded = ru.available,
         StrandedTotal(ru.breakdown) = ru.stranded,
         frag.evaluated =>
           /\ ru.usable = frag.satisfied /\ ru.spare = frag.spare
           /\ ru.stranded = StrandedTotal(frag.breakdown)
           /\ frag.deliverable = ru.usable + ru.spare
           /\ frag.spare >= frag.granularityLoss
  PROVE  Closes(ru) /\ SnapshotCloses(ru, frag)
<1>1. PICK r, h, d, a, u, p, s :
        r = ru.reserved /\ h = ru.headroom /\ d = ru.degraded /\ a = ru.available
        /\ u = ru.usable /\ p = ru.spare /\ s = ru.stranded
  OBVIOUS
<1>2. /\ r \in Nat /\ h \in Nat /\ d \in Nat /\ a \in Nat /\ u \in Nat /\ p \in Nat /\ s \in Nat
      /\ r + h + d + a = ru.raw /\ r + h + d + a <= U64Max /\ u + p + s = a
  BY <1>1
<1>3. u + p + s <= U64Max /\ u + p <= U64Max /\ u + p \in Nat
  BY <1>2, CheckedAssumption
<1>4. SumsTo(<<r, h, d, a>>, r + h + d + a)
  BY <1>2, ShortSums
<1>5. SumsTo(<<u, p, s>>, u + p + s) /\ SumsTo(<<u, p>>, u + p)
  BY <1>2, <1>3, ShortSums
<1>6. SumsTo(<<u + p, s>>, u + p + s)
  BY <1>2, <1>3, ShortSums
<1>7. Closes(ru)
  BY <1>1, <1>2, <1>4, <1>5 DEF Closes
<1>8. frag.evaluated => SumsTo(<<ru.usable, ru.spare>>, frag.deliverable)
                        /\ SumsTo(<<frag.deliverable, ru.stranded>>, ru.available)
  BY <1>1, <1>2, <1>5, <1>6
<1>9. QED
  BY <1>7, <1>8 DEF SnapshotCloses

\* What the analysis attributed adds up.
LEMMA SharedCloses ==
  ASSUME EngineInv, Totals(rows), tally # <<>>, Shared(tally, rows), RollUp(rows).available <= U64Max
  PROVE  /\ StrandedTotal(tally.breakdown) \in Nat
         /\ tally.deliverable + StrandedTotal(tally.breakdown) = RollUp(rows).available
         /\ tally.deliverable - tally.satisfied \in Nat
         /\ tally.deliverable - tally.satisfied >= tally.granularityLoss
<1>1. PICK g, b, e, v : g = tally.breakdown.segmentation /\ b = tally.breakdown.bottleneck
                        /\ e = tally.breakdown.resilience /\ v = RollUp(rows).available
  OBVIOUS
<1>2. g \in Nat /\ b \in Nat /\ e \in Nat /\ tally.deliverable \in Nat
      /\ tally.deliverable + g + b + e = v /\ v <= U64Max /\ v \in Nat
  BY <1>1 DEF Totals, Shared
<1>3. g + b + e <= U64Max
  BY <1>2, CheckedAssumption
<1>4. SumsTo(<<g, b, e>>, g + b + e)
  BY <1>2, <1>3, ShortSums
<1>5. StrandedTotal(tally.breakdown) = g + b + e
  BY <1>1, <1>4 DEF StrandedTotal, SumsTo
<1>6. tally.deliverable - tally.satisfied \in Nat
      /\ tally.deliverable - tally.satisfied >= tally.granularityLoss
  BY DEF Shared
<1>7. PICK d, st : d = tally.deliverable /\ st = g + b + e
  OBVIOUS
<1>8. st \in Nat /\ d + st = v
  BY <1>2, <1>7
<1>9. QED
  BY <1>1, <1>5, <1>6, <1>7, <1>8

\* At the close of an evaluation nothing contradicts itself.
LEMMA ClosingHolds ==
  ASSUME EngineInv, SharesInv, at = "close"
  PROVE  /\ Closes(RolledUp(RollUp(rows), Analysis))
         /\ SnapshotCloses(RolledUp(RollUp(rows), Analysis), Analysis)
<1>1. RollUpFits(rows) /\ RowsOK(in, rows)
  BY DEF EngineInv, RowsHeld
<1>2. Totals(rows)
  BY <1>1, TotalsProperty
<1>3. PICK tot : tot = RollUp(rows)
  OBVIOUS
<1>4. /\ tot.raw \in Nat /\ tot.raw <= U64Max /\ tot.reserved \in Nat /\ tot.headroom \in Nat
      /\ tot.degraded \in Nat /\ tot.available \in Nat /\ tot.available <= U64Max
      /\ tot.reserved + tot.headroom + tot.degraded + tot.available = tot.raw
  BY <1>2, <1>3, CheckedAssumption DEF Totals
<1>5. CASE tally = <<>>
  <2>1. PICK frag : frag = NotAnalysed /\ Analysis = frag /\ ~ frag.evaluated
    <3>1. Analysis = NotAnalysed
      BY <1>5 DEF Analysis
    <3>2. NotAnalysed.evaluated = FALSE
      BY DEF NotAnalysed
    <3>3. QED
      BY <3>1, <3>2, Zenon
  <2>2. RolledUp(tot, frag) = tot
    BY <2>1 DEF RolledUp
  <2>3. tot.usable = tot.available /\ tot.spare = 0 /\ tot.stranded = 0
        /\ tot.breakdown = NothingStranded
    BY <1>3 DEF RollUp
  <2>4. StrandedTotal(NothingStranded) = 0
    <3>1. 0 \in Nat /\ 0 + 0 + 0 <= U64Max /\ 0 + 0 + 0 = 0
      BY CheckedAssumption
    <3>2. PICK z \in Nat : z = 0
      OBVIOUS
    <3>3. SumsTo(<<z, z, z>>, z + z + z)
      BY <3>1, <3>2, ShortSums
    <3>4. SumsTo(<<0, 0, 0>>, 0)
      BY <3>1, <3>2, <3>3
    <3>5. QED
      BY <3>4 DEF StrandedTotal, NothingStranded, SumsTo
  <2>5. Closes(tot) /\ SnapshotCloses(tot, frag)
    <3>1. /\ tot.usable \in Nat /\ tot.spare \in Nat /\ tot.stranded \in Nat
          /\ tot.usable + tot.spare + tot.stranded = tot.available
      BY <1>4, <2>3
    <3>2. StrandedTotal(tot.breakdown) = tot.stranded
      BY <2>3, <2>4
    <3>3. QED
      BY <1>4, <2>1, <3>1, <3>2, PlainCloses
  <2>6. QED
    BY <1>3, <2>1, <2>2, <2>5
<1>6. CASE tally # <<>>
  <2>1. Shared(tally, rows)
    BY <1>6 DEF SharesInv
  <2>2. PICK st : st = StrandedTotal(tally.breakdown)
    OBVIOUS
  <2>3. /\ st \in Nat /\ tally.deliverable + st = tot.available
        /\ tally.deliverable - tally.satisfied \in Nat
        /\ tally.deliverable - tally.satisfied >= tally.granularityLoss
    BY <1>2, <1>3, <1>4, <1>6, <2>1, <2>2, SharedCloses
  <2>4. PICK frag :
          /\ Analysis = frag /\ frag.evaluated /\ frag.satisfied = tally.satisfied
          /\ frag.spare = tally.deliverable - tally.satisfied
          /\ frag.deliverable = tally.deliverable /\ frag.breakdown = tally.breakdown
          /\ frag.granularityLoss = tally.granularityLoss
    <3>1. Analysis = Fragmentation
      BY <1>6 DEF Analysis
    <3>2. Fragmentation.evaluated = TRUE
      BY DEF Fragmentation
    <3>3. /\ Fragmentation.satisfied = tally.satisfied
          /\ Fragmentation.spare = tally.deliverable - tally.satisfied
          /\ Fragmentation.deliverable = tally.deliverable
          /\ Fragmentation.breakdown = tally.breakdown
          /\ Fragmentation.granularityLoss = tally.granularityLoss
      BY DEF Fragmentation
    <3>4. QED
      BY <3>1, <3>2, <3>3, Zenon
  <2>5. PICK ru : ru = RolledUp(tot, frag)
    OBVIOUS
  <2>6. /\ ru.raw = tot.raw /\ ru.reserved = tot.reserved /\ ru.headroom = tot.headroom
        /\ ru.degraded = tot.degraded /\ ru.available = tot.available
        /\ ru.usable = tally.satisfied /\ ru.spare = tally.deliverable - tally.satisfied
        /\ ru.stranded = st /\ ru.breakdown = tally.breakdown
    BY <1>3, <2>2, <2>4, <2>5 DEF RolledUp, RollUp
  <2>7. tally.satisfied \in Nat /\ tally.deliverable \in Nat
    BY <2>1 DEF Shared
  <2>8. PICK u, p : u = tally.satisfied /\ p = tally.deliverable - tally.satisfied
    OBVIOUS
  <2>9. u \in Nat /\ p \in Nat /\ u + p = tally.deliverable /\ u + p + st = tot.available
        /\ p >= tally.granularityLoss
    BY <2>3, <2>7, <2>8
  <2>10. Closes(ru) /\ SnapshotCloses(ru, frag)
    BY <1>4, <2>2, <2>3, <2>4, <2>6, <2>8, <2>9, PlainCloses
  <2>11. QED
    BY <1>3, <2>4, <2>5, <2>10
<1>7. QED
  BY <1>5, <1>6

\* Steps of the analysis that leave its shares alone.
LEMMA OtherShares ==
  ASSUME EngineInv, SharesInv, NEW t, t = tally, SolveBase \/ SolveScenario \/ SolveFailed \/ LoseDomains \/ RegainDomains
  PROVE  SharesInv' /\ (answer'.status # "contradictory" \/ answer' = answer)
<1>1. UNCHANGED <<rows, tally>>
  BY DEF SolveBase, SolveScenario, SolveAll, SolveFailed, LoseDomains, RegainDomains, analysis
<1>2. PICK rs : rs = rows
  OBVIOUS
<1>3. (Measured(t, rs) => Measured(tally', rows')) /\ tally' = t
  BY <1>1, <1>2
<1>4. CASE SolveBase \/ SolveScenario
  <2>1. at' = at /\ at \in {"base", "lost"} /\ answer' = answer
    BY <1>4 DEF SolveBase, SolveScenario, SolveAll, analysis
  <2>2. QED
    BY <1>2, <1>3, <2>1 DEF SharesInv
<1>5. CASE SolveFailed
  <2>1. at' = "done" /\ answer'.status \in {"exhausted", "cancelled"}
    BY <1>5 DEF SolveFailed, Fail
  <2>2. QED
    BY <2>1 DEF SharesInv
<1>6. CASE LoseDomains
  <2>1. at = "scenarios" /\ \/ at' = "done" /\ answer'.status = "cancelled"
                            \/ at' = "lost" /\ answer' = answer
    BY <1>6 DEF LoseDomains, Fail
  <2>2. QED
    BY <1>2, <1>3, <2>1 DEF SharesInv
<1>7. CASE RegainDomains
  <2>1. at = "regain" /\ at' = "scenarios" /\ answer' = answer
    BY <1>7 DEF RegainDomains
  <2>2. QED
    BY <1>2, <1>3, <2>1 DEF SharesInv
<1>8. QED
  BY <1>4, <1>5, <1>6, <1>7

\* Every step of the analysis keeps the shares, and none contradicts itself.
LEMMA AnalysisShares ==
  ASSUME EngineInv, ConservedInv, SharesInv, AnalysisStep
  PROVE  SharesInv' /\ (answer'.status # "contradictory" \/ answer' = answer)
<1>1. CASE SolveBase \/ SolveScenario \/ SolveFailed \/ LoseDomains \/ RegainDomains
  BY <1>1, OtherShares
<1>2. CASE BaseSolved
  <2>1. \/ at' = "done" /\ answer'.status = "exhausted"
        \/ at' = "scenarios" /\ answer' = answer
    BY <1>2 DEF BaseSolved, Fail
  <2>2. CASE at' = "scenarios"
    <3>1. Measured(tally', rows')
      BY <1>2, <2>2, BaseMeasured
    <3>2. QED
      BY <2>1, <2>2, <3>1 DEF SharesInv
  <2>3. QED
    BY <2>1, <2>2 DEF SharesInv
<1>3. CASE ScenarioSolved
  <2>1. Measured(tally', rows') /\ at' = "regain" /\ answer' = answer
    BY <1>3, ScenarioMeasured DEF ScenarioSolved
  <2>2. QED
    BY <2>1 DEF SharesInv
<1>4. CASE Attribute
  <2>1. at' = "place" /\ Shared(tally', rows') /\ answer' = answer
    BY <1>4, AttributeShares
  <2>2. QED
    BY <2>1 DEF SharesInv
<1>5. CASE PlaceFlow
  <2>1. at' = "placing" \/ (at' = "done" /\ answer'.status = "rejected")
    BY <1>5 DEF PlaceFlow, Fail
  <2>2. CASE at' = "placing"
    <3>1. /\ Shared(tally', rows') /\ answer' = answer
          /\ call'.limit \in 0 .. tally'.budget /\ call'.limit < U64Max
      BY <1>5, <2>2, PlaceShares
    <3>2. QED
      BY <2>2, <3>1 DEF SharesInv
  <2>3. QED
    BY <2>1, <2>2 DEF SharesInv
<1>6. CASE FlowPlaced
  <2>1. at' = "place" \/ (at' = "done" /\ answer'.status = "rejected")
    BY <1>6 DEF FlowPlaced, Fail
  <2>2. CASE at' = "place"
    <3>1. Shared(tally', rows') /\ answer' = answer
      BY <1>6, <2>2, PlacedShares
    <3>2. QED
      BY <2>2, <3>1 DEF SharesInv
  <2>3. QED
    BY <2>1, <2>2 DEF SharesInv
<1>7. QED
  BY <1>1, <1>2, <1>3, <1>4, <1>5, <1>6 DEF AnalysisStep

\* Nothing is answered that contradicts itself.
LEMMA OuterShares ==
  ASSUME EngineInv, SharesInv, answer.status # "contradictory",
         Validate \/ Account \/ Analyse \/ Query \/ Predict \/ Analysed \/ Close
  PROVE  answer'.status # "contradictory"
<1>1. CASE Validate \/ Account
  BY <1>1 DEF Validate, Account, Fail
<1>2. CASE Analyse \/ Query
  BY <1>2 DEF Analyse, Query, BeginAnalysis, Fail
<1>3. CASE Predict
  <2>1. answer' \in Predictions(in.request, in.now, in.limits)
    BY <1>3 DEF Predict
  <2>2. QED
    <3>1. \A entries : Totalled(entries, in.limits).status \in {"ok", "rejected"}
      BY DEF Totalled
    <3>2. QED
      BY <2>1, <3>1 DEF Predictions
<1>4. CASE Analysed
  <2>1. at = "place" /\ Shared(tally, rows)
    BY <1>4 DEF Analysed, AllPlaced, SharesInv
  <2>2. tally.satisfied <= tally.deliverable
    BY <2>1 DEF Shared
  <2>3. PICK s, d : s = tally.satisfied /\ d = tally.deliverable /\ ~ (s > d)
    BY <2>1, <2>2 DEF Shared
  <2>4. \/ answer' = QueryAnswer(in.query)
        \/ answer' = answer
    BY <1>4, <2>3 DEF Analysed
  <2>5. QueryAnswer(in.query).status = "ok"
    BY DEF QueryAnswer
  <2>6. QED
    BY <2>4, <2>5
<1>5. CASE Close
  <2>1. PICK frag, ru : frag = Analysis /\ ru = RolledUp(RollUp(rows), frag)
    OBVIOUS
  <2>2. Closes(ru) /\ SnapshotCloses(ru, frag)
    BY <1>5, <2>1, ClosingHolds DEF Close
  <2>3. answer'.status \in {"cancelled", "ok"}
    BY <1>5, <2>1, <2>2 DEF Close, Fail
  <2>4. QED
    BY <2>3
<1>6. QED
  BY <1>1, <1>2, <1>3, <1>4, <1>5

\* Every step keeps the shares, and none contradicts itself.
LEMMA SharesStep ==
  ASSUME EngineInv, ConservedInv, SharesInv, [Next]_evaluation
  PROVE  SharesInv' /\ (ClosureNeverFails => ClosureNeverFails')
<1> USE DEF ClosureNeverFails
<1>1. CASE Validate \/ Account \/ Analyse \/ Query \/ Predict \/ Analysed \/ Close
  <2>1. answer.status # "contradictory" => answer'.status # "contradictory"
    BY <1>1, OuterShares
  <2>2. CASE \E shape : Begins(shape)
    <3>1. at' = "base" /\ tally'.satisfied = 0 /\ tally'.granularityLoss = 0
      BY <2>2 DEF Begins, FreshTally
    <3>2. QED
      BY <2>1, <3>1 DEF SharesInv
  <2>3. CASE ~ \E shape : Begins(shape)
    <3>1. Outside
      BY <1>1, <2>3, OuterSteps DEF EngineInv, EvaluationInv
    <3>2. CASE at' = "close" /\ tally # <<>>
      <4>1. at = "place"
        <5>1. at = "accounted" => tally = <<>>
          BY DEF EngineInv, EvaluationInv, FormInv
        <5>2. QED
          BY <1>1, <3>2, <5>1 DEF Validate, Account, Analyse, Query, BeginAnalysis, Predict, Analysed,
             AllPlaced, Close, Fail
      <4>2. UNCHANGED <<tally, rows>> /\ Shared(tally, rows)
        BY <3>1, <3>2, <4>1 DEF Outside, SharesInv
      <4>3. PICK t, rs : t = tally /\ rs = rows /\ Shared(t, rs)
        BY <4>2
      <4>4. Shared(tally', rows')
        BY <4>2, <4>3
      <4>5. QED
        BY <2>1, <3>2, <4>4 DEF SharesInv
    <3>3. CASE ~ (at' = "close" /\ tally # <<>>)
      <4>1. tally' = tally /\ at' \notin {"base", "scenarios", "lost", "regain", "place", "placing"}
        BY <3>1 DEF Outside
      <4>2. QED
        BY <2>1, <3>3, <4>1 DEF SharesInv
    <3>4. QED
      BY <3>2, <3>3
  <2>4. QED
    BY <2>2, <2>3
<1>2. CASE AnalysisStep
  BY <1>2, AnalysisShares
<1>3. CASE Solving \/ Cancelling \/ UNCHANGED evaluation
  <2>1. UNCHANGED <<at, tally, rows, call, answer>>
    BY <1>3 DEF Solving, Step, Scan, Levelled, Advance, Retreat, Augment, LimitReached, Finish, Charge,
       Cancelling, Cancel, evaluation, flowVars, analysis
  <2>2. PICK t, rs, c, a : t = tally /\ rs = rows /\ c = call /\ a = at
    OBVIOUS
  <2>3. tally' = t /\ rows' = rs /\ call' = c /\ at' = a
    BY <2>1, <2>2
  <2>4. /\ a = "base" => t.satisfied = 0 /\ t.granularityLoss = 0
        /\ a \in {"scenarios", "lost", "regain"} => Measured(t, rs)
        /\ a \in {"place", "placing"} \/ (a = "close" /\ t # <<>>) => Shared(t, rs)
        /\ a = "placing" => c.limit \in 0 .. t.budget /\ c.limit < U64Max
    BY <2>2 DEF SharesInv
  <2>5. QED
    BY <2>1, <2>3, <2>4 DEF SharesInv
<1>4. QED
  BY <1>1, <1>2, <1>3 DEF Next, Evaluate

\* In every reachable evaluation what is available is deliverable or stranded
\* for one cause, and what is deliverable is left, placed or lost to the grain.
THEOREM SharesInvariant == Spec => []SharesInv
<1>1. Init => SharesInv
  BY DEF Init, SharesInv
<1>2. EngineInv /\ ConservedInv /\ SharesInv /\ [Next]_evaluation => SharesInv'
  BY SharesStep
<1>3. QED
  BY <1>1, <1>2, EngineInvariant, ConservedInvariant, PTL DEF Spec

\* No input makes an evaluation contradict itself.
THEOREM ClosuresHold == Spec => []ClosureNeverFails
<1>1. Init => ClosureNeverFails
  BY DEF Init, ClosureNeverFails, Unanswered
<1>2. EngineInv /\ ConservedInv /\ SharesInv /\ [Next]_evaluation
        => (ClosureNeverFails => ClosureNeverFails')
  BY SharesStep
<1>3. QED
  BY <1>1, <1>2, EngineInvariant, ConservedInvariant, SharesInvariant, PTL DEF Spec
=============================================================================
