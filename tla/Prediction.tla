----------------------------- MODULE Prediction -----------------------------
(***************************************************************************)
(* predict() of engine/prediction.cpp: what each resource will have usable  *)
(* at a horizon, extrapolated from the observations of it, and the total.  *)
(*                                                                         *)
(* Times are signed nanoseconds, 0 for none; an observation has its         *)
(* resource, its time, its units, its class and whether it is              *)
(* authoritative.  Of an unavailable prediction only that is kept, not why. *)
(***************************************************************************)
EXTENDS Inputs

CONSTANTS
  NanosPerSecond, SecondsPerHour,
  Divisors     \* kDivisors: what observations are divided by until a fit fits

ASSUME PredictionAssumption ==
  NanosPerSecond \in 1 .. I64Max /\ SecondsPerHour \in Nat \ {0}

\* Signed division, which truncates.
Magnitude(x) == IF x < 0 THEN 0 - x ELSE x
Truncated(a, b) ==
  LET quotient == Magnitude(a) \div Magnitude(b)
  IN  IF (a < 0) = (b < 0) THEN quotient ELSE 0 - quotient

Seconds(earlier, later) == Truncated(later - earlier, NanosPerSecond)

\* A signed product that overflows is undefined.  Where the code does not check
\* it, a build wraps it, or folds it into the division or comparison it is for.
\* mul_i64 checks a product by dividing it again, which finds nothing in a build
\* that takes (a * b) / b for a.
Builds == [folds : BOOLEAN, believes : BOOLEAN]
Product(x, build) == IF build.folds THEN x ELSE Wrapped(x)
Multiplied(a, b, build) == IF build.believes THEN Wrapped(a * b) ELSE a * b

Between(floor, x, ceiling) == IF x > ceiling THEN ceiling ELSE IF x < floor THEN floor ELSE x

-----------------------------------------------------------------------------
(* The observations that count. *)

\* Mutant of Counts: the class and the authority are not looked at.
CountsOfAnySource(record, request, now) ==
  /\ request.resource \in {None, record.resource}
  /\ SubFits(now, record.at)
  /\ Seconds(record.at, now) >= 0
  /\ Seconds(record.at, now) * NanosPerSecond <= request.maxAge

\* Their class and authority allow it, and they are of the resource asked for,
\* not of the future, and not too old, to the second.
Counts(record, request, now) ==
  /\ MayBeAuthoritative(record.class) /\ record.authoritative
  /\ request.resource \in {None, record.resource}
  /\ SubFits(now, record.at)
  /\ Seconds(record.at, now) >= 0
  /\ Seconds(record.at, now) * NanosPerSecond <= request.maxAge

Earlier(a, b) == a.at < b.at \/ (a.at = b.at /\ Before(a.resource, b.resource))

\* The sort does not say in which order observations of one resource at one
\* time come.
Sortings(request, now) ==
  LET counted == {i \in DOMAIN request.history : Counts(request.history[i], request, now)}
      sorted == {s \in SetToSeqs(counted) :
                   \A i, j \in DOMAIN s :
                     i < j => ~ Earlier(request.history[s[j]], request.history[s[i]])}
  IN  {Field(s, LAMBDA i : request.history[i]) : s \in sorted}

\* The newest, of whatever resource.
Latest(observations, limit) ==
  SubSeq(observations, IF Len(observations) > limit THEN Len(observations) - limit + 1 ELSE 1,
         Len(observations))

-----------------------------------------------------------------------------
(* The series of one resource, oldest first. *)

Total(seq) == SumFunction(seq)

\* least_squares_slope over seconds x and units y: the slope per second, or
\* none when a term does not fit or all x are the same.
Fit(xs, ys, build) ==
  LET n == Len(xs)
      squares == [i \in 1 .. n |-> Multiplied(xs[i], xs[i], build)]
      products == [i \in 1 .. n |-> Multiplied(xs[i], ys[i], build)]
      sums == {Total(SubSeq(seq, 1, k)) : seq \in {xs, ys, squares, products}, k \in 1 .. n}
      left == Multiplied(n, Total(products), build)
      right == Multiplied(Total(xs), Total(ys), build)
      over == Multiplied(n, Total(squares), build)
      under == Multiplied(Total(xs), Total(xs), build)
      terms == sums \cup Range(squares) \cup Range(products) \cup {left, right, over, under}
  IN  IF /\ \A term \in terms : InI64(term)
         /\ SubFits(left, right) /\ SubFits(over, under) /\ over # under
        THEN {Truncated(left - right, over - under)} ELSE {}

\* The trend is fitted to the units, or to what a divisor leaves of them; if
\* no fit fits, there is none.
Fitted(samples, build) ==
  LET Scaled(d) ==
        {Multiplied(slope, d, build) :
           slope \in Fit(Field(samples, LAMBDA s : Seconds(samples[1].at, s.at)),
                         Field(samples, LAMBDA s : s.units \div d), build)}
  IN  [i \in DOMAIN Divisors |-> {slope \in Scaled(Divisors[i]) : InI64(slope)}]
Trend(fitted) ==
  UNION {fitted[i] : i \in {k \in DOMAIN Divisors : \A j \in 1 .. k - 1 : fitted[j] = {}}}

\* An exponentially weighted level; none when a step does not fit.
Smoothed(samples, alpha, build) ==
  FoldLeft(LAMBDA levels, s :
             {next \in {level + Truncated(Product((s.units - level) * alpha, build), Ppm) :
                          level \in {l \in levels : SubFits(s.units, l)}} : InI64(next)},
           {samples[1].units}, Tail(samples))

Newest(samples) == samples[Len(samples)]
Horizon(request, now) == IF request.horizon = 0 THEN now ELSE request.horizon

\* What the series starts from: the newest observation, or the level.
Bases(samples, request, build) ==
  IF request.model = "ewma-level"
    THEN {IF level < 0 THEN 0 ELSE level :
            level \in Smoothed(samples, IF request.alpha > Ppm THEN Ppm ELSE request.alpha, build)}
    ELSE {Newest(samples).units}

Clamped(request, slope) ==
  LET limit == Signed(request.growth)
  IN  IF limit > 0 THEN Between(-limit, slope, limit) ELSE slope

\* factor_from_ratio
Factor(value, limit) ==
  IF limit <= 0 THEN 0
  ELSE IF value <= 0 THEN Ppm
  ELSE IF value >= limit THEN 0
  ELSE Ppm - (value * Ppm) \div limit

Confidence(samples, request, now, impaired) ==
  LET count == IF Len(samples) < 8 THEN (Len(samples) * Ppm) \div 8 ELSE Ppm
      age   == IF SubFits(now, Newest(samples).at)
                 THEN Factor(Seconds(Newest(samples).at, now), request.maxAge \div NanosPerSecond)
                 ELSE Ppm
      ahead == Factor(Seconds(Newest(samples).at, Horizon(request, now)),
                      request.maxExtrapolation \div NanosPerSecond)
  IN  ((((count * age) \div Ppm) * ahead) \div Ppm) \div impaired

Unavailable == [available |-> FALSE]

\* evaluate_series up to the extrapolation: the series can be used.
Sufficient(samples, request, now) ==
  LET seconds == Seconds(Newest(samples).at, Horizon(request, now))
  IN  /\ Len(samples) >= request.minimum
      /\ SubFits(Horizon(request, now), Newest(samples).at)
      /\ seconds >= 0
      /\ seconds * NanosPerSecond <= request.maxExtrapolation
      /\ request.model \in {"bounded-linear-trend", "ewma-level"} =>
           \A i \in DOMAIN samples : samples[i].units <= I64Max
      /\ request.model = "bounded-linear-trend" =>
           \A i \in DOMAIN samples : SubFits(samples[i].at, samples[1].at)

\* Mutant of Moved: the floor of the movement is left out.
MovedDown(base, projected, movement) ==
  Between(0, projected, base + Scale(base, movement))

\* The total movement is bounded by a fraction of the base.
Moved(base, projected, movement) ==
  LET allowance == Scale(base, movement)
  IN  Between(IF base > allowance THEN base - allowance ELSE 0, projected,
              IF AddFits(base, allowance) THEN base + allowance ELSE U64Max)

\* The slope per second, per hour as it is bounded, and the movement in the
\* time ahead, step by step: each set has one member.
Slopes(samples, request, build) ==
  IF request.model # "bounded-linear-trend" THEN {[rising |-> 0, fallback |-> FALSE]}
  ELSE {[rising |-> IF slopes = {} THEN 0 ELSE CHOOSE slope \in slopes : TRUE,
         fallback |-> slopes = {}] :
          slopes \in {Trend(fitted) : fitted \in {Fitted(samples, build)}}}
Hourly(samples, request, build) ==
  {[perHour |-> Product(s.rising * SecondsPerHour, build), fallback |-> s.fallback] :
     s \in Slopes(samples, request, build)}
Movements(samples, request, now, build) ==
  LET ahead == Seconds(Newest(samples).at, Horizon(request, now)) * NanosPerSecond
      bounded == {[slope |-> Clamped(request, h.perHour), clamped |-> Clamped(request, h.perHour) # h.perHour,
                   fallback |-> h.fallback] : h \in Hourly(samples, request, build)}
  IN  {[slope |-> b.slope, clamped |-> b.clamped, fallback |-> b.fallback,
        delta |-> Truncated(Product(b.slope * ahead, build), SecondsPerHour * NanosPerSecond)] :
         b \in bounded}

Reached(base, delta, limits) ==
  IF InI64(base + delta) THEN base + delta
  ELSE IF delta > 0 THEN limits.capacity ELSE 0

Extrapolated(samples, request, now, limits, base, movement, predicted) ==
  LET bounded == movement.clamped \/ predicted # base + movement.delta
  IN  IF ~ ScaleFits(base, request.movement) \/ predicted > limits.capacity THEN Unavailable
      ELSE [available |-> TRUE, base |-> base, predicted |-> predicted, samples |-> Len(samples),
            slope |-> Wrapped(movement.slope),
            confidence |-> Confidence(samples, request, now,
                             (IF bounded THEN 2 ELSE 1) * (IF movement.fallback THEN 2 ELSE 1))]

\* What becomes of a series; nothing when its level does not fit.
Outcomes(samples, request, now, limits, build) ==
  UNION {{Extrapolated(samples, request, now, limits, base, movement, predicted) :
            predicted \in {Moved(base, Reached(base, movement.delta, limits), request.movement)}} :
           base \in {b \in Bases(samples, request, build) : b <= I64Max},
           movement \in Movements(samples, request, now, build)}

Series(samples, request, now, limits, build) ==
  LET outcomes == IF Sufficient(samples, request, now)
                    THEN Outcomes(samples, request, now, limits, build) ELSE {}
  IN  IF outcomes = {} THEN Unavailable ELSE CHOOSE outcome \in outcomes : TRUE

-----------------------------------------------------------------------------
(* predict() *)

AcceptedRequest(request, limits) ==
  /\ request.model # "none"
  /\ request.minimum # 0
  /\ Len(request.history) <= 16 * limits.samples
  /\ request.maxExtrapolation > 0
  /\ request.maxAge > 0

\* A series for each resource that is left.
Entries(samples, request, now, limits, build) ==
  [r \in {samples[i].resource : i \in DOMAIN samples} |->
     Series(Field(InOrder({i \in DOMAIN samples : samples[i].resource = r}), LAMBDA i : samples[i]),
            request, now, limits, build)]

\* The totals over the resources that could be predicted; what is refused is
\* an error, what is not available is unknown.
Totalled(entries, limits) ==
  LET able == SetToSeq({r \in DOMAIN entries : entries[r].available})
      predicted == Field(able, LAMBDA r : entries[r].predicted)
      bases == Field(able, LAMBDA r : entries[r].base)
  IN  IF ~ Fits(predicted) \/ ~ Fits(bases) THEN [status |-> "rejected"]
      ELSE [status |-> "ok", entries |-> entries,
            available |-> able # <<>> /\ Total(predicted) <= limits.capacity,
            predicted |-> Total(predicted), base |-> Total(bases),
            confidence |-> IF able = <<>> THEN 0
                           ELSE Total(Field(able, LAMBDA r : entries[r].confidence)) \div Len(able)]

Predictions(request, now, limits) ==
  IF ~ AcceptedRequest(request, limits) THEN {[status |-> "rejected"]}
  ELSE {Totalled(Entries(Latest(sorted, limits.samples), request, now, limits, build), limits) :
          sorted \in Sortings(request, now), build \in Builds}

=============================================================================
