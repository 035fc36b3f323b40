----------------------------- MODULE Accounting -----------------------------
(***************************************************************************)
(* The accounting of engine/accounting.cpp: a row for every resource, which *)
(* splits its raw capacity into reserved, protected, degraded and           *)
(* available units, the totals over the rows, and the identities that a     *)
(* snapshot must satisfy before it is published.                           *)
(***************************************************************************)
EXTENDS Inputs

Sum(rows, Get(_)) == Accumulated(Field(rows, Get))

-----------------------------------------------------------------------------
(* derive_accounting *)

Reserved(in, resource) == Accumulated(Amounts(in.reservations, resource.id))

\* What a degradation record takes from a resource: its absolute loss, or its
\* fraction of what the resource reports with authority.
Loss(resource, record) ==
  IF record.ppm # 0
    THEN Scale(IF resource.authoritative THEN resource.reported ELSE 0, record.ppm)
    ELSE record.lost
LossFits(resource, record) ==
  record.ppm # 0 => ScaleFits(IF resource.authoritative THEN resource.reported ELSE 0, record.ppm)
Losses(in, resource) ==
  LaidOn(in.degradation.records, resource.id, LAMBDA record : Loss(resource, record))
Degraded(in, resource) == Accumulated(Losses(in, resource))

\* The floor of the policy, which cannot protect more than there is.
HeadroomFits(in, raw) ==
  in.policy.headroomPpm # 0 =>
    /\ ScaleFits(raw, in.policy.headroomPpm)
    /\ AddFits(in.policy.headroom, Scale(raw, in.policy.headroomPpm))
Headroom(in, raw) ==
  LET floor == in.policy.headroom + Scale(raw, in.policy.headroomPpm)
  IN  IF floor > raw THEN raw ELSE floor

Usable(resource) == resource.authoritative /\ resource.present
Healthy(in, resource) ==
  Known(in.domains.records, resource.domain) =>
    Find(in.domains.records, resource.domain).healthy

\* A resource without authority is unknown capacity only; one whose domain is
\* lost is degraded as a whole, and what is laid on it is not counted twice.
Row(in, resource) ==
  LET usable  == Usable(resource)
      healthy == Healthy(in, resource)
      counted == usable /\ healthy
      raw     == IF usable THEN resource.reported ELSE 0
      reserved == IF counted THEN Reserved(in, resource) ELSE 0
      headroom == IF counted THEN Headroom(in, raw) ELSE 0
      degraded == IF counted THEN Degraded(in, resource) ELSE raw
  IN  [resource |-> resource.id, domain |-> resource.domain, present |-> resource.present,
       authoritative |-> usable, healthy |-> healthy,
       raw |-> raw, unknown |-> IF usable THEN 0 ELSE resource.reported,
       reserved |-> reserved, headroom |-> headroom, degraded |-> degraded,
       available |-> raw - reserved - headroom - degraded,
       admissible |-> TRUE, stranded |-> 0, cause |-> "none"]

\* Mutant of Deductible: a row with more deducted than it has is kept.
DeductibleAnyhow(in, resource) ==
  (Usable(resource) /\ Healthy(in, resource)) => HeadroomFits(in, resource.reported)

\* The deductions of a row, made one after the other, leave nothing negative.
Deductible(in, resource) ==
  (Usable(resource) /\ Healthy(in, resource)) =>
    /\ HeadroomFits(in, resource.reported)
    /\ Row(in, resource).available >= 0

Derivable(in) ==
  /\ ValidCatalogs(in)
  /\ ValidPolicy(in.policy, in.limits)
  /\ \A i \in DOMAIN in.resources.records :
       LET resource == in.resources.records[i]
       IN  /\ Fits(Amounts(in.reservations, resource.id))
           /\ \A d \in DOMAIN in.degradation.records :
                in.degradation.records[d].resource = resource.id =>
                  LossFits(resource, in.degradation.records[d])
           /\ Fits(Losses(in, resource))
           /\ ~ (Usable(resource) /\ in.policy.rejectUnknown)
           /\ Deductible(in, resource)

Rows(in) ==
  Field(SortedBy(in.resources.records, LAMBDA a, b : Before(a.id, b.id)),
        LAMBDA resource : Row(in, resource))

-----------------------------------------------------------------------------
(* roll_up and the identities of closure *)

NothingStranded == [segmentation |-> 0, bottleneck |-> 0, resilience |-> 0]
StrandedTotal(breakdown) ==
  Accumulated(<<breakdown.segmentation, breakdown.bottleneck, breakdown.resilience>>)

RollUpFits(rows) ==
  /\ Fits(Field(rows, LAMBDA row : row.raw))
  /\ Fits(Field(rows, LAMBDA row : row.unknown))
  /\ Fits(Field(rows, LAMBDA row : row.reserved))
  /\ Fits(Field(rows, LAMBDA row : row.headroom))
  /\ Fits(Field(rows, LAMBDA row : row.degraded))
  /\ Fits(Field(rows, LAMBDA row : row.available))

Count(rows, Test(_)) == Len(SelectSeq(rows, Test))

\* Without a demand shape there is nothing to strand capacity against.
RollUp(rows) ==
  LET available == Sum(rows, LAMBDA row : row.available)
  IN  [raw |-> Sum(rows, LAMBDA row : row.raw),
       unknown |-> Sum(rows, LAMBDA row : row.unknown),
       reserved |-> Sum(rows, LAMBDA row : row.reserved),
       headroom |-> Sum(rows, LAMBDA row : row.headroom),
       degraded |-> Sum(rows, LAMBDA row : row.degraded),
       available |-> available, usable |-> available, spare |-> 0, stranded |-> 0,
       breakdown |-> NothingStranded, reservedStranded |-> 0, evaluated |-> FALSE,
       present |-> Count(rows, LAMBDA row : row.present),
       unauthoritative |-> Count(rows, LAMBDA row : ~ row.authoritative)]

SumsTo(terms, total) == Fits(terms) /\ Accumulated(terms) = total

Closes(rollup) ==
  /\ SumsTo(<<rollup.reserved, rollup.headroom, rollup.degraded, rollup.available>>, rollup.raw)
  /\ SumsTo(<<rollup.usable, rollup.spare, rollup.stranded>>, rollup.available)
  /\ StrandedTotal(rollup.breakdown) = rollup.stranded

\* verify_closure of a snapshot: its rollup closes, and agrees with its
\* fragmentation.
SnapshotCloses(rollup, fragmentation) ==
  /\ Closes(rollup)
  /\ fragmentation.evaluated =>
       /\ rollup.usable = fragmentation.satisfied
       /\ rollup.spare = fragmentation.spare
       /\ rollup.stranded = StrandedTotal(fragmentation.breakdown)
       /\ SumsTo(<<rollup.usable, rollup.spare>>, fragmentation.deliverable)
       /\ SumsTo(<<fragmentation.deliverable, rollup.stranded>>, rollup.available)
       /\ fragmentation.spare >= fragmentation.granularityLoss

=============================================================================
