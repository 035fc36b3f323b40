\* A store that crashes anywhere but in its fragile windows, and whose system
\* calls succeed.
SPECIFICATION Spec
CONSTANTS
  Keys = {k1}
  Values = {v1, v2}
  Absent = Absent
  Current = Current
  Revalidate = Revalidate
  Sources = {s1}
  Holders = {h1}
  Points = {p1}
  MaxHistory = 2
  CrashWindows = {}
  Faults = {}
  MaxSeq = 13
  MaxEpoch = 3
  MaxBoot = 3
CHECK_DEADLOCK FALSE
INVARIANTS TypeOK AcknowledgedSurvive HistorySurvives IncarnationsAdvance
  LiveClaimsAreFresh NumberingContinues Reopenable
PROPERTY ImplementsDurableMap
