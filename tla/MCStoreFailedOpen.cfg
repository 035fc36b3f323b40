\* A failed open, whose destructor closes the store, after a crash.
SPECIFICATION Spec
CONSTANTS
  Keys = {k1}
  Values = {v1}
  Absent = Absent
  Current = Current
  Revalidate = Revalidate
  Sources = {}
  Holders = {}
  Points = {}
  MaxHistory = 1
  CrashWindows = {}
  Faults = {"none"}
  MaxSeq = 13
  MaxEpoch = 3
  MaxBoot = 3
CHECK_DEADLOCK FALSE
INVARIANT IncarnationsAdvance
