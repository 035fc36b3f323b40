\* An advance of the epoch that reaches the disk and reports a failure.
SPECIFICATION Spec
CONSTANTS
  Keys = {k1}
  Values = {v1}
  Absent = Absent
  Current = Current
  Revalidate = Revalidate
  Sources = {}
  Holders = {}
  Points = {}
  MaxHistory = 1
  CrashWindows = {}
  Faults = {"kept"}
  MaxSeq = 13
  MaxEpoch = 3
  MaxBoot = 3
CHECK_DEADLOCK FALSE
INVARIANT IncarnationsAdvance
