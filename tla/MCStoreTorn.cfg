\* A write that fails half way in a process that goes on.
SPECIFICATION Spec
CONSTANTS
  Keys = {k1}
  Values = {v1}
  Absent = Absent
  Current = Current
  Revalidate = Revalidate
  Sources = {}
  Holders = {}
  Points = {}
  MaxHistory = 1
  CrashWindows = {}
  Faults = {"torn"}
  MaxSeq = 13
  MaxEpoch = 3
  MaxBoot = 3
CHECK_DEADLOCK FALSE
INVARIANT AcknowledgedSurvive
