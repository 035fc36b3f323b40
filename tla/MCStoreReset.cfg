\* A crash after a compaction, before anything is numbered above its checkpoint.
SPECIFICATION Spec
CONSTANTS
  Keys = {k1}
  Values = {v1}
  Absent = Absent
  Current = Current
  Revalidate = Revalidate
  Sources = {}
  Holders = {}
  Points = {}
  MaxHistory = 1
  CrashWindows = {"reset"}
  Faults = {}
  MaxSeq = 13
  MaxEpoch = 3
  MaxBoot = 3
CHECK_DEADLOCK FALSE
INVARIANT AcknowledgedSurvive
