\* A crash between the creation of the journal and the write of its header.
SPECIFICATION Spec
CONSTANTS
  Keys = {k1}
  Values = {v1}
  Absent = Absent
  Current = Current
  Revalidate = Revalidate
  Sources = {}
  Holders = {}
  Points = {}
  MaxHistory = 1
  CrashWindows = {"create"}
  Faults = {}
  MaxSeq = 13
  MaxEpoch = 3
  MaxBoot = 3
CHECK_DEADLOCK FALSE
INVARIANT AcknowledgedSurvive
