\* Every crash window and every failing system call.
SPECIFICATION Spec
CONSTANTS
  Keys = {k1}
  Values = {v1}
  Absent = Absent
  Current = Current
  Revalidate = Revalidate
  Sources = {}
  Holders = {h1}
  Points = {p1}
  MaxHistory = 1
  CrashWindows = {"reset", "create", "entry"}
  Faults = {"kept", "none", "torn", "dirsync", "nojournal"}
  MaxSeq = 9
  MaxEpoch = 2
  MaxBoot = 3
CHECK_DEADLOCK FALSE
INVARIANTS JournalOrdered ReplayIsLastWrite
