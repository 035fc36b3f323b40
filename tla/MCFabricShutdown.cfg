SPECIFICATION Spec
CONSTANTS
  Threads = {t1, t2}
  Configurers = {t1}
  Evaluators = {t2}
  Compactors = {}
  Closers = {t1}
  Artefacts = {p}
  Models = {m}
  Names <- NamesAll
  Catalogs = {"resources"}
  Values = {v1, v2}
  Contents <- ContentsByKind
  Absent = Absent
  Supplied = {0, 1}
  Widest = 5
  MaxHistory = 1
  Failing = {}
  MaxGeneration = 2
CHECK_DEADLOCK FALSE
INVARIANT ReleasedStoreIsUnused
