\* Transactions of one or two records, records written alone, failed calls,
\* kills and power losses anywhere.
SPECIFICATION Spec
CONSTANTS
  Ops = {a, b}
  MaxGroup = 2
  MaxSeq = 7
  TornWrites = FALSE
CHECK_DEADLOCK FALSE
INVARIANTS CommittedExactly SequencesIncrease ScanIsReference
PROPERTY OpenRepairs
SYMMETRY OpsSymmetry
