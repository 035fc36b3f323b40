SPECIFICATION FairSpec
CONSTANTS
  U64Max = 1023
  I64Max = 511
  Ppm = 10
  CancelInterval = 7
  NanosPerSecond = 2
  SecondsPerHour = 3
  Divisors <- MCDivisors
  None = None
  Before <- MCBefore
  Problems <- MCProblems
CHECK_DEADLOCK FALSE
INVARIANTS TypeOK FlowIsFeasible FlowConserved PromisedUnitsExist
  DeliverableIsMinimumCut SingleFlowIsExact ClosureNeverFails StrandingIsAttributed
  PredictionStaysInAllowance PredictionRestsOnEvidence
PROPERTIES CancelledPublishesNothing SolverProtocol EvaluationEnds
