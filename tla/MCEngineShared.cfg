\* Two flows that share a residual network and no edge.
SPECIFICATION FairSpec
CONSTANTS
  U64Max = 1023
  I64Max = 511
  Ppm = 10
  CancelInterval = 7
  NanosPerSecond = 2
  SecondsPerHour = 3
  Divisors <- MCDivisors
  None = None
  Before <- MCBefore
  Problems <- MCOpposing
CHECK_DEADLOCK FALSE
INVARIANT AllocationIsFeasible
