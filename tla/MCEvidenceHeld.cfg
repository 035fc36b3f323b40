\* A peer that reads all it is sent, and greets the server again and again.
SPECIFICATION FairSpec
CONSTANTS
  Clients = {"peer"}
  Options <- MCOptions
  Population <- MCPopulation
  Authorised = {"r1"}
  Largest = 2
  Limit = 3
  Taken = 2
CHECK_DEADLOCK FALSE
PROPERTY ServesUntilStop
