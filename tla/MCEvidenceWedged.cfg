\* A peer that asks for more than a connection takes and does not read it.
SPECIFICATION FairSpec
CONSTANTS
  Clients = {"peer"}
  Options <- MCOptions
  Population <- MCPopulation
  Authorised = {"r1"}
  Largest = 2
  Limit = 3
  Taken = 1
CHECK_DEADLOCK FALSE
PROPERTY WedgedPeersSurface
