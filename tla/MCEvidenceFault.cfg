\* One fetch, of which the server loses the connection.
SPECIFICATION FairSpec
CONSTANTS
  Clients = {"client"}
  Options <- MCOptions
  Population <- MCPopulation
  Authorised = {"r1"}
  Largest = 2
  Limit = 3
  Taken = 1
CHECK_DEADLOCK FALSE
PROPERTY ErrorsAreListenerFaults
