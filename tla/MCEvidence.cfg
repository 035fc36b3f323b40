\* A fetch from a server that moves on and restarts, and serves another as well.
SPECIFICATION FairSpec
CONSTANTS
  Clients = {"client", "foreigner"}
  Options <- MCOptions
  Population <- MCPopulation
  Authorised = {"r1"}
  Largest = 2
  Limit = 3
  Taken = 1
CHECK_DEADLOCK FALSE
INVARIANTS TypeOK AnswersMeetRequirements AnswersAreFresh NothingOverlooked
PROPERTIES FetchEnds StopEnds
