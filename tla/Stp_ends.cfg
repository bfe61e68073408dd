SPECIFICATION FairSpec
CONSTANTS
  Tries = 3
  MaxAsks = 1
  MaxReturns = 2
  MaxRestarts = 2
  MaxFaults = 1
  StaleReads = TRUE
CHECK_DEADLOCK FALSE
INVARIANTS
  TypeOK
  Watched
  FailsForCause
PROPERTIES
  ResultStands
  EveryStopEnds
