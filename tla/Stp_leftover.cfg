SPECIFICATION FairSpec
CONSTANTS
  Tries = 2
  MaxAsks = 3
  MaxReturns = 0
  MaxRestarts = 0
  MaxFaults = 0
  StaleReads = FALSE
CHECK_DEADLOCK FALSE
PROPERTIES
  EveryStopEnds
