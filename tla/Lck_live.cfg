SPECIFICATION FairSpec
CONSTANTS
  c1 = c1
  c2 = c2
  p1 = p1
  p2 = p2
  Elder = elder
  NONE = NONE
  OWNER = OWNER
  Call = {c1, c2}
  Process = {p1, p2, elder}
  PidOf <- PidOfOwn
  Leftovers = TRUE
  Dead = NONE
  MayExit = {p1, p2}
  MayDie = {p1, p2, elder}
  Timeouts = TRUE
  MaxFaults = 1
CHECK_DEADLOCK FALSE
INVARIANTS
  MutualExclusion
  ReleasesItsOwn
  HolderKeepsIt
PROPERTIES
  IsALock
  EveryCallEnds
