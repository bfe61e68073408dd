SPECIFICATION FairSpec
CONSTANTS
  server = server
  cli = cli
  c1 = c1
  c2 = c2
  c3 = c3
  r1 = r1
  r2 = r2
  early = early
  NONE = NONE
  Call = {c1, c2, c3}
  Process = {server, cli}
  PidOf <- PidOfEach
  Reader = {early}
  HomeOf <- HomeOfEach
  Row = {r1, r2}
  Asks <- AsksEach
  MaxFaults = 1
  MaxEnds = 1
CHECK_DEADLOCK FALSE
INVARIANTS
  TypeOK
  AnsweredStays
  ReadsItsWrites
PROPERTIES
  IsAStore
  EveryCallEnds
