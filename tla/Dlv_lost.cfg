SPECIFICATION Spec
CONSTANTS
  p = p
  w = w
  Messages = {p}
  Phone = {p}
  Asked = {}
  MaxEnq = 1
  MaxFresh = 2
  MaxStops = 1
  MaxProcs = 2
  MaxRestarts = 1
  MaxRetries = 0
  MaxLosses = 1
  Stale = TRUE
  HardRestarts = FALSE
  EarlySends = FALSE
  SettleWaits = TRUE
CHECK_DEADLOCK FALSE
INVARIANTS
  TypeOK
  AnsweredOnce
  FreedStaysOut
  DeliveredWasTaken
  NothingLost
  NoStrandedRow
