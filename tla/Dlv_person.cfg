SPECIFICATION Spec
CONSTANTS
  p = p
  w = w
  Messages = {w}
  Phone = {}
  Asked = {}
  MaxEnq = 1
  MaxFresh = 2
  MaxStops = 1
  MaxProcs = 2
  MaxRestarts = 1
  MaxRetries = 1
  MaxLosses = 0
  Stale = FALSE
  HardRestarts = TRUE
  EarlySends = FALSE
  SettleWaits = TRUE
CHECK_DEADLOCK FALSE
INVARIANTS
  AnsweredOnce
PROPERTIES
  StopsHold
