SPECIFICATION Spec
CONSTANTS
  p = p
  w = w
  Messages = {p,w}
  Phone = {p}
  Asked = {}
  MaxEnq = 2
  MaxFresh = 2
  MaxStops = 0
  MaxProcs = 2
  MaxRestarts = 0
  MaxRetries = 0
  MaxLosses = 0
  Stale = FALSE
  HardRestarts = FALSE
  EarlySends = FALSE
  SettleWaits = TRUE
CHECK_DEADLOCK FALSE
INVARIANTS
  AnsweredOnce
  RemovedStaysOut
  OneBatchPerUuid
  RowsGoTogether
