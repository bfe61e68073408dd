SPECIFICATION QFairSpec
CONSTANTS
  t1 = t1
  t2 = t2
  t3 = t3
  t4 = t4
  w1 = w1
  w2 = w2
  w3 = w3
  Turn = {t1, t2, t3, t4}
  Wait = {w1, w2, w3}
  OwnerOf <- OwnerOfEach
CHECK_DEADLOCK FALSE
INVARIANTS
  OneAtATime
PROPERTIES
  ComesBackFirst
  EveryTurnEnds
