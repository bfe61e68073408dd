SPECIFICATION FairSpec
CONSTANTS
  t1 = t1
  t2 = t2
  t3 = t3
  x = x
  w1 = w1
  w2 = w2
  w3 = w3
  Turn = {t1, t2, x}
  Wait = {w1, w2}
  OwnerOf <- OwnerOfTwo
  Lane = {t1, t2}
  MaxGen = 2
  MaxDeaths = 1
CHECK_DEADLOCK FALSE
INVARIANTS
  AnswersItsOwn
PROPERTIES
  EveryTurnEnds
