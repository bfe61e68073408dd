SPECIFICATION Spec
CONSTANTS
  t1 = t1
  t2 = t2
  t3 = t3
  x = x
  w1 = w1
  w2 = w2
  w3 = w3
  Turn = {t1, t2, t3}
  Wait = {w1, w2, w3}
  OwnerOf <- OwnerOfThree
  Lane = {t1, t2, t3}
  MaxGen = 2
  MaxDeaths = 1
CHECK_DEADLOCK FALSE
INVARIANTS
  OneAnswerEach
  InLine
PROPERTIES
  WaitsForItsTurn
