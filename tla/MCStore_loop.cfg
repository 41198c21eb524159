\* Two keys that name each other as successor.
SPECIFICATION FairSpec
CONSTANTS
  cA = cA
  cB = cB
  eAB = eAB
  eBA = eBA
  rAB = rAB
  rrAB = rrAB
  rBA = rBA
  s12 = s12
  s21 = s21
  k1 = k1
  k2 = k2
  Item <- LoopItems
  Key <- Keys
  Body <- LoopBody
  Verified <- LoopItems
  Valid <- LoopItems
  Posted <- LoopItems
  Merged = {}
  Altered = {}
  Enforcing = TRUE
  Handler = {h1}
PROPERTY HandlersAnswer
CHECK_DEADLOCK FALSE
