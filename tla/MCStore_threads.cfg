\* Two handlers that race between the gates and the insert.
SPECIFICATION Spec
CONSTANTS
  cA = cA
  cB = cB
  eAB = eAB
  eBA = eBA
  rAB = rAB
  rrAB = rrAB
  rBA = rBA
  s12 = s12
  s21 = s21
  k1 = k1
  k2 = k2
  Item <- ThreadItems
  Key <- Keys
  Body <- ThreadBody
  Verified <- ThreadItems
  Valid <- ThreadItems
  Posted <- ThreadPost
  Merged <- ThreadMerge
  Altered <- ThreadAltered
  Enforcing = TRUE
  Handler = {h1, h2}
INVARIANT TypeOK
CHECK_DEADLOCK FALSE
