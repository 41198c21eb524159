\* Two handlers post the two halves of a cycle at once.
SPECIFICATION Spec
CONSTANTS
  cA = cA
  cB = cB
  eAB = eAB
  eBA = eBA
  rAB = rAB
  rrAB = rrAB
  rBA = rBA
  s12 = s12
  s21 = s21
  k1 = k1
  k2 = k2
  Item <- RaceItems
  Key <- Keys
  Body <- RaceBody
  Verified <- RaceItems
  Valid <- RaceItems
  Posted <- RacePost
  Merged = {}
  Altered = {}
  Enforcing = TRUE
  Handler = {h1, h2}
INVARIANT TaxonomyAcyclic
CHECK_DEADLOCK FALSE
