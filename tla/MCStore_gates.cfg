\* One handler on an enforcing tier: enrichments, retractions, a retraction of a
\* retraction, and successions that form a loop, in every order.
SPECIFICATION Spec
CONSTANTS
  cA = cA
  cB = cB
  eAB = eAB
  eBA = eBA
  rAB = rAB
  rrAB = rrAB
  rBA = rBA
  s12 = s12
  s21 = s21
  k1 = k1
  k2 = k2
  Item <- GateItems
  Key <- Keys
  Body <- GateBody
  Verified <- GateItems
  Valid <- GateItems
  Posted <- GatePost
  Merged <- GateMerge
  Altered <- GateAltered
  Enforcing = TRUE
  Handler = {h1}
INVARIANT TaxonomyAcyclic
INVARIANT KnownTargetAuthorised
INVARIANT RefusedOnlyForOwnCycle
PROPERTY RetractionStands
CHECK_DEADLOCK FALSE
