\* A retraction by an heir, one by a stranger, nodes that store while they are read.
SPECIFICATION FairSpec
CONSTANTS
  occ = occ
  a1 = a1
  aBad = aBad
  rHeir = rHeir
  rEve = rEve
  s12 = s12
  s23 = s23
  k1 = k1
  k2 = k2
  k3 = k3
  kE = kE
  Item <- HeirItems
  Key <- HeirKeys
  Body <- HeirBody
  Verified <- HeirVerified
  Valid <- HeirItems
  N = 2
  About = occ
  Arrivals <- HeirArrivals
  PageSize = 1
  Trusted <- HeirItems
INVARIANT TypeOK
INVARIANT MissesNothing
INVARIANT HonoursRetractions
INVARIANT OnlyLineageWithdraws
PROPERTY ClientReturns
CHECK_DEADLOCK FALSE
