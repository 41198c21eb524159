\* A chain of three whose middle node federates the token tier; one fault.
SPECIFICATION Spec
CONSTANTS
  na = na
  nb = nb
  nc = nc
  occ = occ
  tok = tok
  aOcc = aOcc
  aTok = aTok
  rOld = rOld
  rOther = rOther
  k1 = k1
  k2 = k2
  Key <- Keys
  Node = {na, nb, nc}
  Item <- ChainItems
  Body <- ChainBody
  Verified <- ChainVerified
  Valid <- ChainItems
  Rank <- ChainRank
  OptIn = {nb}
  Covers <- AllCovered
  Configured <- Chain
  Joins <- NoPairs
  Leaves <- AToB
  Writes <- ChainWrites
  Reposts = {}
  Client = {c1}
  Altered = {tok}
  Batch = 2
  MaxFaults = 1
INVARIANT TypeOK
INVARIANT TokensStayHome
PROPERTY ImplementsCommons
