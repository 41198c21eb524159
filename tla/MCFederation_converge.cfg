\* Liveness with faults: reconciliation one item at a time, started by one side
\* only, with a peer that joins while the node runs.
SPECIFICATION FairSpec
CONSTANTS
  na = na
  nb = nb
  nc = nc
  occ = occ
  tok = tok
  aOcc = aOcc
  aTok = aTok
  rOld = rOld
  rOther = rOther
  k1 = k1
  k2 = k2
  Key <- Keys
  Node = {na, nb, nc}
  Item <- GrownItems
  Body <- GrownBody
  Verified <- GrownItems
  Valid <- GrownItems
  Rank <- GrownRank
  OptIn = {}
  Covers <- AllCovered
  Configured <- Grown
  Joins <- AToC
  Leaves <- NoPairs
  Writes <- GrownWrites
  Reposts = {}
  Client = {c1}
  Altered = {aOcc}
  Batch = 1
  MaxFaults = 1
PROPERTY PeersConverge
PROPERTY PassExchangesAll
