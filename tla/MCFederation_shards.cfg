\* A full node and a partial one that have each other as a peer, with clients and
\* a stranger's retraction; one fault.
SPECIFICATION FairSpec
CONSTANTS
  na = na
  nb = nb
  nc = nc
  occ = occ
  tok = tok
  aOcc = aOcc
  aTok = aTok
  rOld = rOld
  rOther = rOther
  k1 = k1
  k2 = k2
  Key <- Keys
  Node = {na, nb}
  Item <- ShardItems
  Body <- ShardBody
  Verified <- ShardItems
  Valid <- ShardItems
  Rank <- ShardRank
  OptIn = {}
  Covers <- HalfCovered
  Configured <- EachOther
  Joins <- NoPairs
  Leaves <- NoPairs
  Writes <- ShardWrites
  Reposts = {aOcc}
  Client = {c1}
  Altered = {}
  Batch = 2
  MaxFaults = 1
INVARIANT InFlightIsShared
INVARIANT NothingGoesUntold
PROPERTY GossipQuiesces
