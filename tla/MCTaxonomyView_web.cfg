\* Two cycles with a record in common and one of length one.
SPECIFICATION FairSpec
CONSTANTS
  cA = cA
  cB = cB
  cC = cC
  cD = cD
  eAB = eAB
  eBA = eBA
  eBC = eBC
  eCA = eCA
  eDA = eDA
  eAA = eAA
  k = k
  Key <- Keys
  Item <- Items
  Body <- BodyOf
  Verified <- Items
  Valid <- Items
  Edge <- WebEdges
  Rowids <- AllOrders
  Stamp <- StampOf
  Rank <- RankOf
INVARIANT TypeOK
PROPERTY ImplementsCycleBreaking
PROPERTY EveryStepCounts
PROPERTY ViewSettles
CHECK_DEADLOCK FALSE
