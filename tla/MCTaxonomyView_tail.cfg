\* A record that leads to a cycle.
SPECIFICATION Spec
CONSTANTS
  cA = cA
  cB = cB
  cC = cC
  cD = cD
  eAB = eAB
  eBA = eBA
  eBC = eBC
  eCA = eCA
  eDA = eDA
  eAA = eAA
  k = k
  Key <- Keys
  Item <- Items
  Body <- BodyOf
  Verified <- Items
  Valid <- Items
  Edge <- TailEdges
  Rowids <- AllOrders
  Stamp <- StampOf
  Rank <- RankOf
PROPERTY OnlyCyclesLose
CHECK_DEADLOCK FALSE
