SPECIFICATION Spec
CONSTANTS
  n1 = n1
  n2 = n2
  n3 = n3
  Node = {n1, n2, n3}
  kNoNode = kNoNode
  BatchSizes = {1, 2}
  MayCampaign <- TwoTerms
  MaxEnd = 2
  MaxInFlight = 1
  Faults = {"crash", "persist"}
INVARIANTS CommittedOnMajority ViewIsStorage
CHECK_DEADLOCK FALSE
