SPECIFICATION Spec
CONSTANTS
  n1 = n1
  n2 = n2
  n3 = n3
  Node = {n1, n2, n3}
  kNoNode = kNoNode
  BatchSizes = {1}
  MayCampaign <- TwoTerms
  MaxEnd = 1
  MaxInFlight = 1
  Faults = {"append"}
INVARIANT CommittedOnMajority
CHECK_DEADLOCK FALSE
