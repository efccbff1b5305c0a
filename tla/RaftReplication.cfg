SPECIFICATION Spec
CONSTANTS
  n1 = n1
  n2 = n2
  n3 = n3
  Node = {n1, n2, n3}
  kNoNode = kNoNode
  BatchSizes = {1}
  MayCampaign <- TwoTerms
  MaxEnd = 2
  MaxInFlight = 2
  Faults = {}
INVARIANTS MatchIsHeld CommittedOnMajority
VIEW WithoutBallots
CHECK_DEADLOCK FALSE
