SPECIFICATION Spec
CONSTANTS
  n1 = n1
  n2 = n2
  n3 = n3
  Node = {n1, n2, n3}
  kNoNode = kNoNode
  BatchSizes = {1, 2}
  MayCampaign <- Duel
  MaxEnd = 2
  MaxInFlight = 1
  Faults = {}
INVARIANTS TypeOK LogMatching StorageNeverRefuses ViewIsStorage LeaderCompleteness LeadersAgreeOnCommitted
PROPERTIES CommittedIsStable
VIEW WithoutBallots
CHECK_DEADLOCK FALSE
