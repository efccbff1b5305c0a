SPECIFICATION Spec
CONSTANTS
  n1 = n1
  n2 = n2
  n3 = n3
  Node = {n1, n2, n3}
  kNoNode = kNoNode
  BatchSizes = {1}
  MayCampaign <- Rivals
  MaxEnd = 1
  MaxInFlight = 1
  Faults = {"crash", "persist", "append", "fsync"}
INVARIANTS ElectionSafety VoteInv AnnouncedVoteIsDurable
PROPERTIES DurableVoteIsFinal
CHECK_DEADLOCK FALSE
