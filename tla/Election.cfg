SPECIFICATION Spec
CONSTANTS
  n1 = n1
  n2 = n2
  n3 = n3
  Node = {n1, n2, n3}
  kNoNode = kNoNode
  election_timeout_ticks = 3
  election_timeout_jitter_ticks = 2
  heartbeat_timeout_ticks = 1
  Links <- OneLink
  MaxTerm = 2
  MaxFaults = 1
  Crashable = {n1}
PROPERTIES SettledStays LeaderOrRetry
CHECK_DEADLOCK FALSE
