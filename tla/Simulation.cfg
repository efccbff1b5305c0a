SPECIFICATION Spec
CONSTANTS
  n1 = n1
  n2 = n2
  Node = {n1, n2}
  BootOffset <- Offsets
  Tick = 2
  CrashInterval = 2
  RestartDelay = {1, 2}
  PartitionInterval = 2
  PartitionDuration = {1, 3}
  Links <- OneLink
  Duration = 4
  Faults = {"boot", "disk", "partition"}
INVARIANTS ChainsGoOn NodesKeepTime CompletesAtEnd CutsWillHeal
PROPERTIES GapsAreFailovers Completes
CHECK_DEADLOCK FALSE
