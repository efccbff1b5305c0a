SPECIFICATION Spec
CONSTANTS
  x = x
  y = y
  z = z
  Task = {x, y, z}
  Delays = {1, 3}
  Blocks <- RunOrMain
  MaxWait = 2
INVARIANTS TimersOnTime
PROPERTIES  KeepsPolling PostedRuns
CHECK_DEADLOCK FALSE
