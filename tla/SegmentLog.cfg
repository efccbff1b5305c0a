SPECIFICATION Spec
CONSTANTS
  Records = {2}
  Sizes = {1, 2}
  Epochs = {1}
  MaxBytes = 3
  IndexInterval = 2
  MaxOffset = 6
  MaxPending = 2
  Faults = {"io", "power", "kill"}
INVARIANTS  NoSegmentLeftBehind
 
VIEW View
CHECK_DEADLOCK FALSE
