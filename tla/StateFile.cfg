SPECIFICATION Spec
CONSTANTS
  s1 = s1
  s2 = s2
  s3 = s3
  State <- HardStates
  Fresh = Fresh
  MaxSequence = 5
  MaxPending = 3
  Faults = {"fail", "power"}
INVARIANTS OtherSlotIntact FileInv
PROPERTIES KeepsHardState
CHECK_DEADLOCK FALSE
