SPECIFICATION Spec
CONSTANTS
  Pages = {1}
  MaxXid = 4
  MaxSlot = 3
  MaxLsn = 16
  MaxCrash = 2
  Loads <- RestartLoads
INVARIANT RecoveredIsCommitted
CHECK_DEADLOCK FALSE
