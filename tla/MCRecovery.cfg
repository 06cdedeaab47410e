SPECIFICATION Spec
CONSTANTS
  Pages = {1, 2}
  MaxXid = 3
  MaxSlot = 3
  MaxLsn = 16
  MaxCrash = 2
  Loads <- SafeLoads
INVARIANTS
  RecoveredIsCommitted
  RecoveryOpens
  XidsNotReissued
CHECK_DEADLOCK FALSE
