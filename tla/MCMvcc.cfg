SPECIFICATION Spec
CONSTANTS
  r1 = r1
  r2 = r2
  Rows = {r1, r2}
  MaxXid = 4
  MaxSlot = 4
  MaxUndo = 2
  Loads <- SafeLoads
CHECK_DEADLOCK FALSE
INVARIANTS
  UndoTargetsIntact
  AbortLeavesNothing
  ReadsExact
PROPERTIES
  SnapshotIsolation
