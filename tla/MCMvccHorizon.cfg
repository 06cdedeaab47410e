SPECIFICATION Spec
CONSTANTS
  r1 = r1
  r2 = r2
  Rows = {r1, r2}
  MaxXid = 3
  MaxSlot = 1
  MaxUndo = 2
  Loads <- HorizonLoads
CHECK_DEADLOCK FALSE
INVARIANT UndoTargetsIntact
