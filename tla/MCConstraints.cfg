SPECIFICATION Spec
CONSTANTS
  Xids = {1, 2, 3}
  MaxRows = 9
  Loads <- SafeLoads
CHECK_DEADLOCK FALSE
INVARIANTS
  UniqueExact
  NoOrphans
  PivotsRefused
PROPERTIES
  AllEnd
