SPECIFICATION Spec
CONSTANTS
  Threads = {0, 1, 2, 3}
  LeafCap = 2
  NodeCap = 2
  FixedKeys = TRUE
  MaxPages = 16
  Scripts <- SafeScripts
CHECK_DEADLOCK FALSE
INVARIANTS
  EntriesFindable
  ScansComplete
PROPERTIES
  CallsReturn
