SPECIFICATION Spec
CONSTANTS
  Xids = {1, 2, 3}
  MaxRows = 9
  Loads <- LateKey
CHECK_DEADLOCK FALSE
INVARIANT UniqueKeys
