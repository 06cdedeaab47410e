SPECIFICATION Spec
CONSTANTS
  Committers = {t1, t2}
  Ckpt = ckpt
  None = None
  MaxLsn = 4
  SegCaps = {2}
CHECK_DEADLOCK FALSE
INVARIANTS
  AckedIsDurable
