SPECIFICATION FairSpec
CONSTANTS
  Committers = {t1, t2}
  Ckpt = ckpt
  None = None
  MaxLsn = 3
  SegCaps = {1, 2}
CHECK_DEADLOCK FALSE
INVARIANTS
  DurableOrOutstanding
  TruncateKeepsTail
PROPERTIES
  CallsReturn
