SPECIFICATION FairSpec
CONSTANTS
  Xids = {t1, t2, t3}
  Ids = {a, b, c}
  NoReq = NoReq
INVARIANTS
  MutualExclusion
  NoLostWakeup
  NoSilentDeadlock
  NoTableLeak
PROPERTIES
  WaitersReturn
