SPECIFICATION Spec
CONSTANTS
  d1 = d1
  d2 = d2
  c1 = c1
  c2 = c2
  ta = ta
  tb = tb
  Writers = {1, 2, 3}
  Workers = {d1, d2}
  Consumers = {c1, c2}
  Tables = {ta, tb}
  MaxAttempts = 2
  MaxSeq = 3
  Loads <- OverlapLoads
INVARIANT ZeroLoss
CHECK_DEADLOCK FALSE
