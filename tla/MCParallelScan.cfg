SPECIFICATION ParallelSpec
CONSTANTS
  Scans <- MCScans
  Pages <- MCPages
  Kinds <- MCKinds
  Faulty = {"b"}
  Matches <- MCMatches
  Cores = 3
  MaxWorkers = 0
  MinPages = 2
  PoolSize = 3
INVARIANT ScanExact
INVARIANT JobLifetime
PROPERTY ScansEnd
CHECK_DEADLOCK FALSE
