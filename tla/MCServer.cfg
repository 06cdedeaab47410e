SPECIFICATION Spec
CONSTANTS
  r1 = r1
  r2 = r2
  r3 = r3
  r4 = r4
  alice = alice
  bob = bob
  NoOne = NoOne
  Reaper = Reaper
  Reqs <- MCReqs
  Users <- MCUsers
  CronJobs = {"j"}
  MaxXid = 5
  Functions = {"fn"}
  Workloads <- MCWorkloads
INVARIANTS
  RepliesTrue
  NoPartialCommit
  OneAtATime
  SchemaExact
PROPERTY
  TransactionsEnd
