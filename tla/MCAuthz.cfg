SPECIFICATION AuthzSpec
CONSTANTS
  Loads <- MCLoads
  Work <- MCWork
  FirstUsers <- MCFirstUsers
  FirstMfa <- MCFirstMfa
  Suffixed <- MCSuffixed
  MaxTime = 2
  SessionTtl = 2
  TokenTtl = 1
  MaxFaults = 1
  MaxRestarts = 1
  Names <- MCNames
  Privs = {"select", "insert", "update", "delete"}
  AllCols = {"a", "b", "c"}
  FirstCols = {"a", "b"}
  TableRows = {"ann", "bob"}
  Rows <- MCRows
  Statements <- MCStatements
  AuthWork <- MCAuthWork
  MaxStmts = 6
INVARIANT SessionsSound
INVARIANT SuperuserRemains
INVARIANT DecisionsExact
INVARIANT PolicyFilter
INVARIANT GranteesExist
CHECK_DEADLOCK FALSE
