SPECIFICATION QuerySpec
CONSTANTS
  ColumnNames <- MCColumnNames
  Indexed <- MCIndexed
  FullText <- MCFullText
  Tables <- MCTables
  Inputs <- MCInputs
  Executed <- RunPlan
  Correct <- Answers
  Sufficient <- Depends
INVARIANT QueryExact
INVARIANT ReadsDeclared
CHECK_DEADLOCK FALSE
