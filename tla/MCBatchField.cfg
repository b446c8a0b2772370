SPECIFICATION FairBatchSpec
CONSTANTS
  MaxLength = 3
  WorkerLimit = 2
  Kinds = {"objects", "mixed", "values"}
  Type = {"A", "B"}
INVARIANTS
  WholeOrExplained
  OwnResult
  NullHasOwnError
  OneCallPerGroup
PROPERTY ListReturns
\* A list that has been marshalled is the end.
CHECK_DEADLOCK FALSE
