SPECIFICATION BatchSpec
CONSTANTS
  MaxLength = 2
  WorkerLimit = 2
  Kinds = {"values"}
  Type = {"A"}
INVARIANT ErrorAtOwnIndex
\* A list that has been marshalled is the end.
CHECK_DEADLOCK FALSE
