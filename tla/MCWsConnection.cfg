SPECIFICATION FairSpec
CONSTANTS
  Op = {o1, o2}
  Id = {a, b}
  None = None
  MaxData = 1
INVARIANTS
  CloseFuncOnce
  StopFindsOperation
  EndsProperly
PROPERTIES
  CloseFuncCalled
  OperationsEnd
