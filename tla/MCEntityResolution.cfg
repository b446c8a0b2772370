SPECIFICATION EntSpec
CONSTANTS
  MaxReps = 3
  Resolver = {1, 2}
CHECK_DEADLOCK FALSE
INVARIANTS
  OwnEntity
  HolesExplained
PROPERTY QuietAfterReturn
