SPECIFICATION FairSpec
CONSTANTS
  gA = gA  gB = gB  gC = gC
  e1 = e1  e2 = e2  e3 = e3
  Initial = "initial"
  Deferrable <- ThreeGroups
  Event <- ThreeEvents
INVARIANTS
  WellFormedBody
  NothingLostOrReordered
  CompleteAtReturn
PROPERTIES
  NoWriteAfterReturn
  PromptlyWritten
  ShutsDown
