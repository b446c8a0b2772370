SPECIFICATION LSpec
CONSTANTS
  Path <- MCPath
  List <- MCList
  Object <- MCObject
  Type <- MCType
  Satisfies <- MCSatisfies
  Selection <- MCSelection
  SelectionSets <- MCSelectionSets
  Depth <- MCDepth
  Fragments <- MCFragments
  Interfaces <- MCInterfaces
  Implementors <- MCImplementors
  Options <- MCOptions
  MaxInt = 7
  WideInt = 1000
CHECK_DEADLOCK FALSE
INVARIANTS
  TraceIsTree
  OneSlice
  CollectedRight
  CostSaturates
