CONSTANTS
  N = 7
  Root = 0
  Parent <- DeepParent
  ColInParent <- DeepColInParent
  ColInChild <- DeepColInChild
  Inputs <- DeepInputs
  ProtectedChoices <- DeepTargets
  SgxBuild = TRUE
  DummyValue = 99
  EdgeWorkers = 2
  Taus = {0}
SPECIFICATION JSpec
CHECK_DEADLOCK FALSE
INVARIANTS PositionsComplete DownTypeOK EdgesAgree IndicesBalanced
PROPERTIES EdgesIsolated ImplementsJoin
