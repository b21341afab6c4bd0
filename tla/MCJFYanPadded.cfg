CONSTANTS
  N = 7
  Root = 0
  Parent <- DeepParent
  ColInParent <- DeepColInParent
  ColInChild <- DeepColInChild
  Inputs <- Dangling
  ProtectedChoices <- DeepTargets
  SgxBuild = TRUE
  DummyValue = 99
  EdgeWorkers = 2
  Taus = {3}
SPECIFICATION JSpec
CHECK_DEADLOCK FALSE
INVARIANT TidIsPosition
