CONSTANTS
  N = 6
  Root = 0
  Parent <- TreeParent
  ColInParent <- TreeColInParent
  ColInChild <- TreeColInChild
  Inputs <- TreeInputs
  ProtectedChoices = {0, 9}
  SgxBuild = FALSE
  DummyValue = 99
SPECIFICATION Spec
CHECK_DEADLOCK FALSE
INVARIANTS TypeOK ReadsFinished ContributionExact PositionsTile
PROPERTIES StableUnderRead Termination
