CONSTANTS
  N = 4
  Root = 0
  Parent <- TreeParent
  ColInParent <- TreeColInParent
  ColInChild <- TreeColInChild
  Inputs <- TreeInputs
  MaxInt = 3
  MaxLong = 11
  ExplicitChoices = {0, 2}
  MaxRSTRows = 6
  Factor = 2
SPECIFICATION Spec
CHECK_DEADLOCK FALSE
INVARIANT EveryBoundValid
