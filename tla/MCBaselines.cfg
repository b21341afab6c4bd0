CONSTANTS
  N = 5
  Root = 2
  Parent <- FiveParents
  ColInParent <- FiveInParent
  ColInChild <- FiveInChild
  tableKeys <- FiveKeys
  Inputs <- SomeInputs
  Taus = {0, 2, 20}
  DummyValue = 99
  MaxRows = 3
  MaxCount = 5
SPECIFICATION Spec
CHECK_DEADLOCK FALSE
INVARIANTS FullyReduced PartialsFit
PROPERTY ImplementsBaseline
