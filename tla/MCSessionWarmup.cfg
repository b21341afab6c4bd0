CONSTANTS
  Requests <- SmallRequests
  MaxRows = 6
  MaxCells = 8
SPECIFICATION Spec
CHECK_DEADLOCK FALSE
INVARIANTS WarmupUnreported
