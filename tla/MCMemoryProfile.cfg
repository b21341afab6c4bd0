CONSTANTS
  Team = {t1, t2}
  Sizes = {1}
  MaxLive = 2
  Branches = 2
SPECIFICATION Spec
INVARIANTS TypeOK PeaksExact IntervalsNested
PROPERTIES BoundConservative AllocationsReturn
