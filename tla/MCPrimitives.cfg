CONSTANTS
  INT_MAX = 99
  INT_MIN <- LeastInt
  Arrays <- SmallArrays
  Marks <- AllMarks
  TaskRows = 3
  Threads = 3
  Multiplicities <- SmallMultiplicities
  Lengths <- AllLengths
  Entries <- Distinct
SPECIFICATION Spec
CHECK_DEADLOCK FALSE
INVARIANTS RangesDisjoint Sorted StablyCompacted Expanded SumsCorrect SpreadCorrect
PROPERTY Termination
