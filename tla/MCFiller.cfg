CONSTANTS
  Arrays <- NineArrays
  Threads = 2
SPECIFICATION Spec
CHECK_DEADLOCK FALSE
INVARIANT PaddingStaysBehind
