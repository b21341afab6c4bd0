CONSTANT Calls <- SomeCalls
SPECIFICATION Spec
CHECK_DEADLOCK FALSE
INVARIANT KeysAligned
PROPERTY ImplementsTwoWay
