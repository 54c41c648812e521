SPECIFICATION Spec
CONSTANT MaxValue = 1
INVARIANT ConnectedTimeExact
CHECK_DEADLOCK FALSE
