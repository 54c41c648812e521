SPECIFICATION Spec
CONSTANT MaxValue = 1
INVARIANTS TypeOK ResultExact CountersGrow
CHECK_DEADLOCK FALSE
