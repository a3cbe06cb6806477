SPECIFICATION Spec
INVARIANT ReverseTables
CHECK_DEADLOCK FALSE
