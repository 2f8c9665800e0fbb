SPECIFICATION Spec
CONSTANT MaxPieces = 5
INVARIANT PolicyExact
CHECK_DEADLOCK FALSE
