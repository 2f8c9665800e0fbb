SPECIFICATION Spec
CONSTANT MaxPieces = 5
INVARIANT OnlyImportsRefused
CHECK_DEADLOCK FALSE
