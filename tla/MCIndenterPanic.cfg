SPECIFICATION Spec
CONSTANTS
  MaxDepth = 2
INVARIANTS NoPanic
CHECK_DEADLOCK FALSE
