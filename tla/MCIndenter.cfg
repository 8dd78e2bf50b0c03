SPECIFICATION Spec
CONSTANTS
  MaxDepth = 3
INVARIANTS TypeOK LevelsMatch ClosersAlign
CHECK_DEADLOCK FALSE
