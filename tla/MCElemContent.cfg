SPECIFICATION Spec
CONSTANTS
  MaxDepth = 3
  Names = {"a"}
  InitialNodeDepth = 1
  MaxContent = 2
  Faulty = TRUE
INVARIANTS TypeOK StaleOnlyAtBoundary ReaderAgreesWithoutDoubt
CHECK_DEADLOCK FALSE
