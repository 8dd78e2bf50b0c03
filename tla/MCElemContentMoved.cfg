SPECIFICATION Spec
CONSTANTS
  MaxDepth = 3
  Names = {"a"}
  InitialNodeDepth = 2
  MaxContent = 1
  Faulty = FALSE
INVARIANTS ReaderAgreesAtRest
