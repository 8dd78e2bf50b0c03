SPECIFICATION BothSpec
CONSTANTS
  ElemNames = {"a", "b", "c"}
  MaxOpen = 3
  MaxDepth = 5
  Abutting = {"declaration", "list", "comment"}
PROPERTIES AttrsUnderTheirElement
CHECK_DEADLOCK FALSE
