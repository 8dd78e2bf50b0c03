SPECIFICATION BothSpec
CONSTANTS
  ElemNames = {"a", "b", "c"}
  MaxOpen = 3
  MaxDepth = 5
  Abutting = {"declaration"}
INVARIANTS TypeOK ScriptAccepted NestingAgrees CScriptAccepted InDtdFollows PlayersAgree
PROPERTIES AttrsUnderTheirElement
CHECK_DEADLOCK FALSE
