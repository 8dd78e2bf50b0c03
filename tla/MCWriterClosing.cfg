SPECIFICATION ClosingSpec
CONSTANTS
  MaxDepth = 3
  Names = {"a", "b"}
  Bodies = {"none", "ok", "bad", "torn"}
INVARIANTS TypeOK ReaderAgrees AncestorsOpened
PROPERTIES RejectionOnlyMarks UnwindIsExact ClosingEmptiesStack EndAllStopsAtDropped
CHECK_DEADLOCK FALSE
