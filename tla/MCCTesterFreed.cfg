SPECIFICATION CSpec
CONSTANTS
  CNames = {"a"}
  MaxEnds = 4
INVARIANTS FreedOnce
CHECK_DEADLOCK FALSE
