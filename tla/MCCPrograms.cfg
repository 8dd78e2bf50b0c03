SPECIFICATION AllSpec
CONSTANTS
  CNames = {"a"}
  MaxEnds = 4
  Files <- MCFiles
  ReadSize = 12
  Inputs <- MCInputs
  Content <- MCContent
  Stored <- MCStored
  Tags = {"a", "b"}
  AttrsCap = 1
  MaxAtts = 3
  MaxNesting = 3
  CharRefs <- MCCharRefs
INVARIANTS
  CTypeOK EndStackMatches
  EncTypeOK FixerExact ExtractorTrue
  IndexTypeOK RowTellsFile FirstOfEachName QueryListsEachOnce
  NormaliserTypeOK ShortIffEmpty DecimalsAlike
PROPERTIES EndAllCloses DanglingOnlyByDTD FixerEnds
CHECK_DEADLOCK FALSE
