SPECIFICATION Spec
CONSTANTS
  MaxDepth = 3
  Names = {"a"}
  Bodies = {"none", "torn"}
PROPERTIES TearingIsTold
