CONSTANTS
  Inits = {i1, i2, i3}
  Acts = {"config", "ids", "directory", "file", "notes", "plain"}
  MaxFaults = 2
SPECIFICATION Spec
INVARIANTS
  WholeProject
  FailureLeavesNothing
PROPERTIES
  WinnerKept
  UserWins
  SomeInitWins
CHECK_DEADLOCK FALSE
