CONSTANTS
  Attempts = 4
  Kinds = {"break", "cut", "kill", "refuse"}
  MaxFaults = 3
SPECIFICATION Spec
INVARIANTS
  LeavesNothing
PROPERTIES
  OthersKept
  ValidKept
  RetrySucceeds
CHECK_DEADLOCK FALSE
