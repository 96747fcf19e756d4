CONSTANTS
  Publishers = {p1, p2}
  NameCount = 2
  UserWrites = TRUE
  MaxFaults = 2
SPECIFICATION Spec
SYMMETRY PublisherSymmetry
INVARIANTS
  UnchangedIsTrue
  OneAtATime
  CommitIsWhole
PROPERTIES
  NothingLost
CHECK_DEADLOCK FALSE
