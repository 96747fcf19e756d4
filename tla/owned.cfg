CONSTANTS
  Runs = {r1, r2, r3}
  Roles = {x, y}
  MaxFaults = 2
SPECIFICATION Spec
SYMMETRY RunSymmetry
INVARIANTS
  RecordOutlivesUnraced
PROPERTIES
  NothingTakenFromRunning
