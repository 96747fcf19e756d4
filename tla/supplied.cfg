CONSTANTS
  Runs = {r1, r2}
  Nobody = Nobody
  Roles = {x, y}
  MaxFaults = 3
SPECIFICATION Spec
INVARIANTS
  TypeOK
  ClaimOutlives
PROPERTIES
  NothingTakenFromLive
  DeadClaimGoes
