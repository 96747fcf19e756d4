CONSTANTS
  Ops = {o1}
  NoOp = NoOp
  Viewers = {v1, v2}
  Nobody = Nobody
  MaxGen = 2
  Kinds = {"crash", "save", "unavailable", "delay", "branch", "remote", "authority", "age", "vanish"}
  MaxFaults = 2
SPECIFICATION FairSpec
INVARIANTS
  ShapeValid
  NoOrphanRoot
  NothingPublished
  CommitRooted
  DeliveredHappened
PROPERTIES
  Promised
  RequestsEnd
