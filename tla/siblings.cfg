CONSTANTS
  Ops = {o1, o2}
  NoOp = NoOp
  Viewers = {v1, v2}
  Nobody = Nobody
  MaxGen = 1
  Kinds = {"crash", "save", "unavailable", "delay", "branch", "remote", "authority", "age"}
  MaxFaults = 1
SPECIFICATION Spec
SYMMETRY ViewerSymmetry
INVARIANTS
  GivenUpIsFinal
PROPERTIES
  PreviewStartsNoSibling
