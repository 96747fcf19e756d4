CONSTANTS
  Ops = {o1, o2}
  NoOp = NoOp
  Viewers = {v1, v2}
  Nobody = Nobody
  MaxGen = 1
  Kinds = {"unavailable"}
  MaxFaults = 1
SPECIFICATION Spec
PROPERTIES
  ConfirmationRechecked
