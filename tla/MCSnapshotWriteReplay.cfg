CONSTANTS
  Calls = {c1, c2}
  Keys = {k1, k2}
  Payloads = {p, q}
  None = None
  MaxBatch = 1
  Given <- GivenAny
SPECIFICATION Spec
PROPERTIES
  ReplayIsUnchanged
CHECK_DEADLOCK FALSE
