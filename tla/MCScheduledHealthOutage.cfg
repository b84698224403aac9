CONSTANTS
  Runners = {r1}
  Threshold = 1
  Lookback = 3
  None = None
  MaxVersion = 1
  MaxRuns = 3
SPECIFICATION Spec
INVARIANTS
  NoRollbackForOutage
CHECK_DEADLOCK FALSE
