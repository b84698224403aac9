CONSTANTS
  Flows = {f1, f2}
  Finalizers = {j1, j2}
  MaxAttempts = 2
  Original = Original
  Edited = Edited
  Outside = Outside
  None = None
  MaxVersions = 2
SPECIFICATION Spec
INVARIANTS
  RetriedOnce
  OnlyTestedRepairs
  SlotsAreExclusive
SYMMETRY Symmetry
CHECK_DEADLOCK FALSE
