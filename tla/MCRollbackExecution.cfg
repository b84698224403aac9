CONSTANTS
  Executions = {r1, r2}
  InitiatingIds = {i1}
  Original = Original
  Edited = Edited
  Scripts = {Other}
  Outside = Outside
  None = None
  MaxVersions = 2
SPECIFICATION Spec
INVARIANTS
  NeverSilent
  RecordedOutcomeIsTrue
SYMMETRY Symmetry
CHECK_DEADLOCK FALSE
