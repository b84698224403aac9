CONSTANTS
  Runners = {r1, r2}
  Threshold = 2
  Lookback = 2
  None = None
  MaxVersion = 2
  MaxRuns = 4
SPECIFICATION Spec
INVARIANTS
  CountIsStreak
  EvidenceOfVersion
  RecommendationEvidenced
  NoInventedFailure
SYMMETRY Symmetry
CHECK_DEADLOCK FALSE
