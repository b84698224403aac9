CONSTANTS
  Candidates = {c1, c2}
  PromotionJobs = {p1, p2}
  RollbackJobs = {r1}
  InitiatingIds = {i1}
  Original = Original
  Edited = Edited
  Scripts = {c1}
  Outside = Outside
  None = None
  MaxVersions = 2
SPECIFICATION FairSpec
INVARIANTS
  PromotionSound
  ConflictIsReal
  RollbackSound
  RecordsHappened
PROPERTIES
  ImplementsAtomicVersions ApprovalResolves
CHECK_DEADLOCK FALSE
