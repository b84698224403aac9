CONSTANTS
  Evidence <- SomeEvidence
  CharBytes = 1
  MaxTotalBytes = 50
  SectionBytes = 12
  MaxItems = 1
  Floor = 8
  MarkerBytes = 1
  ItemBytes = 10
  DigitBytes = 2
  MaxDeployed = 2
  Dimensions = {d1, d2}
  MaxAmount = 3
  Unspecified = Unspecified
  MaxRetries = 1
  Creators = {repair, j1, j2}
  Keys = {k1, k2}
  None = None
  Repairer = repair
  RepairKey = k1
  Repaired <- SomeRepaired
  Patches <- SomePatches
  MaxChanged = 100
SPECIFICATION GenerationSpec
INVARIANTS
  SuccessIsRetained
  EvidenceIsComplete
  RecordDescribesScript
  ContextIsHonest
  RepairsWhatIsKnown
  CandidateIsEvidenced
PROPERTIES
  MoreIsNeverEasier
  ImplementsWriteOnce
  OnlyCurrentSources
  PreparationEnds
CHECK_DEADLOCK FALSE
