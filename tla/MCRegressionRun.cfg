CONSTANTS
  Capabilities = {1, 2, 3, 4}
  Changed = 2
  MaxDependencies = 4
  Tests = {1, 2}
  Fixture = 3
  MaxRequired = 2
SPECIFICATION FairRunSpec
INVARIANTS
  ImpactIsExact
  ReadyIsTested
  RefusalIsExact
PROPERTIES
  Decides
CHECK_DEADLOCK FALSE
