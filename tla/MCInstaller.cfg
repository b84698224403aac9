CONSTANTS
  Arguments <- SomeArguments
  Items = {i1}
  Listed = {i1}
  MaxRuns = 3
SPECIFICATION InstallerSpec
INVARIANTS
  PasswordAccepted
  KeysAgree
PROPERTIES
  Idempotent
CHECK_DEADLOCK FALSE
