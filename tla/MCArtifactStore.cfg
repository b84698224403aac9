CONSTANTS
  Writers = {w1, w2}
  Readers = {r1, r2}
  Deleters = {d1, d2}
  Contents = {c1, c2}
  None = None
SPECIFICATION Spec
INVARIANTS
  MetadataHasContent
PROPERTIES
  ImplementsArtifactLog
SYMMETRY Symmetry
CHECK_DEADLOCK FALSE
