SPECIFICATION Spec
CONSTANTS
  NewHooks = {n1, n2, n3}
  OldHooks = {}
  Exports = {}
  Rotations = {}
  Importers = {p1, p2}
  None = None
  SealAt = 1
  MaxSegments = 1
  RotateAt = 1
  MaxMishaps = 1
  Windows = {}
SYMMETRY Symmetry
INVARIANTS
  NothingStranded
  OnlyOldDropped
PROPERTIES
  ImplementsOnceLog
CHECK_DEADLOCK FALSE
