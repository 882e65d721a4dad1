SPECIFICATION FairSpec
CONSTANTS
  NewHooks = {}
  OldHooks = {o1, o2}
  Exports = {e1}
  Rotations = {t1}
  Importers = {p1, p2}
  None = None
  SealAt = 1
  MaxSegments = 1
  RotateAt = 1
  MaxMishaps = 1
  Windows = {}
INVARIANTS
  ImportedOnce
  NothingStranded
PROPERTIES
  WaitingEnds
CHECK_DEADLOCK FALSE
