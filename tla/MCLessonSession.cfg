SPECIFICATION Spec
CONSTANTS
  Keys = {k1}
  Installs = {i1, i2}
  Requests = {r1, r2}
  Texts = {t1, t2}
  MaxUnresolved = 1
  MaxTombstones = 1
  Loc = Loc
  Blank = Blank
  None = None
  MaxCalls = 2
  Scenarios <- MCScenarios
SYMMETRY Symmetry
CHECK_DEADLOCK FALSE
INVARIANTS
  NoFalseRefusal
  NoRequestForgotten
  OneStore
  BaseWasStored
  PurgedStaysHidden
  SnapshotReadable
PROPERTY WordingKept
