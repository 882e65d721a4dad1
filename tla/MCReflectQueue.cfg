SPECIFICATION Spec
CONSTANTS
  Sessions = {s1}
  Foreign = {}
  Hooks = {h1, h2}
  None = None
  MinToolUses = 1
  MaxAttempts = 2
  MaxTurns = 1
  MaxEnds = 1
  MaxMishaps = 2
SYMMETRY Symmetry
INVARIANTS
  TypeOK
  OneReflectionPerEntry
  RetriesBounded
  StopsNotLost
PROPERTIES
  EntryNeverVanishes
CHECK_DEADLOCK FALSE
