SPECIFICATION Spec
CONSTANTS
  Sessions = {s1}
  Foreign = {}
  Hooks = {h1}
  None = None
  MinToolUses = 1
  MaxAttempts = 2
  MaxTurns = 2
  MaxEnds = 1
  MaxMishaps = 0
PROPERTY
  NoTurnThrownAway
CHECK_DEADLOCK FALSE
