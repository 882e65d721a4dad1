SPECIFICATION FairSpec
CONSTANTS
  Sessions = {s1}
  Foreign = {}
  Hooks = {h1}
  None = None
  MinToolUses = 1
  MaxAttempts = 2
  MaxTurns = 1
  MaxEnds = 1
  MaxMishaps = 1
PROPERTIES
  EndedLeavesQueue
CHECK_DEADLOCK FALSE
