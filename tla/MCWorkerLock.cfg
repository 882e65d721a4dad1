SPECIFICATION FairSpec
CONSTANTS
  Procs = {p1, p2, p3}
  None = None
  Windows = {}
INVARIANTS
  TypeOK
  MutualExclusion
PROPERTIES
  LiveLockStays
  RefusedForCause
  LeftoverReclaimed
CHECK_DEADLOCK FALSE
