SPECIFICATION FairSpec
CONSTANTS
  Procs = {p1, p2}
  None = None
  MaxCrashes = 2
CHECK_DEADLOCK FALSE
INVARIANTS
  GuardOwned
  OneInstallation
  CreateMakesItsOwn
  NoDamageSeen
PROPERTIES
  IdentityStays
  EveryCallEnds
