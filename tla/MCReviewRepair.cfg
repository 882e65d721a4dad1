SPECIFICATION Spec
CONSTANTS
  Patterns = {p1}
  Threshold = 1
  MaxRewords = 1
  None = None
  AutoMerges = {FALSE}
  Beginnings <- MCImported
CHECK_DEADLOCK FALSE
INVARIANT RepairAgrees
