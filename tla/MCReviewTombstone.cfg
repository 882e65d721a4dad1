SPECIFICATION Spec
CONSTANTS
  Patterns = {p1}
  Threshold = 1
  MaxRewords = 1
  None = None
  AutoMerges = {FALSE}
  Beginnings <- MCEmpty
CHECK_DEADLOCK FALSE
INVARIANT EvidenceBringsBack
