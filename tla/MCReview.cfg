SPECIFICATION Spec
CONSTANTS
  Patterns = {p1, p2}
  Threshold = 1
  MaxRewords = 1
  None = None
  AutoMerges = {FALSE, TRUE}
  Beginnings <- MCBeginnings
SYMMETRY Symmetry
CHECK_DEADLOCK FALSE
INVARIANTS
  ServedByOneFile
  NeverBlockedByAnother
PROPERTIES
  OnlyOwnPattern
  MergedAsReviewed
  NoTreadmill
