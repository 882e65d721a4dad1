SPECIFICATION Spec
CONSTANTS
  Captures = {c1}
  Inbox = {i1}
  Scopes = {p1, p2}
  Texts = {t1, t2}
  Digests = {d1, d2}
  RequestIds = {r1, r2, r3, r4}
  None = None
  MaxRevision = 3
SYMMETRY Symmetry
INVARIANTS
  OneScope
  RevisionsAccountedFor
  PurgeLeavesNothing
PROPERTIES
  BaselineWasRead
  DecidedOnce
