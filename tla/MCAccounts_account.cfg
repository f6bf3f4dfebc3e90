SPECIFICATION Spec
CONSTANTS
  r1 = r1 r2 = r2 t1 = t1 t2 = t2 l1 = l1 l2 = l2
  None = None
  Requests = {r1, r2}
  Tokens = {t1, t2}
  Links = {l1, l2}
  MaxPassword = 2
SYMMETRY Ids
INVARIANTS TypeOK OneTokenPerSession OldSessionsEnd OnlyOverlappingLinksCoexist
CHECK_DEADLOCK FALSE
