SPECIFICATION Spec
CONSTANTS
  t1 = t1 t2 = t2 c1 = c1
  Me = Me
  Tabs = {t1, t2}
  Calls = {c1}
  MaxTokens = 2
SYMMETRY Alike
INVARIANTS TypeOK StoredIsUsable OncePerToken
CHECK_DEADLOCK FALSE
