SPECIFICATION Spec
CONSTANTS
  t1 = t1 t2 = t2
  w1 = w1 post = post meet = meet
  a = a b = b
  NoRow = NoRow NoPlan = NoPlan
  Items = {1, 2, 3}
  Pairs <- Vee
  Wants = {w1}
  Relies <- VeeRelies
  Side = {a, b}
  Plans = {post, meet}
  Tx = {t1, t2}
  Operations = {"accept", "pass"}
INVARIANT NoCircle
CHECK_DEADLOCK FALSE
