SPECIFICATION Spec
CONSTANTS
  t1 = t1 t2 = t2
  w1 = w1 post = post meet = meet
  NoRow = NoRow NoPlan = NoPlan
  Items = {1, 2, 3}
  Pairs <- Vee
  Wants = {w1}
  Relies <- VeeRelies
  a = a b = b
  Side = {a, b}
  Plans = {post, meet}
  Tx = {t1, t2}
  Operations = {"accept", "decline", "cancel", "exchange", "complete", "withdraw", "unwant", "pass"}
SYMMETRY Alike
INVARIANT CommittedAgree
PROPERTIES KeepsPromises NoLostUpdate
CHECK_DEADLOCK FALSE
