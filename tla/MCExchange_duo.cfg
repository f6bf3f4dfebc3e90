SPECIFICATION Spec
CONSTANTS
  ann = ann bob = bob
  w1 = w1 w2 = w2 w3 = w3
  any = any good = good worn = worn fine = fine post = post meet = meet
  NoUser = NoUser NoPlan = NoPlan
  Users = {ann, bob}
  Items = {1, 2, 3}
  Owner <- DuoOwner
  Wants = {w1, w2, w3}
  Wanter <- DuoWanter
  Listings = {worn}
  Criteria = {any}
  Satisfies <- TakesAll
  Plans = {post}
  MaxEdits = 0
  MaxLeaving = 1
  Watched = {"match_declined", "match_cancelled"}
  StoredItems = {1, 2, 3}
  StoredWants = {w1, w2, w3}
SYMMETRY Alike
INVARIANTS ItemsHeld NoOrphans ConsentComplete ClosureIsAnnounced
PROPERTIES CleanUp KeepsPromises
CHECK_DEADLOCK FALSE
