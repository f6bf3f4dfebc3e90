SPECIFICATION Spec
CONSTANTS
  ann = ann bob = bob
  w1 = w1 w2 = w2 w3 = w3
  any = any good = good worn = worn fine = fine post = post meet = meet
  NoUser = NoUser NoPlan = NoPlan
  Users = {ann, bob}
  Items = {1, 2}
  Owner <- PairOwner
  Wants = {w1, w2}
  Wanter <- PairWanter
  Listings = {worn, fine}
  Criteria = {any, good}
  Satisfies <- Takes
  Plans = {post, meet}
  MaxEdits = 1
  MaxLeaving = 1
  Watched <- NotificationTypes
  StoredItems = {1}
  StoredWants = {w1}
PROPERTY ListingFrozen
CHECK_DEADLOCK FALSE
