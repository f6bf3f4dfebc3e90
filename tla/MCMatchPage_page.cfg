SPECIFICATION Spec
CONSTANTS
  ann = ann bob = bob post = post meet = meet first = first second = second
  NoPlan = NoPlan NoView = NoView
  Sides = {ann, bob}
  Plans = {post, meet}
  Requests = {first, second}
SYMMETRY Alike
INVARIANTS TypeOK OffersWork HintsAreTrue
PROPERTIES StaleIsRefused PageMovesOn
