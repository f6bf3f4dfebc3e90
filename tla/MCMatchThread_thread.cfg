SPECIFICATION FairSpec
CONSTANTS
  ann = ann bob = bob r1 = r1 r2 = r2
  Sides = {ann, bob}
  Requests = {r1, r2}
  Limit = 2
  MaxMessages = 3
  NoList = NoList Asked = Asked
INVARIANTS TypeOK RatingsAreEarned
PROPERTIES NothingVanishes ChatCatchesUp
