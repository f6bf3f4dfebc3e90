SPECIFICATION Spec
CONSTANTS
  k1 = k1 k2 = k2
  Keys = {k1, k2}
  PerMinute = 2
  Minute = 3
  MaxTime = 6
INVARIANTS TypeOK RateHolds OnlyRecentBuckets
PROPERTIES IsTokenBucket RetryAfterIsEnough
CHECK_DEADLOCK FALSE
