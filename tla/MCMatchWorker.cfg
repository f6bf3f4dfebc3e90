SPECIFICATION FairSpec
CONSTANTS
  r1 = r1 r2 = r2
  Callers = {r1, r2}
  MaxChanges = 3
  MaxStops = 2
INVARIANT NoLostWakeup
PROPERTIES EveryChangeSeen ShutdownEnds
