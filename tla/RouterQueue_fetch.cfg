SPECIFICATION Spec
CONSTANTS
  Routers = {r1}
  Workers = {w1, w2}
  NoWorker = none
  Unhosted = FALSE
  Faults <- OnlyFetches
  MaxTime = 5
INVARIANT ListedCurrent
CHECK_DEADLOCK FALSE
