SPECIFICATION FairSpec
CONSTANTS
  Routers = {r1}
  Workers = {w1, w2}
  NoWorker = none
  Unhosted = TRUE
  Faults <- OnlyRestarts
  MaxTime = 4
INVARIANTS TypeOK StampCovers ListedCurrent
PROPERTY Settles
CHECK_DEADLOCK FALSE
