SPECIFICATION Spec
CONSTANTS
  Routers = {r1, r2}
  Workers = {w1, w2}
  NoWorker = none
  Unhosted = TRUE
  Faults <- AllFaults
  MaxTime = 3
SYMMETRY Symmetry
INVARIANTS Exclusive NoDeadMaster
CHECK_DEADLOCK FALSE
