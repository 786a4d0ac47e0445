SPECIFICATION Spec
CONSTANTS
  Routers = {r1}
  Workers = {w1, w2}
  NoWorker = none
  Unhosted = TRUE
  Faults <- NoFaults
  MaxTime = 5
INVARIANT GoneRemoved
CHECK_DEADLOCK FALSE
