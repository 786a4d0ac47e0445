SPECIFICATION MCSpec
CONSTANTS
  MaxOps = 3
  Last = 2
  p1 = p1
  g1 = g1
  g2 = g2
  x1 = x1
  x2 = x2
  t1 = t1
  t2 = t2
  q1 = q1
  q2 = q2
  None = None
  Owners <- MCOwners
  Ports <- MCPorts
  Requests <- MCRequests
  PoolSets <- MCPools
  Routers = {r1}
  GwPorts <- MCGwPorts
  ExtPorts <- MCExt
  Targets <- MCTargets
  NatIds <- MCNats
  n1 = n1
  n2 = n2
SYMMETRY Symmetry
INVARIANTS GTypeOK RangesFree NatServed NoCollision OneAddress PortKept
PROPERTIES HonestRefusal
CHECK_DEADLOCK FALSE
