SPECIFICATION Spec
CONSTANTS
  Port <- MCPort
  Route <- MCRoute
  Neigh <- MCNeigh
  Mac = {m1, m2}
  NoGateway = NoGateway
  NoMac = NoMac
  Hash <- MCHash
  QueueLen = 2
  MaxChange = 4
  MemoryFails = FALSE
SYMMETRY MacSymmetry
CHECK_DEADLOCK FALSE
INVARIANTS
  RoutesSynchronized
