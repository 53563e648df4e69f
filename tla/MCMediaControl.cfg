SPECIFICATION Spec
CONSTANTS
  Conns = {c1, c2}
  Fds = {5}
  NoFd = NoFd
  MaxRequests = 3
  Kinds <- AllKinds
  Parallel = 2
  Capacity = 2
  Reactor = Reactor
  None = None
SYMMETRY ConnSymmetry
INVARIANTS
  RecorderOwnedOnce
  FiledOnceWhenStopped
  MapsFollowConnections
  OrderlyRecordingsFiled
  OrderlyCloseLeavesNothing
CHECK_DEADLOCK FALSE
