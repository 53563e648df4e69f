SPECIFICATION FairSpec
CONSTANTS
  Conns = {c1}
  Fds = {5}
  NoFd = NoFd
  MaxRequests = 3
  Kinds <- CameraKinds
  Parallel = 2
  Capacity = 2
  Reactor = Reactor
  None = None
PROPERTY
  HandlersFinish
CHECK_DEADLOCK FALSE
