SPECIFICATION FairSpec
CONSTANTS
  c1 = c1
  c2 = c2
  s1 = s1
  s2 = s2
  Conns <- MCConns
  Fds <- MCFds
  Senders <- MCSenders
  Reactor = reactor
  None = none
  NoFd = nofd
  FrameLen = 2
  SndBuf = 1
  MaxFrames = 2
INVARIANTS
  PendingIsArmed
  InterestMatchesEpoll
  ArmsOwnDescriptor
PROPERTIES
  ImplementsChannel
  EventuallySent
CHECK_DEADLOCK FALSE
