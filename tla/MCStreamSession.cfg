SPECIFICATION FairSpec
CONSTANTS
  QueueCapacity = 1
  MaxOpens = 3
  MaxFrames = 3
  MaxRecords = 1
INVARIANTS
  PullThreadJoined
  GaplessInOrder
  RecordingMatchesDelivery
PROPERTIES
  FreshAfterReconnect
  CallsReturn
CHECK_DEADLOCK FALSE
