SPECIFICATION PartsSpec
CONSTANTS
  w1 = w1
  w2 = w2
  w3 = w3
  p1 = p1
  p2 = p2
  s1 = s1
  s2 = s2
  t1 = t1
  t2 = t2
  t3 = t3
  Workers <- MCWorkers
  Producers <- MCProducers
  Stoppers <- MCStoppers
  Tasks <- MCTasks
  NoTask = NoTask
  TaskCapacity = 2
  Threads <- MCThreads
  Capacity = 2
  MaxItems = 4
INVARIANTS
  WakeupsCoverQueue
  StopDrains
  NobodyWaitsInVain
PROPERTIES
  ImplementsTaskQueue
  EventuallyRun
  StopReturns
  ImplementsQueue
  CloseReleases
CHECK_DEADLOCK FALSE
