SPECIFICATION FairSpec
CONSTANTS
  t1 = t1
  t2 = t2
  t3 = t3
  NoThread = NoThread
  Threads <- ThreeThreads
  MaxCalls = 3
  MaxBoots = 2
  Exposures <- Scenarios
INVARIANTS
  TypeOK
  ActiveIsOwner
PROPERTIES
  RunningIsRestored
  LifecycleSettles
CHECK_DEADLOCK FALSE
