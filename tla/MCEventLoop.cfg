CONSTANTS
  Threads = {t1, t2}
  LoopThread = loop
  Channels = {io}
  Wakeup = wakeup
  MaxQueue = 1
  EventFdMax = 1
  Owner = t1
SPECIFICATION HostFairSpec
INVARIANTS TypeOK NoLostWakeup ExactlyOnceInOrder NoDanglingEntry
PROPERTIES ImplementsFifoExecutor QueuedFunctorRuns QuitEndsLoop StartLoopReturns DestructorReturns
