CONSTANTS
  Threads = {t1}
  LoopThread = loop
  Channels = {io}
  Wakeup = wakeup
  MaxQueue = 1
  EventFdMax = 2
  Owner = t1
SPECIFICATION HostSpec
INVARIANT QuitWakesLoop
