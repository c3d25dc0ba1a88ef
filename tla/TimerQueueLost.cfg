CONSTANTS
  NumTimers = 3
  Intervals = {0}
  MaxTime = 4
  MinDelay = 1
SPECIFICATION FairSpec
PROPERTY EveryTimerRuns
CHECK_DEADLOCK FALSE
