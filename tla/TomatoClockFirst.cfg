CONSTANTS
  WORK_DOWN_COUNT = 3
  REST_DOWN_COUNT = 2
  MaxFifo = 1
SPECIFICATION Spec
INVARIANT EverySessionFull
CHECK_DEADLOCK FALSE
