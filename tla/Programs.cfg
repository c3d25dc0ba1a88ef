CONSTANTS
  Byte = {0, 1}
  Zero = 0
  kCheapPrepend = 1
  kInitialSize = 3
  ExtraLen = 2
  MaxBytes = 6
  MaxPieces = 6
  NumTimers = 3
  Intervals = {0, 2}
  MaxTime = 3
  MinDelay = 1
  Sources = {1, 2}
  Hour = 6
  MAX_GAP = 2
  MaxFetch = 1
  MaxDown = 1
  Links = {"a", "b", "c"}
  MaxEntries = 2
  MaxFetches = 2
  WORK_DOWN_COUNT = 3
  REST_DOWN_COUNT = 2
  MaxFifo = 2
  N = 15
  StackThreads = {t1, t2, t3}
  Nodes = {1, 2, 3}
  Initial = 2
  MaxOps = 4
SPECIFICATION Spec
INVARIANTS TypeOK IndicesOrdered StreamPreserved FramedByLines AnsweredOnce ResponseMatchesRequest ArmedUnlessSwallowed OwnedOnce GapFollowsStreak OnSchedule DocumentsMatchRows NoArticleMissed LaterSessionsFull NoStaleClickEndsWait PrintedInOrder NoUseAfterFree EachPoppedOnce
PROPERTIES WholeRequestAnswered AllFinish
CHECK_DEADLOCK FALSE
