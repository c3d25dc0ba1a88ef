CONSTANTS
  MaxConn = 1
  MaxThreads = 1
  Users = {u1}
  UserOps = {"send", "shutdown"}
  MsgLen = 2
  MaxSend = 2
  HasWriteComplete = TRUE
  Destroys = TRUE
SPECIFICATION FairSpec
INVARIANTS NoFatalUpdate WriteInterestMatchesOutput
PROPERTIES ClosedIsReleased ShutdownCompletes
CHECK_DEADLOCK FALSE
