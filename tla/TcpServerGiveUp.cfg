CONSTANTS
  MaxConn = 1
  MaxThreads = 1
  Users = {u1}
  UserOps = {"send", "shutdown"}
  MsgLen = 2
  MaxSend = 2
  HasWriteComplete = FALSE
  Destroys = FALSE
SPECIFICATION Spec
INVARIANT GivesUpWrite
CHECK_DEADLOCK FALSE
