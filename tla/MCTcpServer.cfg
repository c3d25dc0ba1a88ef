CONSTANTS
  MaxConn = 2
  MaxThreads = 2
  Users = {u1}
  UserOps = {"send"}
  MsgLen = 1
  MaxSend = 1
  HasWriteComplete = FALSE
  Destroys = TRUE
SPECIFICATION Spec
INVARIANTS TypeOK NoDanglingRegistration CallbacksPaired TornDownOnce FinAfterOwnData
CHECK_DEADLOCK FALSE
