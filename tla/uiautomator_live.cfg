SPECIFICATION FairSpec
CONSTANTS
  Threads = {t1, t2}
  NoThread = NoThread
  Kinds = {"call", "start", "stop", "reset"}
  MaxOps = 2
  ForeignService = TRUE
  FlakyLink = TRUE
  SlowExit = TRUE
  LateDisconnect = TRUE
PROPERTIES CallPromise OperationReturns
CHECK_DEADLOCK FALSE
