SPECIFICATION Spec
CONSTANTS
  Threads = {t1}
  NoThread = NoThread
  Kinds = {"start", "stop"}
  MaxOps = 3
  ForeignService = FALSE
  FlakyLink = FALSE
  SlowExit = FALSE
  LateDisconnect = FALSE
INVARIANT CloseStopsService
CHECK_DEADLOCK FALSE
