SPECIFICATION Spec
CONSTANTS
  Threads = {t1, t2}
  NoThread = NoThread
  Kinds = {"call", "start", "stop"}
  MaxOps = 3
  ForeignService = TRUE
  FlakyLink = FALSE
  SlowExit = FALSE
  LateDisconnect = FALSE
SYMMETRY ThreadSymmetry
INVARIANTS TypeOK LaunchProtected NoOrphanService BrokenServiceReplaced
CHECK_DEADLOCK FALSE
