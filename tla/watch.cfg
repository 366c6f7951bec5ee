SPECIFICATION FairSpec
CONSTANTS
  Clients = {c1, c2}
  Stoppers = {c1}
  MaxStarts = 2
  SlowDevice = TRUE
INVARIANTS TypeOK NoDoubleClose OneWatcher
PROPERTIES StableIsQuiet OperationReturns PopupHandled
CHECK_DEADLOCK FALSE
