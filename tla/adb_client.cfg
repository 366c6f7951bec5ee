SPECIFICATION FairSpec
CONSTANTS
  Users = {u1, u2}
  NoUser = NoUser
  Kinds = {"list", "find", "shell", "tunnel"}
  Serials = {1, 2}
  MaxOps = 2
  MaxChanges = 1
  LossyLink = TRUE
INVARIANTS TypeOK NoLeak FindIsRight
PROPERTY OperationReturns
CHECK_DEADLOCK FALSE
