SPECIFICATION Spec
CONSTANTS
  Users = {u1, u2}
  Kinds = {"keys", "clear", "disable"}
  MaxOps = 3
  MaxPolls = 1
  Installed = TRUE
  LossyLink = TRUE
  SlowDevice = TRUE
SYMMETRY UserSymmetry
INVARIANTS TypeOK EnteredOnSuccess OnceUnlessLost
CHECK_DEADLOCK FALSE
