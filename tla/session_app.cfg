SPECIFICATION Spec
CONSTANTS
  Users = {u1, u2}
  Kinds = {"new", "attach", "restart", "close", "click", "text", "gone", "vanish"}
  Places = {1, 2}
  MaxOps = 3
  MaxRetry = 1
  LossyLink = TRUE
SYMMETRY UserSymmetry
INVARIANTS TypeOK TapWhereSeen SessionIsFresh GoneIsGone
CHECK_DEADLOCK FALSE
