SPECIFICATION Spec
CONSTANTS
  Users = {u1, u2}
  Kinds = {"swipe", "unlock", "double"}
  Width = 20
  Height = 32
  Scales = {0, 1000, 10000}
  Inputs <- MCInputs
  MaxInt = 50000
  MaxOps = 4
  MaxTurns = 1
  LossyLink = TRUE
SYMMETRY UserSymmetry
INVARIANTS TypeOK OnScreen FingerUp UnlockWakes RequestsInRange
CHECK_DEADLOCK FALSE
