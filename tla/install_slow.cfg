SPECIFICATION Spec
CONSTANTS
  Installers = {i1}
  Kinds = {"jar"}
  Chunks = 2
  MaxRuns = 1
  LossyLink = FALSE
  SlowLink = TRUE
INVARIANT HealthyPushSucceeds
CHECK_DEADLOCK FALSE
