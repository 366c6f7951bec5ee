SPECIFICATION Spec
CONSTANTS
  Installers = {i1, i2}
  Kinds = {"jar", "apk", "file"}
  Chunks = 2
  MaxRuns = 3
  LossyLink = TRUE
  SlowLink = TRUE
SYMMETRY InstallerSymmetry
INVARIANTS TypeOK NoSilentPartial JarUsable SuccessMeansInstalled
CHECK_DEADLOCK FALSE
