\* Validation as the MPI-HIP backend ends it: the rank that fails throws alone.
SPECIFICATION Spec
CONSTANTS
  Rows = 1
  Cols = 2
  Halos = 1
  Samples = 1
  Calibration = 1
  Target = 2
  Durations <- OneOrTwo
  IntLimit = 8
  Record = FALSE
  Threshold = 2
  Verdict = "throw"
  Corrupt = TRUE
  Fail = FALSE
INVARIANTS
  FailsCollectively
