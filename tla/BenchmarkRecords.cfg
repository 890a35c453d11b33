\* Iterations are recorded and stalls gathered; an int holds less than 3.
\* Validation ends as in the MPI-HIP backend; any call may throw.
SPECIFICATION FairSpec
CONSTANTS
  Rows = 1
  Cols = 2
  Halos = 2
  Samples = 2
  Calibration = 1
  Target = 3
  Durations <- OneOrTwo
  IntLimit = 3
  Record = TRUE
  Threshold = 2
  Verdict = "throw"
  Corrupt = TRUE
  Fail = TRUE
INVARIANTS
  TypeOK
  SameCollectives
  ResultsAgree
PROPERTIES
  Concluded
