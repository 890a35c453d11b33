\* Five ranks in a ring, the smallest grid the program builds where not all
\* ranks are around each other.  Validation as the RCCL backend ends it; any
\* call may throw on any rank.
SPECIFICATION Spec
CONSTANTS
  Rows = 5
  Cols = 1
  Halos = 1
  Samples = 1
  Calibration = 1
  Target = 2
  Durations <- OneOrTwo
  IntLimit = 8
  Record = FALSE
  Threshold = 2
  Verdict = "reduce"
  Corrupt = TRUE
  Fail = TRUE
INVARIANTS
  SameExchanges
  TimedRegionsAligned
  AllOrNothing
  FailsCollectively
