\* Two jobs of one stem start in the same second.
SPECIFICATION BundleSpec
CONSTANTS
  a = a
  b = b
  c = c
  Nobody = Nobody
  Earlier = Earlier
  Run <- TwoRuns
  StemOf <- StemOfTwo
  Suite <- NoneOld
  Before <- Concurrent
  Old <- NoneOld
  MaxSuffix = 3
INVARIANTS
  UniqueBundle
