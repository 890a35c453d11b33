\* Runs of one stem follow each other, a run of another stem is concurrent.
SPECIFICATION BundleSpec
CONSTANTS
  a = a
  b = b
  c = c
  Nobody = Nobody
  Earlier = Earlier
  Run <- ThreeRuns
  StemOf <- StemOfThree
  Suite <- TwoRuns
  Before <- BAfterA
  Old <- OldOfThree
  MaxSuffix = 3
INVARIANTS
  BundleTypeOK
  VerifiedIsWhole
PROPERTIES
  NeverOverwrites
