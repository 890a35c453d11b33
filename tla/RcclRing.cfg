\* Three ranks, in both synchronization modes.
SPECIFICATION FairSpec
CONSTANTS
  Rows = 3
  Cols = 1
  Iterations = 2
  Settings <- EachMode
INVARIANTS
  HaloTransported
  WireBounded
PROPERTIES
  ImplementsContract
  Termination
