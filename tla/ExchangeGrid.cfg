\* A 2x2 grid; the N segments are buffered, the 2N segments by rendezvous.
SPECIFICATION FairSpec
CONSTANTS
  Rows = 2
  Cols = 2
  Iterations = 2
  EagerTags <- ShortTags
INVARIANTS
  HaloTransported
  OneMessagePerTag
PROPERTIES
  ImplementsContract
  Termination
