\* Three ranks: messages north and south, local copies east and west; a copy
\* between device buffers blocks.
SPECIFICATION Spec
CONSTANTS
  Rows = 3
  Cols = 1
  Iterations = 3
  EagerTags = {"9901"}
  BlockingCopy = TRUE
INVARIANTS
  DeviceReadsSettled
PROPERTIES
  ImplementsContract
