\* Four ranks, whose segments are all messages; the copies do not block.
SPECIFICATION Spec
CONSTANTS
  Rows = 2
  Cols = 2
  Iterations = 1
  EagerTags = {"9901"}
  BlockingCopy = FALSE
INVARIANTS
  MPIReadsSettled
