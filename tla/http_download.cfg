CONSTANTS
  Versions = 3
  SizeOf <- Sizes
  MaxThreads = 2
  Options <- AllOptions
  MaxRetries = 1
  RangesVary = TRUE
  ProbeFails = TRUE
SPECIFICATION LiveSpec
INVARIANTS PublishedIsSource OneSource CheckpointIsDurable DrainedFirst
PROPERTIES RunEnds
