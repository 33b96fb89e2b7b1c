SPECIFICATION Spec
CONSTANTS
  Commands <- Program
  FileChunks = 2
  KeepName = FALSE
  Slots = 1
  RetryLimit = 1
  Impatient <- ChunkOnly
  Reorder = TRUE
  MaxLoss = 1
  MaxDup = 0
  MaxReboots = 0
INVARIANTS Installed
CHECK_DEADLOCK FALSE
