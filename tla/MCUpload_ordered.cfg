SPECIFICATION Spec
CONSTANTS
  Commands <- Any
  FileChunks = 3
  KeepName = TRUE
  Slots = 2
  RetryLimit = 2
  Impatient <- None
  Reorder = FALSE
  MaxLoss = 3
  MaxDup = 0
  MaxReboots = 0
INVARIANTS RunsAfterUpload NoMixedTable
CHECK_DEADLOCK FALSE
