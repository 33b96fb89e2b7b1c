SPECIFICATION FairSpec
CONSTANTS
  Commands <- Any
  FileChunks = 2
  KeepName = FALSE
  Slots = 0
  RetryLimit = 1
  Impatient <- StopOnly
  Reorder = TRUE
  MaxLoss = 1
  MaxDup = 1
  MaxReboots = 0
PROPERTIES Terminates
CHECK_DEADLOCK FALSE
