SPECIFICATION FairSpec
CONSTANTS
  Commands <- Any
  FileChunks = 3
  KeepName = FALSE
  Slots = 2
  RetryLimit = 2
  Impatient <- None
  Reorder = TRUE
  MaxLoss = 3
  MaxDup = 0
  MaxReboots = 1
INVARIANTS TypeOK Installed LeftBehindStored
PROPERTIES OnlyAckAdvances Terminates
CHECK_DEADLOCK FALSE
