SPECIFICATION FairSpec
CONSTANTS
  Table <- ControlTable
  DtTable <- ControlDtTable
  Inputs <- ControlInputs
  Metered <- PowerEnergy
  SmIdZero = FALSE
  Clocks <- DayAndNight
  TimestampModulus = 2
  QueueSize = 2
  MaxStarts = 3
INVARIANTS StackBounded
PROPERTIES ReturnsToIdle
