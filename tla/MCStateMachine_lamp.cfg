SPECIFICATION FairSpec
CONSTANTS
  Table <- LampTable
  DtTable <- LampDtTable
  Inputs <- LampInputs
  Metered <- PowerOnly
  SmIdZero = FALSE
  Clocks <- DayAndNight
  TimestampModulus = 3
  QueueSize = 1
  MaxStarts = 2
INVARIANTS TypeOK NotReentered TimerAlive
PROPERTIES Implements ReturnsToIdle DatetimeChecked
