SPECIFICATION Spec
CONSTANTS
  Table <- LampTable
  DtTable <- LampDtTable
  Inputs <- LampInputs
  Metered <- PowerOnly
  SmIdZero = FALSE
  Clocks <- DayAndNight
  TimestampModulus = 3
  QueueSize = 2
  MaxStarts = 2
PROPERTIES SinceOfState
