SPECIFICATION FairSpec
CONSTANTS
  Sensors <- Three
  Queries <- Three
  device <- DeviceOf
  Second = 2
  max_tries = 2
  MaxLate = 1
  MaxReady = 2
  MaxReadings <- Few
INVARIANTS TypeOK AskedWhileWaiting TimerSet NeverForgotten AddedOnce
PROPERTIES LogSpec GivesUpInTime ResolvedIfSent
