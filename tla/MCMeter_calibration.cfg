SPECIFICATION Spec
CONSTANTS
  W = 5
  OutOfDate = 3
  MaxGap = 1
  Cycles = 2
  CalPower = 2
  Factory <- Delivered
  MaxHits = 1
PROPERTIES StopsWithoutPulse
