SPECIFICATION FairSpec
CONSTANTS
  W = 5
  OutOfDate = 3
  MaxGap = 1
  Cycles = 2
  CalPower = 2
  Factory <- Delivered
  MaxHits = 1
INVARIANTS TypeOK PowerKept LockedCorrect
PROPERTIES ReadPlausible CalibrationEnds
