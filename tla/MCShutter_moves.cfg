SPECIFICATION FairSpec
CONSTANTS
  Top = 2
  MaxBound = 5
  Full = 4
  Values <- Written
  QueueSize = 2
INVARIANTS TypeOK Toward PositionKnown
PROPERTIES MotorStops SetupEnds
