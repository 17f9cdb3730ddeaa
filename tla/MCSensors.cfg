CONSTANTS
  Wheel = {"left", "right"}
  Taken = {"left"}
  Positions <- MCPositions
  Count = 7
  Views <- Views7
  Unit = 180
  LagFrames = 7
SPECIFICATION SensorsSpec
INVARIANTS
  SensorsTypeOK
  TotalIsExact
  EdgesAreSeen
  DeltasAddUp
  SteersBack
