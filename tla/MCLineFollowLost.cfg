CONSTANTS
  Count = 7
  Views <- Views7
  Unit = 180
  LagFrames = 7
SPECIFICATION LineSpec
INVARIANTS
  SeeksTheLine
