CONSTANTS
  Retries = 5
  CalSamples = 3
  Persistent = 2
  Configs = 3
  Hold = 2
  LearnAfter = 2
  StillRate = 15
  LearnRate = 3
  LockRate = 2
  Offsets = {0, 3}
  RateOf <- RateOfMotion
SPECIFICATION StackFairSpec
INVARIANTS
  StackTypeOK
  RunsOnlyCalibrated
  ReadyMeansConfigured
PROPERTIES
  StartUpEnds
  ErrorsReachTheCar
  ImplementsService
  LearnsOnlyWhenStill
  AtRestYawLocks
