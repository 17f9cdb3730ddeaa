CONSTANTS
  imu = imu
  ctrl = ctrl
  Task <- MCTask
  Raisers <- MCRaisers
  Deadline <- MCDeadline
  Grace = 1
  Period = 1
  Jitter = 1
  WatchdogPeriod = 2
  Wrap = 11
SPECIFICATION FairSpec
INVARIANTS
  DetectionLatency
  SilenceIsBounded
  OutageIsBounded
PROPERTIES
  NoFalseAlarm
  OutageEnds
