CONSTANTS
  PwmMax = 1
  Commands <- MCCommands
  Timeout = 1
  FastWindow = 1
  Wrap = 16
  MaxTick = 4
SPECIFICATION Spec
INVARIANTS
  TypeOK
  StaleDutyCleared
  OutputsMatchDuty
PROPERTY NoSpuriousStop
