CONSTANTS
  Wrap = 7
  Commands = {"START", "STOP", "DUTY"}
  Holds = {0, 2}
  DefaultHold = 1
  CtrlWindow = 1
SPECIFICATION Spec
INVARIANTS
  HoldIsBounded
  OutputHasCause
PROPERTIES
  HoldIsKept
  OneRunPerStart
