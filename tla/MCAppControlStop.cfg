CONSTANTS
  Wrap = 8
  Commands = {"DUTY", "STOP"}
  Holds = {0, 2}
  DefaultHold = 1
  CtrlWindow = 2
SPECIFICATION Spec
INVARIANT StopStops
