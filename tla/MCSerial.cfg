CONSTANTS
  Lengths = {0, 1, 3}
  MaxPayload = 12
  TargetLen = 2
  Frames <- MCFrames
  Noise <- MCNoise
  Spacing = 1
  CmdBufLen = 4
  RxBytes <- MCRxBytes
  MaxLine = 5
  MaxRate = 2
  Wrap = 8
  Periods = {1, 3}
  TaskWindow = 1
  RingSize = 3
  MsgLens = {1, 2}
  FifoDepth = 2
SPECIFICATION SerialSpec
INVARIANTS
  AllTypeOK
  SelectedForOwnBytes
  TargetWasSent
  Resynchronises
  QuietMeansCurrent
  LineIsTail
  StreamIsAlive
  MessagesWhole
  TxFits
PROPERTIES
  ImplementsBus
  StaysInStep
