CONSTANTS
  f1 = f1
  f2 = f2
  NoFrame = NoFrame
  Frames <- MCFrames
  TX_DESC_COUNT = 4
  RX_DESC_COUNT = 3
SPECIFICATION Spec
INVARIANTS
  RingsAgree
PROPERTIES
  ImplementsDevice
  FramesAreSent
  FramesAreReceived
