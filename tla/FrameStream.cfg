SPECIFICATION FairStreamSpec
CONSTANTS
  Frames <- SmallFrames
  HeaderSize = 2
  MaxFrameSize = 2
  SocketBuffer = 3
  MaxFrames = 3
  Noise = Noise
INVARIANTS
  StreamTypeOK
  NothingLost
PROPERTIES
  DeliversFrames
  FramesArrive
CHECK_DEADLOCK FALSE
