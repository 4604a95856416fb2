SPECIFICATION FairSpec
CONSTANTS
  Cap = 8
  Frame = 2
  PushSizes = {2, 6, 10}
  Windows = {2, 4}
  MaxLatency = 3
  MaxTail = 12
  MaxCrashes = 0
INVARIANTS Inv NoTornRead FrameAligned
PROPERTIES NeverReplays BoundedLatency ImplementsStream ReadReturns
