SPECIFICATION PlaybackSpec
CONSTANTS
  Cap = 4
  Frame = 2
  PushSizes = {2, 6}
  Windows = {2, 4}
  Slices = {3, 4}
  MaxLatency = 1
  MaxTail = 6
  MaxCrashes = 1
  MaxEvents = 2
INVARIANTS PlaybackTypeOK FrameAligned
PROPERTIES NeverReplays OverflowsAreSlips UnderflowsAreDrains CountsPrinted
CHECK_DEADLOCK FALSE
