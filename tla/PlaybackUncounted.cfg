SPECIFICATION PlaybackSpec
CONSTANTS
  Cap = 4
  Frame = 1
  PushSizes = {1, 2}
  Windows = {1}
  Slices = {1}
  MaxLatency = 1
  MaxTail = 4
  MaxCrashes = 0
  MaxEvents = 2
PROPERTIES SlipsCounted
CHECK_DEADLOCK FALSE
