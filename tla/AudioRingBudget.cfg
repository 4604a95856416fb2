SPECIFICATION FairSpec
CONSTANTS
  Cap = 4
  Frame = 1
  PushSizes = {1, 2}
  Windows = {2}
  MaxLatency = 4
  MaxTail = 6
  MaxCrashes = 0
PROPERTIES ReadReturns
