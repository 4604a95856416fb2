SPECIFICATION CrashSpec
CONSTANTS
  Cap = 4
  Frame = 1
  PushSizes = {1, 2}
  Windows = {2}
  MaxLatency = 1
  MaxTail = 7
  MaxCrashes = 1
INVARIANTS NoTornRead
