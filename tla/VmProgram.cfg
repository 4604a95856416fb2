SPECIFICATION Spec
CONSTANTS
  RunFails = {TRUE, FALSE}
  MaxHalts = 1
  Accepts = {{}, {1}, {2, 9}, {10}}
  Buffers = 2
  MaxPackets = 3
  AudioTypes <- Waves
  VideoTypes <- Pictures
  VideoBytes = 256
  MaxFaults = 2
  MaxBuffers = 1
  MaxU32 = 1000
INVARIANTS TypeOK Continuous NoneStranded Described CardAwake LeavesNothing
PROPERTIES StallEnds SoundStarts
CHECK_DEADLOCK FALSE
