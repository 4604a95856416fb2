SPECIFICATION RestartSpec
CONSTANTS
  Region = 6
  Align = 2
  MinSlots = 3
  Formats <- OneFormat
  SrcLens = {2}
  MaxFrames = 5
  MaxRuns = 2
INVARIANTS WholeInOneStream GeometryAgrees
CHECK_DEADLOCK FALSE
