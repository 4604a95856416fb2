SPECIFICATION Spec
CONSTANTS
  Region = 13
  Align = 2
  MinSlots = 3
  Formats <- AllFormats
  SrcLens = {1, 4}
  MaxFrames = 6
  MaxRuns = 1
INVARIANTS Inv WholeFrames GeometryAgrees
PROPERTIES ImplementsSource
CHECK_DEADLOCK FALSE
