SPECIFICATION Spec
CONSTANTS
  MinSlots = 3
  MaxFrames = 4
  SlotCounts = {3}
  Size = 3
  PageSize = 2
  Pages = 4
  MaxPlayers = 1
INVARIANTS NeverPartial
CHECK_DEADLOCK FALSE
