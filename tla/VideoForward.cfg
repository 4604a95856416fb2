SPECIFICATION Spec
CONSTANTS
  MinSlots = 3
  MaxFrames = 5
  SlotCounts = {3, 4}
  Size = 4
  PageSize = 2
  Pages = 4
  MaxPlayers = 2
INVARIANTS TypeOK LooksInOrder WholeForTheFirst
PROPERTIES NeverTwice ComesToRest RoomIsShown ReadsSource
CHECK_DEADLOCK FALSE
