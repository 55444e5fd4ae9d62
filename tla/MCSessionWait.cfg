SPECIFICATION Spec
CONSTANTS
  Browsers = {b1, b2, b3}
  RoomIDs = {r1}
  NoRoom = NoRoom
  None = None
  MaxJoins = 1
  MaxTrouble = 0
  Eager = TRUE
CHECK_DEADLOCK FALSE
SYMMETRY Symmetry
PROPERTY WaitersStay
