SPECIFICATION Spec
CONSTANTS
  Browsers = {b1, b2, b3}
  RoomIDs = {r1}
  NoRoom = NoRoom
  None = None
  MaxJoins = 1
  MaxTrouble = 1
  Eager = TRUE
CHECK_DEADLOCK FALSE
SYMMETRY Symmetry
INVARIANTS TypeOK  RolesFit PlaceIsShown  NoLeak 
