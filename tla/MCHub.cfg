\* Three clients, two rooms, every interleaving of the goroutines up to the
\* end of those that left.
SPECIFICATION Spec
CONSTANTS
    Clients = {c1, c2, c3}
    RoomIDs = {r1, r2}
    NoRoom = NoRoom
    SendBuf = 1
ACTION_CONSTRAINT Tidy
SYMMETRY Symmetry
VIEW View
INVARIANTS TypeOK OnePlace NoRoomLeaked SendsToMembers Standing
