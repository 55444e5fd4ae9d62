\* Three clients, one of which waits; each connects once.
SPECIFICATION OnceSpec
CONSTANTS
    Clients = {c1, c2, c3}
    RoomIDs = {r1}
    NoRoom = NoRoom
    SendBuf = 1
PROPERTY PlaceIsTaken
\* All clients may have been there and gone.
CHECK_DEADLOCK FALSE
