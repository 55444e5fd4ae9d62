SPECIFICATION FairSpec
CONSTANTS
    Clients = {c1, c2}
    RoomIDs = {r1}
    NoRoom = NoRoom
    SendBuf = 1
PROPERTIES GhostLeaves PumpsEnd
