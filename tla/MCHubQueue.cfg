\* Four clients in one room, so that two wait in the queue; no signals.
SPECIFICATION Spec
CONSTANTS
    Clients = {c1, c2, c3, c4}
    RoomIDs = {r1}
    NoRoom = NoRoom
    SendBuf = 1
CONSTRAINT NoSignals
ACTION_CONSTRAINT Prompt
SYMMETRY Symmetry
VIEW View
INVARIANT PairBeforeQueue
PROPERTY LineSpec
