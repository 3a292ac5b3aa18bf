SPECIFICATION Spec
CONSTANTS
    Clients = {c1, c2}
    Sessions = {s1, s2}
    None = None
    MaxPlayers = 2
    MaxRooms = 1
    MaxScore = 0
    MaxInFlight = 2
    LaterOps = {"login", "match", "reconnect"}
    Rematch = FALSE
    StaleReads = TRUE
SYMMETRY ClientAndSessionSymmetry
CHECK_DEADLOCK FALSE
INVARIANTS
    TypeOK
    SingleOwner
    RoomView
PROPERTIES
    NoConnectedEviction
