SPECIFICATION Spec
CONSTANTS
    Clients = {c1, c2}
    Sessions = {s1, s2}
    None = None
    MaxPlayers = 3
    MaxRooms = 1
    MaxScore = 1
    MaxInFlight = 1
    LaterOps = {"match", "chat"}
    Rematch = FALSE
    StaleReads = TRUE
SYMMETRY ClientAndSessionSymmetry
CHECK_DEADLOCK FALSE
INVARIANTS
    NoNullSession
    RoomsExact
    Drained
PROPERTIES
    QueueEntry
