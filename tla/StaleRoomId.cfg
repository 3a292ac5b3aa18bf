SPECIFICATION Spec
CONSTANTS
    Clients = {c1, c2}
    Sessions = {s1, s2}
    None = None
    MaxPlayers = 2
    MaxRooms = 1
    MaxScore = 0
    MaxInFlight = 1
    LaterOps = {"match"}
    Rematch = TRUE
    StaleReads = FALSE
SYMMETRY ClientAndSessionSymmetry
CHECK_DEADLOCK FALSE
INVARIANTS
    RoomRestored
