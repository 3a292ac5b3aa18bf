SPECIFICATION Spec
CONSTANTS
    Clients = {c1}
    Sessions = {s1, s2}
    None = None
    MaxPlayers = 3
    MaxRooms = 2
    MaxScore = 0
    MaxInFlight = 2
    LaterOps = {"match"}
    Rematch = TRUE
    StaleReads = TRUE
SYMMETRY ClientAndSessionSymmetry
CHECK_DEADLOCK FALSE
INVARIANTS
    RegistryExact
    ToldRoomExists
PROPERTIES
    PresenceRefined
