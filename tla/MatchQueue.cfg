SPECIFICATION Spec
CONSTANTS
    PlayerIds <- MCPlayerIds
    RoomSize = 4
INVARIANTS
    TypeOK
    Mirror
    NeverFull
