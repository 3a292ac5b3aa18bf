SPECIFICATION Spec
CONSTANTS
    PlayerIds <- MCPlayerIds
    MaxRooms = 3
INVARIANTS
    TypeOK
    RoomIndex
PROPERTY
    RoomLasts
