SPECIFICATION ProtocolSpec
CONSTANTS
    MAX_BODY_SIZE = 22
    Requests <- MCHeartbeats
    Notices <- MCNotices
    Replies <- MCReplies
    ShortWrites = TRUE
    ReadSizes = {40}
    MaxRequests = 2
    MaxNotices = 0
    Self = 1
    Others = {2}
    RoomId = 1
    Texts <- MCTexts
    ServerTime = 8
    MaxScore = 0
    Half = 3
    HalfMs = 8
    MaxReports = 0
    Samples <- MCSamples
CHECK_DEADLOCK FALSE
PROPERTIES
    RepliesInOrder
