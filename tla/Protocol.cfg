SPECIFICATION FairProtocolSpec
CONSTANTS
    MAX_BODY_SIZE = 22
    Requests <- MCRequests
    Notices <- MCNotices
    Replies <- MCReplies
    ShortWrites = FALSE
    ReadSizes = {9, 40}
    MaxRequests = 2
    MaxNotices = 1
    Self = 1
    Others = {2}
    RoomId = 1
    Texts <- MCTexts
    ServerTime = 8
    MaxScore = 1
    Half = 3
    HalfMs = 8
    MaxReports = 1
    Samples <- MCSamples
CHECK_DEADLOCK FALSE
INVARIANTS
    NoStuckQueue
    HeartbeatEcho
    RankingsTrue
    PacketsCounted
    AverageRtt
    RoundTrip
    SizeExact
PROPERTIES
    RequestsInOrder
    RepliesInOrder
    RequestsHandled
    RepliesArrive
