\* Streams, their clients and the log, with slow, stopping and vanishing clients.
CONSTANTS
    Request = {r1}
    Stream = {s1, s2}
    Topic = {t1}
    Nothing = Nothing
    BufferLen = 1
    MaxUnread = 1
    MaxEvents = 2
    MayStop = TRUE
    TimeLimit = TRUE
    ChanLen = 2
    MaxSent = 3
    MaxBeats = 1
    Handler = {h1, h2}
    Limit = 3
    QueueLen = 1
    MaxEntries = 4
    MaxLoads = 2
SPECIFICATION PartSpec
CHECK_DEADLOCK FALSE
INVARIANTS
    NothingUsedAfterClose
    NothingElseIsLost
    CallsAreSound
    TailIsFollowed
PROPERTIES
    StreamEnds
    StopNeedsNoLimit
