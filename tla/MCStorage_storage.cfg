\* Listings, table files, the log file, two handles and topics.
CONSTANTS
    MaxKey = 3
    Prefix = {{1, 2, 3}, {2, 3}}
    Bound = {0, 2}
    MaxLimit = 2
    MaxWrites = 3
    MaxFlushes = 2
    MaxScans = 1
    MaxValue = 1
    BitsPerKey = 12
    MinBits = 8
    Hashes = 2
    MaxBloomBits = 16
    Word = 32
    MaxHash = 2
    MaxBody = 2
    MaxRecords = 4
    MaxCrashes = 3
    Handle = {h1, h2}
    Nobody = Nobody
    MaxSets = 4
    MaxOpens = 3
    MaxCompactions = 2
    Char = {"a", "b"}
    MaxLen = 4
SPECIFICATION PartSpec
CHECK_DEADLOCK FALSE
INVARIANTS
    ListingsAreRight
    TableReadsBack
    ReplayIsExact
    WritesAreKept
    MatchesBySegments
