\* Schema calls, records and listings, overlapping, failing and dying.
CONSTANTS
    FieldName = {"f", "g"}
    Coll = {"notes"}
    Id = {1, 2}
    Admin = {a1, a2}
    Client = {p1, p2}
    Pager = {w1}
    NewMeta <- MCNewMeta
    Patch <- MCPatch
    NewData <- MCNewData
    PatchData <- MCPatchData
    PageSize = 1
    Nobody = Nobody
    MaxSchemaCalls = 2
    MaxRecordCalls = 2
    MaxWalks = 1
    MaxCrashes = 1
    MaxFaults = 1
    MaxMisses = 1
SPECIFICATION Spec
CHECK_DEADLOCK FALSE
SYMMETRY Symmetry
INVARIANTS
    OrphansAreLateWrites
    RecordsAreSound
    EventsTellOfWrites
    ListingExact
PROPERTY SchemaCallsAreAtomic
