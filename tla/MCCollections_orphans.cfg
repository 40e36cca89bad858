\* collections.go: DeleteCollection removes every record.
CONSTANTS
    FieldName = {"f", "g"}
    Coll = {"notes"}
    Id = {1}
    Admin = {a1}
    Client = {p1, p2}
    Pager = {}
    NewMeta <- OneSchema
    Patch <- NoPatches
    NewData <- Full
    PatchData <- TwoPatches
    PageSize = 1
    Nobody = Nobody
    MaxSchemaCalls = 2
    MaxRecordCalls = 3
    MaxWalks = 0
    MaxCrashes = 0
    MaxFaults = 0
    MaxMisses = 0
SPECIFICATION Spec
CHECK_DEADLOCK FALSE
SYMMETRY Symmetry
INVARIANT DeleteLeavesNothing
