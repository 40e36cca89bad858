\* Files, accounts and rights, with failing steps, kills and power failures.
CONSTANTS
    File = {f1, f2, f3}
    Proc = {p1, p2}
    NoFile = NoFile
    MaxCrashes = 2
    PowerFails = TRUE
    MaxFaults = 2
    LateErrors = FALSE
    Email = {e1, e2, e3}
    Password = {w1, w2}
    Nobody = Nobody
    ListLimit = 2
    Lifetime = 0
    MaxTime = 1
    MaxUsers = 4
    MaxCalls = 4
    MaxRestarts = 2
    MaxMisses = 0
    FieldName = {"f"}
    Admin = Admin
    User = User
    Coll = {c1}
    Internal = {_files, _users}
    FilesCollection = _files
    Request = {r1}
    Path = {"health", "login", "register", "me", "password", "collections", "collection",
            "records", "record", "kv", "files", "file", "stats", "logs", "realtime"}
    Method = {"GET", "POST", "PUT", "PATCH", "DELETE"}
    MaxRequests = 1
    MaxChanges = 2
SPECIFICATION PartSpec
CHECK_DEADLOCK FALSE
SYMMETRY Symmetry
INVARIANTS
    ListedIsWhole
    NoGarbage
    AccountsAreUnique
    FirstIsTheAdmin
    TokensFollowSecret
    RequestsAreRight
    StreamAgreesWithREST
