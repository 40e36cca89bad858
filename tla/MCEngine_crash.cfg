\* Kills and power failures at every step of writes, flushes and compactions.
CONSTANTS
    Key = {k1, k2}
    NoKey = NoKey
    Reader = {}
    FlushThreshold = 2
    MaxClockStep = 1
    MaxWrites = 3
    MaxCompactions = 2
    MaxCrashes = 2
    MaxFaults = 0
    MaxReadFaults = 0
SYMMETRY KeySymmetry
SPECIFICATION Spec
INVARIANTS
    TypeOK
    NoLostWrite
    AckedSurvives
    ReloadLosesNothing
    NoStrayTmp
PROPERTIES
    RemovedIsCovered
    Implements
