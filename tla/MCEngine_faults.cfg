\* Failing system calls: writes, fsyncs, renames and removals.
CONSTANTS
    Key = {k1, k2}
    NoKey = NoKey
    Reader = {}
    FlushThreshold = 2
    MaxClockStep = 1
    MaxWrites = 3
    MaxCompactions = 1
    MaxCrashes = 1
    MaxFaults = 2
    MaxReadFaults = 0
SYMMETRY KeySymmetry
SPECIFICATION Spec
INVARIANTS
    AckedSurvives
    MemBytesExact
    EngineInvariant
