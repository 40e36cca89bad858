\* Gets running through writes, flushes, compactions and a Close.
CONSTANTS
    Key = {k1, k2}
    NoKey = NoKey
    Reader = {r1}
    FlushThreshold = 2
    MaxClockStep = 1
    MaxWrites = 4
    MaxCompactions = 1
    MaxCrashes = 0
    MaxFaults = 0
    MaxReadFaults = 0
SYMMETRY KeySymmetry
SPECIFICATION Spec
INVARIANTS
    HeldTablesOpen
    GetIsFresh
