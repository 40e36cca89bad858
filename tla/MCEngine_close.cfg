\* docs/engine.md: a clean shutdown leaves the WAL fsynced.
CONSTANTS
    Key = {k1}
    NoKey = NoKey
    Reader = {}
    FlushThreshold = 2
    MaxClockStep = 1
    MaxWrites = 1
    MaxCompactions = 0
    MaxCrashes = 1
    MaxFaults = 0
    MaxReadFaults = 0
SPECIFICATION Spec
INVARIANT CleanCloseIsDurable
