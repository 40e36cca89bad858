\* A snapshot while writes, flushes and a compaction go on, with a crash and a fault.
CONSTANTS
    Key = {k1}
    NoKey = NoKey
    Reader = {r1}
    FlushThreshold = 2
    MaxClockStep = 1
    MaxWrites = 3
    MaxCompactions = 1
    MaxCrashes = 1
    MaxFaults = 1
    MaxReadFaults = 1
    MaxSnapshots = 1
    CalledClosed = FALSE
SPECIFICATION BackupSpec
CHECK_DEADLOCK FALSE
INVARIANT SnapshotsAreSound
