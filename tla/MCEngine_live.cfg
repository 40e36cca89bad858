\* Every call returns, whatever else runs, fails or is shut down meanwhile.
CONSTANTS
    Key = {k1}
    NoKey = NoKey
    Reader = {r1}
    FlushThreshold = 2
    MaxClockStep = 1
    MaxWrites = 3
    MaxCompactions = 1
    MaxCrashes = 0
    MaxFaults = 0
    MaxReadFaults = 1
SPECIFICATION FairSpec
PROPERTIES
    WriteReturns
    CompactReturns
    GetReturns
    CloseReturns
