\* docs/engine.md: of two tables with the same key the newer one answers.
CONSTANTS
    Key = {k1}
    NoKey = NoKey
    Reader = {r1}
    FlushThreshold = 2
    MaxClockStep = 1
    MaxWrites = 2
    MaxCompactions = 0
    MaxCrashes = 0
    MaxFaults = 0
    MaxReadFaults = 1
SPECIFICATION Spec
INVARIANT NewerTableAnswers
