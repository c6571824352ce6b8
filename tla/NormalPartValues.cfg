SPECIFICATION Spec
CONSTANTS
    Keys <- MCFewKeys
    PageCap = 2
    MovesLast = 1
    MovesMid = 1
    BatchSize = 2
    MaxPage = 3
    MaxVer = 2
    MaxCrashes = 1
    MaxFails = 0
INVARIANT ValuesKept
PROPERTY AtomicBatches
CHECK_DEADLOCK FALSE
