SPECIFICATION ScanSpec
CONSTANTS
    Keys <- MCKeys
    PageCap = 2
    MovesLast = 1
    MovesMid = 1
    BatchSize = 3
    MaxPage = 3
    MaxVer = 1
    MaxCrashes = 0
    MaxFails = 0
    Kinds = {"asc", "desc", "first", "snapshot"}
    Ranges <- MCRanges
INVARIANT ScanExact
CHECK_DEADLOCK FALSE
