SPECIFICATION Spec
CONSTANTS
    Keys <- MCFewKeys
    PageCap = 2
    MovesLast = 1
    MovesMid = 1
    BatchSize = 1
    MaxPage = 3
    MaxVer = 2
    MaxCrashes = 0
    MaxFails = 0
INVARIANT KeyOnce
CHECK_DEADLOCK FALSE
