SPECIFICATION Spec
CONSTANTS
    Keys <- MCKeys
    PageCap = 2
    MovesLast = 1
    MovesMid = 1
    BatchSize = 2
    MaxPage = 3
    MaxVer = 1
    MaxCrashes = 1
    MaxFails = 1
INVARIANT TypeOK
INVARIANT LookupLatest
INVARIANT CleanIsOnDisk
INVARIANT DirtyIsListed
INVARIANT FlushedStays
CHECK_DEADLOCK FALSE
