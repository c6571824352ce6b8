SPECIFICATION FairSpec
CONSTANTS
    Pages <- MCPages
    Inserters = {u1}
    Readers = {u2}
    FrameCnt = 2
    AllocCnt = 1
    NoPage = NoPage
    OldParts = {2}
    MaxVer = 2
    MaxAdmin = 1
    MaxFails = 1
    NewPages <- MCNewPages
INVARIANT TypeOK
INVARIANT NewestCopy
 
CHECK_DEADLOCK FALSE
