SPECIFICATION FairSpec
CONSTANTS
    r1 = r1
    r2 = r2
    t1 = t1
    t2 = t2
    Recs = {r1, r2}
    Tables = {t1}
    InitTables = {t1}
    LogFileSize = 6
    WriteBufferSize = 3
    MaxFiles = 4
    MaxCrashes = 0
    MaxIdleSyncs = 0
    MaxFails = 0
    Targets <- MCOneTable
PROPERTY FlushedInTheEnd
PROPERTY ClosedLogDeleted
CHECK_DEADLOCK FALSE
