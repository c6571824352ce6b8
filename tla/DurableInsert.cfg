SPECIFICATION Spec
CONSTANTS
    r1 = r1
    r2 = r2
    t1 = t1
    t2 = t2
    Recs = {r1, r2}
    Tables = {t1, t2}
    InitTables = {t1}
    LogFileSize = 6
    WriteBufferSize = 3
    MaxFiles = 3
    MaxCrashes = 1
    MaxIdleSyncs = 0
    MaxFails = 1
    Targets <- MCTargets
SYMMETRY RecSymmetry
INVARIANT TypeOK
INVARIANT SyncPointCovers
INVARIANT NoDurableLoss
CHECK_DEADLOCK FALSE
