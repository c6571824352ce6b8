SPECIFICATION Spec
CONSTANTS
    t1 = t1
    t2 = t2
    d1 = d1
    Tables = {t1, t2}
    Devs = {d1}
    NoFile = NoFile
    MaxDev = 1
    Codes = 2
    MaxStmts = 4
    Inits <- MCInits
INVARIANT TypeOK
INVARIANT Startable
INVARIANT RowsStay
INVARIANT DevicesStay
INVARIANT NothingReturns
CHECK_DEADLOCK FALSE
