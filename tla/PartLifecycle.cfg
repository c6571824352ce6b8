SPECIFICATION Spec
CONSTANTS
    Days = {1}
    ValidDays = 1
    NoFile = NoFile
    Kinds = {"normal", "comp"}
    FirstNow = 2
    MaxNow = 3
    Recs <- MCRecs
    MaxParts = 3
    MaxEvents = 2
INVARIANT TypeOK
INVARIANT NoUseAfterFree
INVARIANT StaysGone
INVARIANT Startable
INVARIANT RecordsStay
CHECK_DEADLOCK FALSE
