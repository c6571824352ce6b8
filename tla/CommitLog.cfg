SPECIFICATION LogSpec
CONSTANTS
    Recs = {r1}
    LogFileSize = 5
    WriteBufferSize = 2
    MaxFiles = 3
INVARIANT LogTypeOK
INVARIANT RedoExact
INVARIANT PointsCommitted
PROPERTY SyncPointMonotone
CHECK_DEADLOCK FALSE
