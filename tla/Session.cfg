SPECIFICATION FairSpec
CONSTANTS
    c1 = c1
    c2 = c2
    Conns <- MCConns
    Workers = {w1}
    MaxConn = 1
    MaxReq <- MCMaxReq
    None = None
INVARIANT TypeOK
INVARIANT NoUseAfterFree
INVARIANT OwnAnswer
PROPERTY Answered
PROPERTY Stops
CHECK_DEADLOCK FALSE
