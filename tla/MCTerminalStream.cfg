SPECIFICATION FairSpec
CONSTANTS
    Windows = {w1, w2}
    Ids = {i1}
    Conns = {c1}
    Threads = {t1, t2}
    NoConn = NoConn
    NoWindow = NoWindow
    NoId = NoId
    MaxPending = 2
    MaxChunks = 3
INVARIANT GapsOnlyFromOverflow
PROPERTY MovesKeepTerminals ClosedSessionLeaves
CHECK_DEADLOCK FALSE
