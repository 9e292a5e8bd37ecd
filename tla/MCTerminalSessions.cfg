SPECIFICATION Spec
CONSTANTS
    Windows = {w1, w2}
    Ids = {i1}
    Conns = {c1, c2}
    Threads = {t1, t2}
    NoConn = NoConn
    NoWindow = NoWindow
    NoId = NoId
    MaxPending = 1
    MaxChunks = 0
INVARIANTS
    TypeOK
    SessionBelongsToItsKey
    ForgottenStaysForgotten
    NoticeFollowsSession
SYMMETRY Symmetry
CHECK_DEADLOCK FALSE
