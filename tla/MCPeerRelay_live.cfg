SPECIFICATION FairSpec
CONSTANTS
    Conn = {c1, c2}
    Req = {q1}
    NoConn = noconn
    Capacity = 1
    Chunks = 2
    Restarts = 1
    DBFailures = 1
INVARIANT NothingLeftBehind
PROPERTY StreamsEnd
CHECK_DEADLOCK FALSE
