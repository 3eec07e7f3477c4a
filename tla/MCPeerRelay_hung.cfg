SPECIFICATION FairSpec
CONSTANTS
    Conn = {c1}
    Req = {q1}
    NoConn = noconn
    Capacity = 1
    Chunks = 2
    Restarts = 0
    DBFailures = 0
PROPERTY NoHungRequests
CHECK_DEADLOCK FALSE
