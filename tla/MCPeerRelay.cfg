SPECIFICATION Spec
CONSTANTS
    Conn = {c1, c2}
    Req = {q1, q2}
    NoConn = noconn
    Capacity = 1
    Chunks = 2
    Restarts = 1
    DBFailures = 0
SYMMETRY Symmetry
INVARIANT TypeOK
INVARIANT NoLeakedRequest
INVARIANT OwnFramesInOrder
PROPERTY ImplementsAnswers
CHECK_DEADLOCK FALSE
