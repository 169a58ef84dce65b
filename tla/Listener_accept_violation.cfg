SPECIFICATION FairSpec
CONSTANTS
    Conn = {c1, c2}
    NoConn = NoConn
    MaxSockets = 2
    MaxCount = 7
PROPERTY
    AcceptsForever
CHECK_DEADLOCK FALSE
