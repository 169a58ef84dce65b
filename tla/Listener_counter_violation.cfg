SPECIFICATION Spec
CONSTANTS
    Conn = {c1, c2}
    NoConn = NoConn
    MaxSockets = 2
    MaxCount = 7
INVARIANT
    CounterCountsActive
CHECK_DEADLOCK FALSE
