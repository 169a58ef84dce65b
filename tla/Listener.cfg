SPECIFICATION FairSpec
CONSTANTS
    Conn = {c1, c2, c3}
    NoConn = NoConn
    MaxSockets = 2
    MaxCount = 7
INVARIANT
    ListenerInv
PROPERTIES
    CounterDrains
    BacklogIsServed
\* After accept has failed and the tasks are gone the program has ended.
CHECK_DEADLOCK FALSE
