SPECIFICATION Spec
CONSTANTS
    Peer = {p1, p2, p3}
    Task = {t1, t2, t3, t4}
    NoTask = NoTask
    MaxOutbound = 2
SYMMETRY PoolSymmetry
INVARIANTS
    ConnectionsWithinLimit
    OneTaskPerPeer
    OpenIsTracked
    InsertFindsNoEntry
    PoolInv
PROPERTY
    ImplementsPool
