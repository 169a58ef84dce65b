SPECIFICATION FairSpec
CONSTANTS
    Peer = {p1, p2}
    Task = {t1, t2, t3}
    NoTask = NoTask
    MaxOutbound = 1
PROPERTIES
    FreeSlotIsUsed
    FinishedIsPruned
