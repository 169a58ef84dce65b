SPECIFICATION FairSpec
CONSTANTS
    d = d
    a = a
    p = p
    q = q
    r = r
    Peer = {d, a, p, q, r}
    Address <- MCAddress
    Public = {"Dialer", "Acceptor"}
    Known <- MCKnown
    Banned = {r}
    MAX_PEERS_PER_REPLY = 1
    RECV_BUFFER_LIMIT = 3
    Cap = 2
    Strangers = {"nobody", "Dialer", "Acceptor"}
    StrayFrames <- MCStrayFrames
    MaxStray = 5
INVARIANTS
    ServesOnlyGreeted
    NextFrameIsExpected
    NoMutualWait
    SessionInv
PROPERTIES
    PeersExchanged
    CloseIsNoticed
    HandshakeSettles
    AnswersGetOut
    ImplementsExchange
\* Two nodes at rest wait for each other, and a stranger need not send anything.
CHECK_DEADLOCK FALSE
