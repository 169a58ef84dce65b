SPECIFICATION FairSpec
CONSTANTS
    A = A
    B = B
    C = C
    Node = {A, B, C}
    Networks <- MCNetworks
    MaxOutbound = 3
INVARIANTS
    TypeOK
    ExchangeInforms
    PrivateStaysUnknown
PROPERTY
    DiscoveryCompletes
\* Once everybody knows everybody nothing is left to do.
CHECK_DEADLOCK FALSE
