SPECIFICATION Spec
CONSTANTS
    p1 = p1
    p2 = p2
    p3 = p3
    padded = padded
    s1 = s1
    s2 = s2
    Peer = {p1, p2, p3, padded}
    Bootstrap = p2
    Banned = {p3}
    Reread <- MCReread
    None = None
    Garbled = Garbled
    Session = {s1, s2}
    Main = Main
    Settings <- EverySetting
INVARIANTS
    BookInv
    LossHasCause
PROPERTIES
    OnlyOpenLineLost
    KnownForever
