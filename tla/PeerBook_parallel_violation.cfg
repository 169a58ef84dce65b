SPECIFICATION Spec
CONSTANTS
    p1 = p1
    p2 = p2
    p3 = p3
    padded = padded
    s1 = s1
    s2 = s2
    Peer = {p1, p2, p3}
    Bootstrap = p1
    Banned = {}
    Reread <- MCReread
    None = None
    Garbled = Garbled
    Session = {s1, s2}
    Main = Main
    Settings <- OnlyParallel
INVARIANT
    KnownIsDurable
