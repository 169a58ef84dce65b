------------------------------ MODULE MCPeerBook ------------------------------
(* Small instances of PeerBook. *)
EXTENDS PeerBook

CONSTANTS p1, p2, p3, padded, s1, s2

\* padded is p1 with a blank around its host: its line is read back as p1.
MCReread == [p \in Peer |-> IF p = padded THEN p1 ELSE p]

Calmly == [sessions |-> {s1}, IoErrors |-> FALSE, TornWrites |-> FALSE]
InParallel == [sessions |-> {s1, s2}, IoErrors |-> FALSE, TornWrites |-> FALSE]
WithFailures == [sessions |-> {s1, s2}, IoErrors |-> TRUE, TornWrites |-> TRUE]

EverySetting == {Calmly, InParallel, WithFailures}
OnlyParallel == {InParallel}
=============================================================================
