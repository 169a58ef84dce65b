---------------------------- MODULE ConnectionPool ----------------------------
(***************************************************************************)
(* What the outbound side promises, without tasks, handles or loops: a set *)
(* of peers the node is connected to, at most Limit of them, one           *)
(* connection opened or closed at a time.                                  *)
(***************************************************************************)
EXTENDS Naturals, FiniteSets

CONSTANTS
    Peer,    \* the peer addresses
    Limit    \* config.max_outbound_connection

VARIABLE open    \* peers with an outbound connection

Init == open = {}

\* A connection attempt starts, in a free slot, to a peer without one.
Dial(p) ==
    /\ p \notin open
    /\ Cardinality(open) < Limit
    /\ open' = open \cup {p}

\* The attempt fails or the connection is closed by either side.
Hangup(p) ==
    /\ p \in open
    /\ open' = open \ {p}

Next == \E p \in Peer : Dial(p) \/ Hangup(p)

Spec == Init /\ [][Next]_open
=============================================================================
