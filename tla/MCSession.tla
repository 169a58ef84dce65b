------------------------------ MODULE MCSession -------------------------------
(* Small instances of Session. *)
EXTENDS Session

CONSTANTS d, a, p, q, r

MCAddress == [e \in Endpoint |-> IF e = "Dialer" THEN d ELSE a]

\* Both know more peers than fit into a reply; the dialer dialled p, which is
\* not the address that the acceptor advertises; the acceptor has itself in its
\* map, and r, which is banned by now.
MCKnown == [e \in Endpoint |-> IF e = "Dialer" THEN {p, q} ELSE {a, q, r}]

\* One frame for every outcome of read_frame; an object message is
\* InvalidFormat, and a blank line looks like the end of the stream.  The two that
\* are too long leave a rest; in one the limit cuts a character in two.
MCStrayFrames ==
    {Sent(t) : t \in {"Hello", "GetPeers", "Error", "Unknown", "GotObject"}}
        \cup {SentPeers(<<q, r, p>>),
              [line |-> write_frame("Peers", RECV_BUFFER_LIMIT + 1), peers |-> <<r>>],
              [line |-> Eof, peers |-> <<>>],
              [line |-> [write_frame("Peers", RECV_BUFFER_LIMIT + 1) EXCEPT !.text = "notUtf8"], peers |-> <<>>]}
=============================================================================
