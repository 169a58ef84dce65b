----------------------------- MODULE PeerExchange -----------------------------
(***************************************************************************)
(* What a connection between two nodes promises about peer discovery, with *)
(* no frames, buffers or handshake: each end asks the other once for its   *)
(* peers, is answered at most once, and nobody answers before it has       *)
(* asked.  The answer is picked from what the answerer knows at that       *)
(* moment.  Requests and answers get lost only with the connection.        *)
(***************************************************************************)
EXTENDS Naturals, FiniteSets

CONSTANTS
    Address,      \* the address each end advertises
    Public,       \* the ends that advertise it
    Known,        \* the peers each end knows at the beginning
    Banned,       \* the peers nobody imports or passes on
    MAX_PEERS_PER_REPLY

VARIABLES
    open,     \* the ends that have not closed the connection
    known,    \* the peers each end knows
    phase,    \* where the request of each end is
    answer    \* the peers on their way to each end

Endpoint == {"Dialer", "Acceptor"}

Other(e) == IF e = "Dialer" THEN "Acceptor" ELSE "Dialer"

Phase == {"unsent", "asked", "answered", "over"}

Init ==
    /\ open = Endpoint
    /\ known = Known
    /\ phase = [e \in Endpoint |-> "unsent"]
    /\ answer = [e \in Endpoint |-> {}]

Ask(e) ==
    /\ e \in open
    /\ phase[e] = "unsent"
    /\ phase' = [phase EXCEPT ![e] = IF Other(e) \in open THEN "asked" ELSE "over"]
    /\ UNCHANGED <<open, known, answer>>

\* As many known peers as fit, and a public end adds itself.
Advertised(e) == {Address[x] : x \in Public \cap {e}}

Picks(e) ==
    LET candidates == known[e] \ Banned
    IN  {S \in SUBSET candidates : \/ S = candidates /\ Cardinality(S) <= MAX_PEERS_PER_REPLY
                                   \/ Cardinality(S) = MAX_PEERS_PER_REPLY}

\* The request of e is answered by the other end.
Answer(e) ==
    /\ phase[e] = "asked" /\ phase[Other(e)] # "unsent"
    /\ phase' = [phase EXCEPT ![e] = "answered"]
    /\ \E S \in Picks(Other(e)) :
          answer' = [answer EXCEPT ![e] = S \cup Advertised(Other(e))]
    /\ UNCHANGED <<open, known>>

\* The answer is imported: perhaps not all of it, but the address of the answerer.
Import(e) ==
    /\ phase[e] = "answered"
    /\ \E S \in SUBSET (answer[e] \ Banned) :
          /\ Advertised(Other(e)) \ Banned \subseteq S
          /\ known' = [known EXCEPT ![e] = @ \cup S]
    /\ phase' = [phase EXCEPT ![e] = "over"]
    /\ answer' = [answer EXCEPT ![e] = {}]
    /\ UNCHANGED open

\* An end leaves, and takes the request of the other along; an answer that is on
\* its way from it may still arrive.
Hangup(e) ==
    /\ e \in open
    /\ open' = open \ {e}
    /\ \E lost \in {{"asked"}, {"asked", "answered"}} :
          LET Gone(x) == x = e \/ phase[x] \in lost
          IN  /\ phase' = [x \in Endpoint |-> IF Gone(x) THEN "over" ELSE phase[x]]
              /\ answer' = [x \in Endpoint |-> IF Gone(x) THEN {} ELSE answer[x]]
    /\ UNCHANGED known

Next == \E e \in Endpoint : Ask(e) \/ Answer(e) \/ Import(e) \/ Hangup(e)

vars == <<open, known, phase, answer>>

Spec == Init /\ [][Next]_vars

-----------------------------------------------------------------------------
(* What follows from it *)

\* The peers that the two ends can tell each other.
Told == UNION {(Known[e] \ Banned) \cup Advertised(e) : e \in Endpoint}

\* A node learns nothing that is banned, and nothing that neither end knew at the
\* beginning or advertises; in particular not the address of an end that is not
\* public, unless it was known.
NothingInvented ==
    \A e \in Endpoint : known[e] \subseteq Known[e] \cup (Told \ Banned) /\ answer[e] \subseteq Told
=============================================================================
