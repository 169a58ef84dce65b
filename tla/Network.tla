------------------------------- MODULE Network --------------------------------
(***************************************************************************)
(* Several nodes that discover each other: the composition of the outbound *)
(* side, the sessions and the peer book of every node, each reduced to     *)
(* what its own module shows of it.                                        *)
(*                                                                         *)
(* - A free slot of the outbound side is filled with a known peer that has *)
(*   no entry (OutboundPool: ConnectionsWithinLimit, FreeSlotIsUsed).      *)
(* - On a connection each end asks once, with the GetPeers of its          *)
(*   handshake, and is answered while both ends run (Session:              *)
(*   NextFrameIsExpected, AnswersGetOut).                                  *)
(* - The two ends leave a connection one after the other.  The end that is *)
(*   left still imports an answer it had been sent, unless a reset has     *)
(*   destroyed it, before it notices (Session: CloseLeaving,               *)
(*   CloseIsNoticed).                                                      *)
(* - After a restart a node knows what its file still holds; the complete  *)
(*   lines of the past are safe (PeerBook: OnlyOpenLineLost).              *)
(*                                                                         *)
(* A node stands for the address it advertises: everyone reaches it there. *)
(* Connections are named by their two ends.  Inbound connections are not   *)
(* looked up anywhere, so two nodes may be connected twice, once in each   *)
(* direction, and a node may be connected to itself.  A peer may be dialed *)
(* again before it has noticed the end of the last connection: answers     *)
(* that reach it on both are taken together.  Addresses where nobody       *)
(* listens are left out: dialing one holds a slot until it fails.          *)
(***************************************************************************)
EXTENDS Naturals, FiniteSets

CONSTANTS
    Node,         \* the nodes, and their addresses
    Networks,     \* the networks to look at: how the nodes are configured, and
                  \* how often connections break or nodes restart
    MaxOutbound   \* config.max_outbound_connection

\* public: the nodes with config.public_node; seed: the peers file of each node at
\* the beginning; banned: config.banned_hosts of each node; MAX_PEERS_PER_REPLY is
\* the same for all nodes of a network.
Setup == [public : SUBSET Node, seed : [Node -> SUBSET Node], banned : [Node -> SUBSET Node],
          MAX_PEERS_PER_REPLY : Nat, faults : Nat]

ASSUME NetworkAssumption ==
    /\ IsFiniteSet(Node)
    /\ Networks \subseteq Setup
    /\ MaxOutbound \in Nat

VARIABLES
    net,      \* the network; never changes
    known,    \* the keys of peers_map of each node
    out,      \* the keys of outbound_connections of each node
    open,     \* the connections, <<dialer, acceptor>>, of which both ends run
    asking,   \* requests that have no answer yet
    reply,    \* for every request: the peers of an answer that is on its way
    faults    \* faults that may still happen

vars == <<net, known, out, open, asking, reply, faults>>

\* A request is the GetPeers that one end of a connection sends: the dialer, the
\* acceptor, and the end that asks.  The triple names that end, too.
Request == Node \X Node \X {"dialer", "acceptor"}

Conn(q) == <<q[1], q[2]>>
Asker(q) == IF q[3] = "dialer" THEN q[1] ELSE q[2]
Answerer(q) == IF q[3] = "dialer" THEN q[2] ELSE q[1]

\* The requests of a connection.  A node connected to itself can tell itself
\* nothing new, so its requests are left out.
Requests(n, m) == IF n = m THEN {} ELSE {<<n, m, "dialer">>, <<n, m, "acceptor">>}

Init ==
    /\ net \in Networks
    /\ known = net.seed
    /\ out = [n \in Node |-> {}]
    /\ open = {}
    /\ asking = {}
    /\ reply = [q \in Request |-> {}]
    /\ faults = net.faults

-----------------------------------------------------------------------------
(* The nodes *)

\* Mutant of Candidates: peers that are connected to this node are left out.
CandidatesNotInbound(n) == {m \in known[n] \ out[n] : n \notin out[m]}

\* What outbound_loop may dial: a known peer without an entry in its map.
Candidates(n) == known[n] \ out[n]

\* A task for a candidate is spawned and its handshake succeeds: both ends have
\* sent GetPeers.
Dial(n, m) ==
    /\ m \in Candidates(n)
    /\ Cardinality(out[n]) < MaxOutbound
    /\ out' = [out EXCEPT ![n] = @ \cup {m}]
    /\ open' = open \cup {<<n, m>>}
    /\ asking' = asking \cup Requests(n, m)
    /\ UNCHANGED <<net, known, reply, faults>>

\* As many known peers as fit into a reply.
Picks(m) ==
    LET candidates == known[m] \ net.banned[m]
    IN  {S \in SUBSET candidates : \/ S = candidates /\ Cardinality(S) <= net.MAX_PEERS_PER_REPLY
                                   \/ Cardinality(S) = net.MAX_PEERS_PER_REPLY}

\* Mutants of pick_and_build_peers: a public node does not add itself, a node that
\* is not public does.
pick_without_me(m) == Picks(m)
pick_with_me(m) == {S \cup {m} : S \in Picks(m)}

\* The possible answers of a node: a public node adds itself.
pick_and_build_peers(m) == {S \cup ({m} \cap net.public) : S \in Picks(m)}

\* GetPeers is answered.  What the asker is going to drop, because it knows the
\* peer already or has banned it, is left out of the answer here.
Answer(q) ==
    /\ q \in asking
    /\ asking' = asking \ {q}
    /\ \E S \in pick_and_build_peers(Answerer(q)) :
          reply' = [reply EXCEPT ![q] = @ \cup (S \ (known[Asker(q)] \cup net.banned[Asker(q)]))]
    /\ UNCHANGED <<net, known, out, open, faults>>

\* The peers of an answer join peers_map (the file is taken to be writable), also
\* when the end that sent them is gone.
Import(q) ==
    /\ reply[q] # {}
    /\ known' = [known EXCEPT ![Asker(q)] = @ \cup reply[q]]
    /\ reply' = [reply EXCEPT ![q] = {}]
    /\ UNCHANGED <<net, out, open, asking, faults>>

\* A dialer that has read all there is sees that the acceptor is gone; its task
\* removes the entry.
Notice(n, m) ==
    /\ m \in out[n] /\ <<n, m>> \notin open
    /\ reply[<<n, m, "dialer">>] = {}
    /\ out' = [out EXCEPT ![n] = @ \ {m}]
    /\ UNCHANGED <<net, known, open, asking, reply, faults>>

-----------------------------------------------------------------------------
(* Faults *)

\* Mutant of StillAsked: a request is dropped only with the end that sent it.
StillAskedElsewhere(E) == asking \ E

\* A request is not answered any more once either end of its connection is gone.
StillAsked(E) == {q \in asking : \A e \in E : Conn(e) # Conn(q)}

\* Ends that lose their other end while an answer is on its way to them.
Left(E) == {q \in Request \ E : reply[q] # {} /\ Conn(q) \in open /\ \E e \in E : Conn(e) = Conn(q)}

\* The ends E are gone and read nothing any more.  To those that are left an answer
\* may still arrive, or be destroyed by a reset.
Gone(E) ==
    /\ open' = open \ {Conn(e) : e \in E}
    /\ asking' = StillAsked(E)
    /\ \E lost \in SUBSET Left(E) :
          reply' = [q \in Request |-> IF q \in E \cup lost THEN {} ELSE reply[q]]

\* An end of a connection fails: a dialer's task removes its entry, an acceptor's
\* leaves that to the dialer.
Break(e) ==
    /\ faults > 0
    /\ faults' = faults - 1
    /\ Conn(e) \in open
    /\ out' = IF e[3] = "dialer" THEN [out EXCEPT ![e[1]] = @ \ {e[2]}] ELSE out
    /\ Gone({e})
    /\ UNCHANGED <<net, known>>

\* A node restarts: its ends of connections are gone, and it knows what can be read
\* back from its file.
Restart(n) ==
    /\ faults > 0
    /\ faults' = faults - 1
    /\ \E S \in SUBSET known[n] : known' = [known EXCEPT ![n] = net.seed[n] \cup S]
    /\ out' = [out EXCEPT ![n] = {}]
    /\ Gone({e \in Request : Asker(e) = n})
    /\ UNCHANGED net

-----------------------------------------------------------------------------
Discover ==
    \/ \E n, m \in Node : Dial(n, m) \/ Notice(n, m)
    \/ \E q \in Request : Answer(q) \/ Import(q)

Next ==
    \/ Discover
    \/ \E e \in Request : Break(e)
    \/ \E n \in Node : Restart(n)

Spec == Init /\ [][Next]_vars

\* Every node keeps running: while there is somebody to dial, a request to answer,
\* an answer to import or an end to notice, one of these happens.
FairSpec == Spec /\ WF_vars(Discover)

-----------------------------------------------------------------------------
(* Properties *)

\* Type correctness: a connection with both ends has an entry at its dialer, and only
\* on such a connection is a request still to be answered.
TypeOK ==
    /\ net \in Networks
    /\ known \in [Node -> SUBSET Node]
    /\ out \in [Node -> SUBSET Node]
    /\ open \subseteq Node \X Node
    /\ \A n, m \in Node : <<n, m>> \in open => m \in out[n]
    /\ asking \subseteq {q \in Request : Conn(q) \in open}
    /\ reply \in [Request -> SUBSET Node]
    /\ faults \in Nat

\* Whom a node has banned it need not know.
Knows(n, m) == m \in known[n] \cup net.banned[n]

\* The one GetPeers of each end is enough: while both ends run, one that has been
\* answered by a public node knows it, or is about to, although answers are cut to
\* MAX_PEERS_PER_REPLY (dispatch.rs:130) and a node that restarts may have
\* forgotten what earlier connections taught it.
ExchangeInforms ==
    \A n, m \in Node : <<n, m>> \in open =>
        \A q \in Requests(n, m) : Answerer(q) \in net.public /\ q \notin asking =>
            Knows(Asker(q), Answerer(q)) \/ Answerer(q) \in reply[q]

Findable(m) == m \in net.public \/ \E k \in Node : m \in net.seed[k]

\* config.public_node: a node that is not public, and in nobody's peers file, is
\* not known to anybody, whomever it dials and whatever is passed on.
PrivateStaysUnknown ==
    /\ \A n \in Node : \A m \in known[n] : Findable(m)
    /\ \A q \in Request : \A m \in reply[q] : Findable(m)

\* net/tests.rs:494, "Node3 did not discover Node1 via Node2": in a network that
\* the peers files connect, with enough outbound slots and answers that hold every
\* address, the public nodes end up knowing each other, whatever connection is made
\* and answered first, whichever end of a connection fails first and what arrives
\* at the other, and when a node restarts and has lost what it had learnt.  No node asks twice on a connection (handshake.rs:54,
\* 94); what helps is that nodes that are connected already dial each other once
\* more (client.rs:30).
DiscoveryCompletes ==
    <>[](Cardinality(Node) <= net.MAX_PEERS_PER_REPLY =>
            \A n, m \in net.public : n # m => Knows(n, m))
=============================================================================
