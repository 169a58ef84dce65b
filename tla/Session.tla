-------------------------------- MODULE Session -------------------------------
(***************************************************************************)
(* One TCP connection between a Dialer, which runs handshake::outbound,    *)
(* and an Acceptor, which runs handshake::inbound, each followed by        *)
(* dispatch::run_message_loop.  One of the two may be a stranger: a remote *)
(* program that sends any frames, reads when it likes and closes when it   *)
(* likes.                                                                  *)
(*                                                                         *)
(* A direction of the connection holds a bounded number of frames, and     *)
(* write_frame waits while it is full: writes have no timeout, and neither *)
(* has a read of the message loop.  An end that is closed with unread      *)
(* input resets the connection, which may destroy what it sent before.     *)
(***************************************************************************)
EXTENDS Framing, Sequences, FiniteSets, Functions

CONSTANTS
    Peer,         \* peer addresses
    Address,      \* the address each end advertises (config.my_host, config.port)
    Public,       \* the ends with config.public_node
    Known,        \* the peers_map of each end when the connection starts
    Banned,       \* config.banned_hosts
    MAX_PEERS_PER_REPLY,
    Cap,          \* frames that fit into one direction of the connection
    Strangers,    \* which end may be a stranger: a set of ends, or of "nobody"
    StrayFrames,  \* the frames a stranger sends
    MaxStray      \* how many of them; bounds the model only

Endpoint == {"Dialer", "Acceptor"}

\* A frame on its way: its line, and the peers a Peers message lists.
Packet == [line : Frame, peers : Seq(Peer)]

ASSUME SessionAssumption ==
    /\ Address \in [Endpoint -> Peer]
    /\ Public \subseteq Endpoint
    /\ Known \in [Endpoint -> SUBSET Peer] /\ \A e \in Endpoint : IsFiniteSet(Known[e])
    /\ Banned \in SUBSET Peer
    /\ MAX_PEERS_PER_REPLY \in Nat
    /\ Cap \in Nat \ {0}
    /\ RECV_BUFFER_LIMIT > 1    \* what a node sends is below the limit; see Sent
    /\ Strangers \subseteq Endpoint \cup {"nobody"}
    /\ StrayFrames \subseteq Packet
    /\ MaxStray \in Nat

VARIABLES
    stranger,  \* the end that is a stranger, if any; never changes
    pc,        \* where each end is
    chan,      \* chan[e]: frames on their way to e, oldest first
    result,    \* what the handshake or the message loop of e returns, or "none"
    greeted,   \* ends that have read a Hello in their handshake
    known,     \* the keys of peers_map of each end
    strays     \* frames the stranger has sent

vars == <<stranger, pc, chan, result, greeted, known, strays>>

Pc == {"sendHello", "readHello", "sendGetPeers", "loop", "reply", "refuse", "hangup",
       "closed", "stranger"}

Result == {"none", "Ok", "InvalidHandshake"} \cup ReadError

Other(e) == IF e = "Dialer" THEN "Acceptor" ELSE "Dialer"

Closed(e) == pc[e] = "closed"

\* The messages a node writes; their sizes are below the limit.
Sent(t) == [line |-> write_frame(t, 1), peers |-> <<>>]
SentPeers(s) == [line |-> write_frame("Peers", 1), peers |-> s]

Init ==
    /\ stranger \in Strangers
    /\ pc = [e \in Endpoint |-> IF e = stranger THEN "stranger"
                                ELSE IF e = "Dialer" THEN "sendHello" ELSE "readHello"]
    /\ chan = [e \in Endpoint |-> <<>>]
    /\ result = [e \in Endpoint |-> "none"]
    /\ greeted = {}
    /\ known = Known
    /\ strays = 0

-----------------------------------------------------------------------------
(* The connection *)

\* What read_frame leaves of the input of e: it takes a frame, but of a longer one only
\* the first RECV_BUFFER_LIMIT bytes.
Unread(e) ==
    IF chan[e] = <<>> THEN <<>>
    ELSE LET f == Head(chan[e])
         IN  IF f.line.bytes <= RECV_BUFFER_LIMIT THEN Tail(chan[e])
             ELSE <<[f EXCEPT !.line.bytes = @ - RECV_BUFFER_LIMIT]>> \o Tail(chan[e])

\* The socket of e is dropped; with input left unread this is a reset, unless e has
\* all of it in its BufReader.
CloseLeaving(e, res, unread) ==
    /\ pc' = [pc EXCEPT ![e] = "closed"]
    /\ result' = [result EXCEPT ![e] = res]
    /\ \E reset \in {FALSE, unread # <<>>} :
          chan' = [chan EXCEPT ![e] = <<>>,
                               ![Other(e)] = IF reset THEN <<>> ELSE @]
    /\ UNCHANGED <<stranger, greeted, known, strays>>

\* e closes where it stands, or because of what it has just read.
Close(e, res) == CloseLeaving(e, res, chan[e])
ReadAndClose(e, res) == CloseLeaving(e, res, Unread(e))

\* Mutant of Write: does not wait for room.
WriteAtOnce(e, f, next) ==
    /\ chan' = [chan EXCEPT ![Other(e)] = Append(@, f)]
    /\ pc' = [pc EXCEPT ![e] = next]
    /\ UNCHANGED <<stranger, result, greeted, known, strays>>

\* write_frame, and on to pc `next`.  Once the other end is closed the frame is
\* lost, whether or not the write notices.
Write(e, f, next) ==
    \/ /\ ~Closed(Other(e)) /\ Len(chan[Other(e)]) < Cap
       /\ chan' = [chan EXCEPT ![Other(e)] = Append(@, f)]
       /\ pc' = [pc EXCEPT ![e] = next]
       /\ UNCHANGED <<stranger, result, greeted, known, strays>>
    \/ /\ Closed(Other(e))
       /\ pc' = [pc EXCEPT ![e] = next]
       /\ UNCHANGED <<stranger, chan, result, greeted, known, strays>>
    \/ Closed(Other(e)) /\ Close(e, "Io")

\* read_frame has something to return: a frame, or the end of the stream.
Readable(e) == chan[e] # <<>> \/ Closed(Other(e))
Input(e) == read_frame(IF chan[e] # <<>> THEN Head(chan[e]).line ELSE Eof)
Consume(e) == chan' = [chan EXCEPT ![e] = Unread(e)]

\* e reads its next frame and goes on to pc `next`.
ReadOn(e, next) ==
    /\ Consume(e)
    /\ pc' = [pc EXCEPT ![e] = next]
    /\ UNCHANGED <<stranger, strays>>

-----------------------------------------------------------------------------
(* handshake::outbound and handshake::inbound *)

SendHello(e) ==
    /\ pc[e] = "sendHello"
    /\ Write(e, Sent("Hello"), IF e = "Dialer" THEN "readHello" ELSE "sendGetPeers")

\* Mutants: the acceptor does not answer with its own Hello; any message will do.
GoesOnSilently(e) == "sendGetPeers"
GreetsAnyhow(t) == t \notin ReadError

\* The acceptor sends its Hello now, the dialer has sent its own.
GoesOn(e) == IF e = "Dialer" THEN "sendGetPeers" ELSE "sendHello"
Greets(t) == t = "Hello"

HelloArrives(e) ==
    /\ pc[e] = "readHello"
    /\ Readable(e)
    /\ Greets(Input(e))
    /\ ReadOn(e, GoesOn(e))
    /\ greeted' = greeted \cup {x \in {e} : Input(e) = "Hello"}
    /\ UNCHANGED <<result, known>>

\* Another message: the acceptor answers with an Error, the dialer just leaves.
WrongGreeting(e) ==
    /\ pc[e] = "readHello"
    /\ Readable(e)
    /\ Input(e) \notin ReadError /\ ~Greets(Input(e))
    /\ \/ /\ e = "Acceptor"
          /\ ReadOn(e, "refuse")
          /\ result' = [result EXCEPT ![e] = "InvalidHandshake"]
          /\ UNCHANGED <<greeted, known>>
       \/ e = "Dialer" /\ ReadAndClose(e, "InvalidHandshake")

\* read_frame fails: both return its error without a word.
NoGreeting(e) ==
    /\ pc[e] = "readHello"
    /\ Readable(e)
    /\ Input(e) \in ReadError
    /\ ReadAndClose(e, Input(e))

\* Mutant of HelloTimeout: no timeout around read_frame.
HelloTimeoutMissing(e) == FALSE /\ UNCHANGED vars

\* The timeout around read_frame elapses, perhaps with a Hello on its way.
HelloTimeout(e) ==
    /\ pc[e] = "readHello"
    /\ Close(e, "InvalidHandshake")

\* Mutant of SendGetPeers: requests are sent over and over before any is read.
SendGetPeersRepeats(e) ==
    /\ pc[e] = "sendGetPeers"
    /\ \E next \in {"sendGetPeers", "loop"} : Write(e, Sent("GetPeers"), next)

SendGetPeers(e) ==
    /\ pc[e] = "sendGetPeers"
    /\ Write(e, Sent("GetPeers"), "loop")

Handshake(e) ==
    \/ SendHello(e)
    \/ HelloArrives(e)
    \/ WrongGreeting(e)
    \/ NoGreeting(e)
    \/ SendGetPeers(e)

-----------------------------------------------------------------------------
(* run_message_loop; read_frame never returns a message of ObjectType *)

\* The maps import_peers may leave behind: banned peers are filtered out and the
\* others appended in turn.  A peer is in the map before the file is opened, so
\* a failing file stops the import just after a new peer.
import_peers(e, s) ==
    LET After(n) == known[e] \cup ({s[i] : i \in 1..n} \ Banned)
    IN  {After(n) : n \in {Len(s)} \cup {i \in 1..Len(s) : s[i] \notin Banned \cup After(i - 1)}}

\* shuffle and truncate: as many of the known peers as fit.
Picks(e) ==
    LET candidates == known[e] \ Banned
    IN  {S \in SUBSET candidates :
            Cardinality(S) = IF Cardinality(candidates) < MAX_PEERS_PER_REPLY
                             THEN Cardinality(candidates) ELSE MAX_PEERS_PER_REPLY}

Orders(S) == {r \in [1..Cardinality(S) -> S] : IsInjective(r)}

\* Mutant of pick_and_build_peers: the node adds itself at the end of its list.
pick_me_last(e) ==
    IF e \in Public
    THEN {Append(r, Address[e]) : r \in UNION {Orders(S \ {Address[e]}) : S \in Picks(e)}}
    ELSE UNION {Orders(S) : S \in Picks(e)}

\* The possible answers of e: a public node puts itself in front.
pick_and_build_peers(e) ==
    IF e \in Public
    THEN {<<Address[e]>> \o r : r \in UNION {Orders(S \ {Address[e]}) : S \in Picks(e)}}
    ELSE UNION {Orders(S) : S \in Picks(e)}

\* Peers are imported, GetPeers is answered, other messages are ignored.
MessageArrives(e) ==
    /\ pc[e] = "loop"
    /\ Readable(e)
    /\ Input(e) \notin ReadError
    /\ ReadOn(e, IF Input(e) = "GetPeers" THEN "reply" ELSE "loop")
    /\ \E K \in IF Input(e) = "Peers" THEN import_peers(e, Head(chan[e]).peers)
                                      ELSE {known[e]} :
          known' = [known EXCEPT ![e] = K]
    /\ UNCHANGED <<result, greeted>>

Reply(e) ==
    /\ pc[e] = "reply"
    /\ \E s \in pick_and_build_peers(e) : Write(e, SentPeers(s), "loop")

\* A frame that cannot be read is answered with an Error.
BadFrameArrives(e) ==
    /\ pc[e] = "loop"
    /\ Readable(e)
    /\ Input(e) \in {"InvalidFormat", "OversizedFrame"}
    /\ ReadOn(e, "refuse")
    /\ result' = [result EXCEPT ![e] = "Ok"]
    /\ UNCHANGED <<greeted, known>>

\* Mutant of StreamEnds: the end of the stream is read again.
StreamEndsIgnored(e) ==
    /\ pc[e] = "loop"
    /\ Readable(e)
    /\ Input(e) \in {"ConnectionClosed", "Io"}
    /\ ReadOn(e, "loop")
    /\ UNCHANGED <<result, greeted, known>>

\* The stream has ended, or the line was blank or no UTF-8.
StreamEnds(e) ==
    /\ pc[e] = "loop"
    /\ Readable(e)
    /\ Input(e) \in {"ConnectionClosed", "Io"}
    /\ ReadAndClose(e, Input(e))

\* impl From<ProtocolError> for Message, and the handshake's own Error: names and
\* texts are left out.
ErrorMessage == Sent("Error")

\* Mutant of SendError: hangs up without a word.
SendNothing(e) ==
    /\ pc[e] = "refuse"
    /\ pc' = [pc EXCEPT ![e] = "hangup"]
    /\ UNCHANGED <<stranger, chan, result, greeted, known, strays>>

SendError(e) ==
    /\ pc[e] = "refuse"
    /\ Write(e, ErrorMessage, "hangup")

Hangup(e) ==
    /\ pc[e] = "hangup"
    /\ Close(e, result[e])

MessageLoop(e) ==
    \/ MessageArrives(e)
    \/ Reply(e)
    \/ BadFrameArrives(e)
    \/ StreamEnds(e)
    \/ SendError(e)
    \/ Hangup(e)

-----------------------------------------------------------------------------
(* The stranger *)

StrangerSends(e, f) ==
    /\ pc[e] = "stranger"
    /\ strays < MaxStray
    /\ ~Closed(Other(e)) /\ Len(chan[Other(e)]) < Cap
    /\ chan' = [chan EXCEPT ![Other(e)] = Append(@, f)]
    /\ strays' = strays + 1
    /\ UNCHANGED <<stranger, pc, result, greeted, known>>

StrangerReads(e) ==
    /\ pc[e] = "stranger"
    /\ chan[e] # <<>>
    /\ Consume(e)
    /\ UNCHANGED <<stranger, pc, result, greeted, known, strays>>

StrangerCloses(e) ==
    /\ pc[e] = "stranger"
    /\ Close(e, "none")

-----------------------------------------------------------------------------
Node(e) == Handshake(e) \/ HelloTimeout(e) \/ MessageLoop(e)

\* The connection breaks: a pending read or write of e fails.
Breaks(e) ==
    /\ pc[e] \notin {"closed", "hangup", "stranger"}
    /\ Close(e, "Io")

Next ==
    \E e \in Endpoint :
        \/ Node(e)
        \/ Breaks(e)
        \/ \E f \in StrayFrames : StrangerSends(e, f)
        \/ StrangerReads(e)
        \/ StrangerCloses(e)

\* A node keeps running while it can; nothing is asked of a stranger.
Spec == Init /\ [][Next]_vars

FairSpec == Spec /\ \A e \in Endpoint : WF_vars(Node(e))

-----------------------------------------------------------------------------
(* Properties *)

\* Type correctness; a direction never holds more than Cap frames.
TypeOK ==
    /\ stranger \in Strangers
    /\ pc \in [Endpoint -> Pc]
    /\ chan \in [Endpoint -> Seq(Packet)]
    /\ \A e \in Endpoint : Len(chan[e]) <= Cap
    /\ result \in [Endpoint -> Result]
    /\ greeted \subseteq Endpoint
    /\ known \in [Endpoint -> SUBSET Peer]
    /\ strays \in 0..MaxStray

\* Both ends run this program.
TwoNodes == stranger = "nobody"

\* Two nodes never refuse each other's frames: an end that waits for a Hello
\* finds nothing else, and an end in its message loop only finds requests and
\* answers, although both send before they have read and either may time out.
NextFrameIsExpected ==
    \A e \in Endpoint : TwoNodes /\ chan[e] # <<>> =>
        /\ pc[e] = "readHello" => read_frame(Head(chan[e]).line) = "Hello"
        /\ pc[e] = "loop" => read_frame(Head(chan[e]).line) \in {"GetPeers", "Peers"}

\* An end that waits for the other to read.
Waiting(e) ==
    /\ pc[e] \in {"sendHello", "sendGetPeers", "reply", "refuse"}
    /\ Len(chan[Other(e)]) = Cap

\* Two nodes never wait for each other to read: neither reads while it writes
\* (dispatch.rs:49), and a connection buffers little.
NoMutualWait == TwoNodes => ~(\A e \in Endpoint : Waiting(e))

\* Of two nodes that stay connected each learns the address that a public other
\* advertises, from the one GetPeers it sends (handshake.rs:54, 94), even when
\* MAX_PEERS_PER_REPLY leaves out most of what the other knows (dispatch.rs:130)
\* and when peers.csv cannot be written (dispatch.rs:149).
PeersExchanged ==
    TwoNodes /\ [](\A e \in Endpoint : ~Closed(e)) =>
        \A e \in Public : Address[e] \notin Banned => <>[](Address[e] \in known[Other(e)])

\* The types of the messages on their way to e.
Kinds(e) == {chan[e][i].line.type : i \in DOMAIN chan[e]}

\* The one request of a node is never lost while both ends stay: until the node
\* knows the address that a public other advertises, its GetPeers, the handling of
\* it or the answer is under way, and an answer that peers.csv cuts short
\* (dispatch.rs:149) still brings the address, which stands in front.
RequestUnderWay ==
    \A e \in Endpoint :
        LET o == Other(e)
        IN  TwoNodes /\ pc[e] \in {"loop", "reply"} /\ ~Closed(o)
                /\ o \in Public /\ Address[o] \notin Banned =>
                \/ "GetPeers" \in Kinds(o) \/ pc[o] = "reply" \/ "Peers" \in Kinds(e)
                \/ Address[o] \in known[e]

\* When one end is gone the other returns too, wherever it waits.
CloseIsNoticed ==
    \A e \in Endpoint : Closed(e) ~> Closed(Other(e)) \/ stranger = Other(e)

\* A write has no timeout (framing.rs:49), so what gets out depends on the remote:
\* while it reads now and then, a request is answered, and a bad frame gets its
\* Error on the way before the connection is closed (dispatch.rs:37), whatever else
\* the remote sends meanwhile.
AnswersGetOut ==
    \A e \in Endpoint : []<>(Len(chan[Other(e)]) < Cap) =>
        /\ pc[e] = "reply" ~> pc[e] \in {"loop", "closed"}
        /\ pc[e] = "refuse" ~> \/ ErrorMessage \in Range(chan[Other(e)])
                               \/ Closed(Other(e)) \/ result[e] = "Io"

\* A node serves only a remote that has greeted it: no peer is imported, and no
\* request answered, on a connection without a Hello.
ServesOnlyGreeted ==
    \A e \in Endpoint : pc[e] \in {"loop", "reply"} \/ known[e] # Known[e] => e \in greeted

\* The handshake ends, one way or the other, even with a silent remote.
HandshakeSettles ==
    \A e \in Endpoint :
        pc[e] \in {"sendHello", "readHello", "sendGetPeers"} ~> pc[e] \in {"loop", "closed"}

-----------------------------------------------------------------------------
(***************************************************************************)
(* The inductive invariant behind the safety properties.  Between two      *)
(* nodes every message is sent at most once, so that a direction is known  *)
(* by the types of the messages in it.                                     *)
(***************************************************************************)

\* e has not sent its Hello; has not read one; has not sent its GetPeers.
BeforeHello(e) == pc[e] = "sendHello" \/ (e = "Acceptor" /\ pc[e] = "readHello")
Ungreeted(e) == pc[e] = "readHello" \/ (e = "Dialer" /\ pc[e] = "sendHello")
BeforeRequest(e) == pc[e] \in {"sendHello", "readHello", "sendGetPeers"}

\* Whatever the other end is.
EndInv(e) ==
    /\ pc[e] = "stranger" => e = stranger
    /\ e = stranger => pc[e] \in {"stranger", "closed"}
    /\ Closed(e) => chan[e] = <<>>
    /\ IsFiniteSet(known[e])
    /\ ~(Closed(e) \/ Ungreeted(e) \/ pc[e] \in {"stranger", "refuse", "hangup"})
           \/ known[e] # Known[e] => e \in greeted

\* What two nodes have on their way: one Hello, in front, one request and one
\* answer, which a public node starts with its own address.
FramesInv(e) ==
    \A i \in DOMAIN chan[e] :
        LET t == chan[e][i].line.type
        IN  /\ t \in {"Hello", "GetPeers", "Peers"} /\ chan[e][i].line = write_frame(t, 1)
            /\ t = "Hello" => i = 1
            /\ \A j \in DOMAIN chan[e] : chan[e][j].line.type = t => i = j
            /\ t = "Peers" /\ Other(e) \in Public =>
                  chan[e][i].peers # <<>> /\ chan[e][i].peers[1] = Address[Other(e)]

\* Where the Hello, the request and the answer of two nodes are.
FlowInv(e) ==
    LET o == Other(e)
    IN  /\ pc[e] \notin {"refuse", "hangup"}
        /\ BeforeHello(o) => Kinds(e) = {} /\ (Ungreeted(e) \/ Closed(e))
        /\ Ungreeted(e) /\ ~BeforeHello(o) => "Hello" \in Kinds(e) \/ (Closed(o) /\ Kinds(e) = {})
        /\ "Hello" \in Kinds(e) => Ungreeted(e)
        /\ BeforeRequest(o) => "GetPeers" \notin Kinds(e) /\ pc[e] # "reply" /\ "Peers" \notin Kinds(o)
        /\ pc[e] = "reply" => "GetPeers" \notin Kinds(e)
        /\ "Peers" \in Kinds(e) => "GetPeers" \notin Kinds(o) /\ pc[o] # "reply"

SessionInv ==
    /\ TypeOK
    /\ \A e \in Endpoint : EndInv(e)
    /\ TwoNodes => \A e \in Endpoint : FramesInv(e) /\ FlowInv(e)
    /\ RequestUnderWay

-----------------------------------------------------------------------------
(* The exchange of peers that a connection implements *)

\* Where the request of e is, and the peers on their way to e.
Phase(e) ==
    IF "Peers" \in Kinds(e) THEN "answered"
    ELSE IF BeforeRequest(e) THEN "unsent"
    ELSE IF ~Closed(e) /\ ("GetPeers" \in Kinds(Other(e)) \/ pc[Other(e)] = "reply") THEN "asked"
    ELSE "over"

Listed(f) == {f.peers[k] : k \in DOMAIN f.peers}

Answers(e) ==
    UNION {Listed(chan[e][i]) : i \in {j \in DOMAIN chan[e] : chan[e][j].line.type = "Peers"}}

Open == {e \in Endpoint : ~Closed(e)}
Phases == [e \in Endpoint |-> Phase(e)]
Mail == [e \in Endpoint |-> Answers(e)]

Exchange == INSTANCE PeerExchange WITH open <- Open, phase <- Phases, answer <- Mail

\* Two nodes implement the exchange of PeerExchange, although both ends ask and
\* answer at once over bounded buffers and either may time out or break: on a
\* connection a request is made once, answered once, imported once, and lost only
\* when an end leaves (handshake.rs:54, 94; dispatch.rs:44-55).
ImplementsExchange ==
    /\ TwoNodes => Exchange!Init
    /\ [][TwoNodes => [Exchange!Next]_Exchange!vars]_vars

\* So what two nodes learn is what one of them knew or advertises.
LearnsOnlyTold == TwoNodes => Exchange!NothingInvented
=============================================================================
