------------------------------- MODULE PeerBook -------------------------------
(***************************************************************************)
(* The peers a node knows: peers_map in memory and peers.csv on disk.      *)
(* main loads the file and appends a first peer; afterwards every session  *)
(* imports the peers of the Peers messages it receives through             *)
(* append_peer.  Sessions run in parallel and nothing locks the file.      *)
(*                                                                         *)
(* append_peer's writeln! is two write calls on a file opened for append,  *)
(* one for the key and one for the newline, so keys of two writers can end *)
(* up in one line, and a crash can leave a line open.  A line with two     *)
(* keys, "a,1b,2", yields no peer when it is read back: its second field   *)
(* "1b" is not a port number (hosts are neither empty nor numeric).        *)
(*                                                                         *)
(* The file is abstracted to the keys that have a line of their own and to *)
(* the open line at its end.  A write call appends all of its bytes or     *)
(* fails; what a crashed operating system may lose is left out.            *)
(***************************************************************************)

CONSTANTS
    Peer,         \* peer addresses
    Bootstrap,    \* the peer main appends
    Banned,       \* config.banned_hosts
    Reread,       \* what load_from_disk makes of a line that holds one key, or None
    None,         \* no peer; as the open line: nothing written since the last newline
    Garbled,      \* an open line with more than one key
    Session,      \* connections, each running run_message_loop
    Main,         \* the main function
    Settings      \* the circumstances to look at

\* sessions: the connections there are; IoErrors: opening, reading or writing the file
\* may fail; TornWrites: a failure or a crash may fall between a key and its newline.
Setting == [sessions : SUBSET Session, IoErrors : BOOLEAN, TornWrites : BOOLEAN]

\* Reread models the trimming and splitting of a line: it is the identity on
\* hosts without surrounding blanks and without commas.
ASSUME BookAssumption ==
    /\ Bootstrap \in Peer
    /\ Banned \in SUBSET Peer
    /\ None \notin Peer /\ Garbled \notin Peer /\ None # Garbled
    /\ Reread \in [Peer -> Peer \cup {None}]
    /\ Main \notin Session
    /\ Settings \subseteq Setting

Writer == Session \cup {Main}

VARIABLES
    setting,  \* the circumstances; never change
    node,     \* "down", "boot" while main loads and appends, then "up"; or "loading"
              \* without end
    map,      \* the keys of peers_map
    lines,    \* peers.csv: keys that fill a line of their own
    tail,     \* peers.csv: the open last line
    pc,       \* where each writer is in append_peer
    item,     \* the argument `peer` of each writer's append_peer
    todo,     \* candidates each writer has still to append
    spoilt    \* history: peers whose line was garbled or not written since the start

file == <<lines, tail, spoilt>>
vars == <<setting, node, map, lines, tail, pc, item, todo, spoilt>>

Pc == {"idle", "check", "insert", "key", "newline"}

\* What load_from_disk would return: an open line counts too.
Loaded ==
    {Reread[p] : p \in lines \cup (IF tail \in Peer THEN {tail} ELSE {})} \ {None}

Init ==
    /\ setting \in Settings
    /\ node = "down"
    /\ map = {}
    /\ lines \in SUBSET Peer
    /\ tail = None
    /\ pc = [w \in Writer |-> "idle"]
    /\ item = [w \in Writer |-> Bootstrap]
    /\ todo = [w \in Writer |-> {}]
    /\ spoilt = {}

-----------------------------------------------------------------------------
(* The process *)

\* main loads the peers file and calls append_peer.  A file that cannot be opened is
\* an empty list, and a line whose read fails is skipped.
Start ==
    /\ node = "down"
    /\ node' = "boot"
    /\ \E S \in SUBSET Loaded : (S = Loaded \/ setting.IoErrors) /\ map' = S
    /\ pc' = [pc EXCEPT ![Main] = "check"]
    /\ todo' = [todo EXCEPT ![Main] = {Bootstrap}]
    /\ UNCHANGED <<setting, file, item>>

\* A read that fails again and again is skipped again and again: lines() never ends,
\* and main does not get past the file.
LoadForever ==
    /\ node = "down"
    /\ setting.IoErrors
    /\ node' = "loading"
    /\ UNCHANGED <<setting, map, file, pc, item, todo>>

\* The process ends: its memory is gone, the file stays.
Halt ==
    /\ node' = "down"
    /\ map' = {}
    /\ pc' = [w \in Writer |-> "idle"]
    /\ todo' = [w \in Writer |-> {}]
    /\ spoilt' = {}
    /\ UNCHANGED <<setting, lines, tail, item>>

MidLine(w) == pc[w] = "newline"

Crash ==
    /\ node # "down"
    /\ setting.TornWrites \/ \A w \in Writer : ~MidLine(w)
    /\ Halt

-----------------------------------------------------------------------------
(* import_peers and append_peer *)

\* A session receives a Peers message; banned peers are filtered out first.
Import(s, S) ==
    /\ node = "up"
    /\ s \in setting.sessions
    /\ pc[s] = "idle"
    /\ pc' = [pc EXCEPT ![s] = "check"]
    /\ todo' = [todo EXCEPT ![s] = S \ Banned]
    /\ UNCHANGED <<setting, node, map, file, item>>

\* if map.contains_key(&peer) { return Ok(()) }
Check(w, p) ==
    /\ pc[w] = "check"
    /\ p \in todo[w]
    /\ todo' = [todo EXCEPT ![w] = @ \ {p}]
    /\ item' = [item EXCEPT ![w] = p]
    /\ pc' = [pc EXCEPT ![w] = IF p \in map THEN "check" ELSE "insert"]
    /\ UNCHANGED <<setting, node, map, file>>

\* map.insert(peer, ()): another writer may have inserted it since the check.
InsertPeer(w) ==
    /\ pc[w] = "insert"
    /\ map' = map \cup {item[w]}
    /\ pc' = [pc EXCEPT ![w] = "key"]
    /\ UNCHANGED <<setting, node, file, item, todo>>

\* Mutant of AppendKey: the file is opened for writing, not for appending.
TruncateKey(p) ==
    /\ lines' = {}
    /\ tail' = p
    /\ UNCHANGED spoilt

\* A key joins the open line; if there was one, neither can be read back.
AppendKey(p) ==
    /\ tail' = IF tail = None THEN p ELSE Garbled
    /\ spoilt' = IF tail = None THEN spoilt
                 ELSE spoilt \cup {p} \cup (IF tail \in Peer THEN {Reread[tail]} \cap Peer ELSE {})
    /\ UNCHANGED lines

\* The first write call appends the key to the open line.
WriteKey(w) ==
    /\ pc[w] = "key"
    /\ AppendKey(item[w])
    /\ pc' = [pc EXCEPT ![w] = "newline"]
    /\ UNCHANGED <<setting, node, map, item, todo>>

\* Mutant of WriteNewline: write! in place of writeln!.
WriteNoNewline(w) ==
    /\ MidLine(w)
    /\ pc' = [pc EXCEPT ![w] = "check"]
    /\ UNCHANGED <<setting, node, map, file, item, todo>>

\* The second one ends the line, whatever it holds by now.
WriteNewline(w) ==
    /\ MidLine(w)
    /\ lines' = IF tail \in Peer THEN lines \cup {tail} ELSE lines
    /\ tail' = None
    /\ pc' = [pc EXCEPT ![w] = "check"]
    /\ UNCHANGED <<setting, node, map, item, todo, spoilt>>

\* Opening the file or one of the write calls fails.  A session logs the error
\* and drops the rest of the message; main unwraps the result.
WriteErr(w) ==
    /\ setting.IoErrors
    /\ pc[w] = "key" \/ (setting.TornWrites /\ MidLine(w))
    /\ \/ /\ w = Main
          /\ Halt
       \/ /\ w # Main
          /\ pc' = [pc EXCEPT ![w] = "idle"]
          /\ todo' = [todo EXCEPT ![w] = {}]
          /\ spoilt' = IF MidLine(w) THEN spoilt ELSE spoilt \cup {item[w]}
          /\ UNCHANGED <<setting, node, map, lines, tail, item>>

\* The list is done; main goes on to start the loops and the listener.
Done(w) ==
    /\ pc[w] = "check"
    /\ todo[w] = {}
    /\ pc' = [pc EXCEPT ![w] = "idle"]
    /\ node' = IF w = Main THEN "up" ELSE node
    /\ UNCHANGED <<setting, map, file, item, todo>>

Step(w) ==
    \/ \E p \in Peer : Check(w, p)
    \/ InsertPeer(w)
    \/ WriteKey(w)
    \/ WriteNewline(w)
    \/ WriteErr(w)
    \/ Done(w)

-----------------------------------------------------------------------------
Next ==
    \/ Start
    \/ LoadForever
    \/ Crash
    \/ \E s \in Session, S \in SUBSET Peer : Import(s, S)
    \/ \E w \in Writer : Step(w)

Spec == Init /\ [][Next]_vars

-----------------------------------------------------------------------------
(* Properties *)

\* Type correctness of the map, the file and the writers.
TypeOK ==
    /\ setting \in Settings
    /\ node \in {"down", "loading", "boot", "up"}
    /\ map \in SUBSET Peer
    /\ lines \in SUBSET Peer
    /\ tail \in Peer \cup {None, Garbled}
    /\ pc \in [Writer -> Pc]
    /\ item \in [Writer -> Peer]
    /\ todo \in [Writer -> SUBSET Peer]
    /\ spoilt \in SUBSET Peer

\* A step makes a peer unreadable in the file only by writing a key behind an
\* open line, and then only the peer of that line: whatever sessions interleave
\* and wherever the process dies, a complete line is safe (peers.rs:27-28).
OnlyOpenLineLost ==
    [][\A p \in Loaded \ Loaded' : tail \in Peer /\ Reread[tail] = p /\ tail' = Garbled]_vars

\* Unless a write is torn, an open line belongs to a writer that is about to
\* end it, so a file at rest ends with a newline even when lines were garbled.
OpenLineHasWriter == ~setting.TornWrites /\ tail # None => \E w \in Writer : MidLine(w)

AtRest == \A w \in Writer : pc[w] = "idle"

\* net/tests.rs:142, "reload from disk and assert A, B, C are present": between
\* imports, every peer of peers_map whose host survives a line of the file is
\* read back by load_from_disk.
KnownIsDurable == AtRest => \A p \in map : Reread[p] = p => p \in Loaded

\* What remains of it with any number of sessions, failing writes and crashes: a
\* peer that is missing in the file met another key in its line, or its write
\* failed, since the node started (peers.rs:24-28).
LossHasCause ==
    AtRest => \A p \in map : Reread[p] = p => p \in Loaded \/ p \in spoilt

-----------------------------------------------------------------------------
(***************************************************************************)
(* The inductive invariant: a peer that is in the map and not in the file  *)
(* is spoilt or about to be written.  With a single session and without    *)
(* failing or torn writes one writer is busy at a time, the open line is   *)
(* its own, and nothing is spoilt.                                         *)
(***************************************************************************)
Calm ==
    /\ ~setting.IoErrors /\ ~setting.TornWrites
    /\ \A s, r \in setting.sessions : s = r

MainBoots == pc[Main] # "idle" <=> node = "boot"

SessionsUp == \A s \in Session : pc[s] # "idle" => node = "up" /\ s \in setting.sessions

LineOfWriter == tail # None => \E w \in Writer : MidLine(w) /\ tail = item[w]

MapIsCovered ==
    \A p \in map : Reread[p] = p =>
        p \in Loaded \cup spoilt \/ \E w \in Writer : pc[w] = "key" /\ item[w] = p

BookInv ==
    /\ TypeOK
    /\ OpenLineHasWriter
    /\ MainBoots
    /\ SessionsUp
    /\ MapIsCovered
    /\ Calm => LineOfWriter /\ spoilt = {}

\* The promise of peers.csv, for a node with one session at a time whose writes
\* succeed: what it knows between two imports it knows in this life and in every
\* later one, however often it stops and starts (main.rs:38-42, peers.rs:15-30).
KnownForever ==
    \A p \in Peer : Reread[p] = p =>
        [](Calm /\ AtRest /\ p \in map => [](node = "up" => p \in map))
=============================================================================
