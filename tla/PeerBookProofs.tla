---------------------------- MODULE PeerBookProofs ----------------------------
(***************************************************************************)
(* Proofs about PeerBook, for any set of peers and of sessions and in any  *)
(* circumstances: what a step can do to the file, what it takes to lose a  *)
(* peer, and that none is lost when a single session writes and no write   *)
(* fails.                                                                  *)
(***************************************************************************)
EXTENDS PeerBook, TLAPS

\* The type invariant is inductive by itself.
LEMMA TypeStep == TypeOK /\ [Next]_vars => TypeOK'
  <1> SUFFICES ASSUME TypeOK, [Next]_vars PROVE TypeOK'
    OBVIOUS
  <1> USE BookAssumption DEF TypeOK, Pc, Writer, file
  <1>1. CASE Start
    <2>1. Loaded \in SUBSET Peer
      BY DEF Loaded
    <2>2. map' \in SUBSET Peer
      BY <1>1, <2>1 DEF Start
    <2>3. QED
      BY <1>1, <2>2 DEF Start
  <1>0. CASE LoadForever
    BY <1>0 DEF LoadForever
  <1>2. ASSUME Halt PROVE TypeOK'
    BY <1>2 DEF Halt
  <1>3. ASSUME NEW s \in Session, NEW S \in SUBSET Peer, Import(s, S) PROVE TypeOK'
    BY <1>3 DEF Import
  <1>4. ASSUME NEW w \in Writer, Step(w) PROVE TypeOK'
    <2>1. ASSUME NEW p \in Peer, Check(w, p) PROVE TypeOK'
      BY <2>1 DEF Check
    <2>2. CASE InsertPeer(w)
      BY <2>2 DEF InsertPeer
    <2>3. CASE WriteKey(w)
      <3>1. spoilt' \in SUBSET Peer
        BY <2>3 DEF WriteKey, AppendKey
      <3>2. QED
        BY <2>3, <3>1 DEF WriteKey, AppendKey
    <2>4. CASE WriteNewline(w)
      BY <2>4 DEF WriteNewline
    <2>5. CASE WriteErr(w)
      BY <1>2, <2>5 DEF WriteErr
    <2>6. CASE Done(w)
      BY <2>6 DEF Done
    <2>7. QED
      BY <1>4, <2>1, <2>2, <2>3, <2>4, <2>5, <2>6 DEF Step
  <1>5. CASE UNCHANGED vars
    BY <1>5 DEF vars
  <1>6. QED
    BY <1>0, <1>1, <1>2, <1>3, <1>4, <1>5 DEF Next, Crash

\* The circumstances stay the same.
LEMMA SettingStays ==
    ASSUME [Next]_vars
    PROVE  setting' = setting
  BY DEF Next, Start, LoadForever, Crash, Halt, Import, Step, Check, InsertPeer, WriteKey, WriteNewline,
         WriteErr, Done, vars

\* A step that makes a peer unreadable writes a key behind the open line of that peer.
LEMMA FileStep ==
    ASSUME TypeOK, [Next]_vars
    PROVE  \A p \in Loaded \ Loaded' : tail \in Peer /\ Reread[tail] = p /\ tail' = Garbled
  <1> DEFINE Safe == \A p \in Loaded \ Loaded' :
                        tail \in Peer /\ Reread[tail] = p /\ tail' = Garbled
  <1> SUFFICES Safe
    OBVIOUS
  <1> USE BookAssumption DEF TypeOK
  <1>1. CASE UNCHANGED <<lines, tail>>
    BY <1>1 DEF Loaded
  <1>2. ASSUME NEW w \in Writer, WriteKey(w) PROVE Safe
    <2>1. CASE tail = None
      <3>1. Loaded \subseteq Loaded'
        BY <1>2, <2>1 DEF WriteKey, AppendKey, Loaded
      <3>2. QED
        BY <3>1
    <2>2. CASE tail # None
      BY <1>2, <2>2 DEF WriteKey, AppendKey, Loaded
    <2>3. QED
      BY <2>1, <2>2
  <1>3. ASSUME NEW w \in Writer, WriteNewline(w) PROVE Safe
    <2>1. Loaded = Loaded'
      BY <1>3 DEF WriteNewline, Loaded
    <2>2. QED
      BY <2>1
  <1>4. QED
    BY <1>1, <1>2, <1>3
    DEF Next, Start, LoadForever, Crash, Halt, Import, Step, Check, InsertPeer, WriteErr, Done, vars, file

\* Only writing a key behind an open line loses a peer of the file, and only
\* that line's: for any number of sessions and any failures.
THEOREM CompleteLinesAreSafe == Spec => OnlyOpenLineLost
  <1>1. Init => TypeOK
    BY BookAssumption DEF Init, TypeOK, Pc, Writer
  <1>2. TypeOK /\ [Next]_vars =>
          [\A p \in Loaded \ Loaded' : tail \in Peer /\ Reread[tail] = p /\ tail' = Garbled]_vars
    BY FileStep
  <1>3. QED
    BY <1>1, <1>2, TypeStep, PTL DEF Spec, OnlyOpenLineLost

-----------------------------------------------------------------------------
(* The inductive invariant *)

\* main writes only while the node boots, sessions only once it is up.
LEMMA ControlStep ==
    ASSUME TypeOK, MainBoots, SessionsUp, [Next]_vars
    PROVE  MainBoots' /\ SessionsUp'
  <1> USE BookAssumption DEF TypeOK, Writer, MainBoots, SessionsUp
  <1>1. CASE Start
    BY <1>1 DEF Start
  <1>0. CASE LoadForever
    BY <1>0 DEF LoadForever
  <1>2. ASSUME Halt PROVE MainBoots' /\ SessionsUp'
    BY <1>2 DEF Halt
  <1>3. ASSUME NEW s \in Session, NEW S \in SUBSET Peer, Import(s, S)
        PROVE  MainBoots' /\ SessionsUp'
    BY <1>3 DEF Import
  <1>4. ASSUME NEW w \in Writer, Step(w) PROVE MainBoots' /\ SessionsUp'
    BY <1>2, <1>4 DEF Step, Check, InsertPeer, WriteKey, WriteNewline, WriteErr, Done, MidLine
  <1>5. CASE UNCHANGED vars
    BY <1>5 DEF vars
  <1>6. QED
    BY <1>0, <1>1, <1>2, <1>3, <1>4, <1>5 DEF Next, Crash

\* Without torn writes, whoever opened the last line is still there to end it.
LEMMA OpenLineStep ==
    ASSUME TypeOK, MainBoots, SessionsUp, OpenLineHasWriter, [Next]_vars
    PROVE  OpenLineHasWriter'
  <1> SUFFICES ASSUME ~setting.TornWrites, tail' # None
               PROVE  \E w \in Writer : MidLine(w)'
    BY SettingStays DEF OpenLineHasWriter
  <1> USE BookAssumption DEF TypeOK, Writer, OpenLineHasWriter, MidLine, file
  <1>1. CASE Start
    BY <1>1 DEF Start, MainBoots
  <1>0. CASE LoadForever
    BY <1>0 DEF LoadForever
  <1>2. CASE Crash
    BY <1>2 DEF Crash, Halt
  <1>3. ASSUME NEW s \in Session, NEW S \in SUBSET Peer, Import(s, S)
        PROVE  \E w \in Writer : MidLine(w)'
    BY <1>3 DEF Import
  <1>4. ASSUME NEW w \in Writer, Step(w) PROVE \E v \in Writer : MidLine(v)'
    <2>1. CASE WriteErr(w) /\ w = Main
      \* Main is writing, so no session is.
      BY <2>1 DEF WriteErr, Halt, MainBoots, SessionsUp
    <2>2. CASE WriteErr(w) /\ w # Main
      BY <2>2 DEF WriteErr
    <2>3. CASE WriteKey(w)
      BY <2>3 DEF WriteKey
    <2>4. CASE WriteNewline(w)
      BY <2>4 DEF WriteNewline
    <2>5. CASE InsertPeer(w) \/ Done(w) \/ \E p \in Peer : Check(w, p)
      BY <2>5 DEF InsertPeer, Done, Check
    <2>6. QED
      BY <1>4, <2>1, <2>2, <2>3, <2>4, <2>5 DEF Step
  <1>5. CASE UNCHANGED vars
    BY <1>5 DEF vars
  <1>6. QED
    BY <1>0, <1>1, <1>2, <1>3, <1>4, <1>5 DEF Next

\* A single session takes turns with main: one writer is busy at a time.
LEMMA OneBusyWriter ==
    ASSUME Calm, MainBoots, SessionsUp,
           NEW w \in Writer, NEW v \in Writer, pc[w] # "idle", pc[v] # "idle"
    PROVE  w = v
  BY BookAssumption DEF Calm, MainBoots, SessionsUp, Writer

\* With one busy writer the open line is its own, so no key joins another one.
LEMMA CalmStep ==
    ASSUME Calm, TypeOK, MainBoots, SessionsUp, LineOfWriter, spoilt = {}, [Next]_vars
    PROVE  LineOfWriter' /\ spoilt' = {}
  <1> USE BookAssumption DEF TypeOK, LineOfWriter, MidLine, file
  <1>1. CASE Start
    BY <1>1 DEF Start, Writer, MainBoots
  <1>0. CASE LoadForever
    BY <1>0 DEF LoadForever, Calm
  <1>2. CASE Crash
    BY <1>2 DEF Crash, Halt, Calm
  <1>3. ASSUME NEW s \in Session, NEW S \in SUBSET Peer, Import(s, S)
        PROVE  LineOfWriter' /\ spoilt' = {}
    BY <1>3 DEF Import, Writer
  <1>4. ASSUME NEW w \in Writer, Step(w)
        PROVE  LineOfWriter' /\ spoilt' = {}
    <2>1. pc[w] # "idle" /\ \A v \in Writer : pc[v] # "idle" => v = w
      <3>1. pc[w] # "idle"
        BY <1>4 DEF Step, Check, InsertPeer, WriteKey, WriteNewline, WriteErr, Done
      <3>2. QED
        BY <3>1, OneBusyWriter
    <2>2. ASSUME NEW p \in Peer, Check(w, p) PROVE LineOfWriter' /\ spoilt' = {}
      BY <2>1, <2>2 DEF Check
    <2>3. CASE InsertPeer(w)
      BY <2>1, <2>3 DEF InsertPeer
    <2>4. CASE WriteKey(w)
      <3>1. tail = None
        BY <2>1, <2>4 DEF WriteKey
      <3>2. QED
        BY <2>4, <3>1 DEF WriteKey, AppendKey
    <2>5. CASE WriteNewline(w)
      BY <2>5 DEF WriteNewline
    <2>6. CASE Done(w)
      BY <2>1, <2>6 DEF Done
    <2>7. QED
      BY <1>4, <2>2, <2>3, <2>4, <2>5, <2>6 DEF Step, WriteErr, Calm
  <1>5. CASE UNCHANGED vars
    BY <1>5 DEF vars
  <1>6. QED
    BY <1>0, <1>1, <1>2, <1>3, <1>4, <1>5 DEF Next

\* Every peer of the map is in the file, spoilt, or about to be written.
LEMMA CoverStep ==
    ASSUME TypeOK, MainBoots, MapIsCovered, [Next]_vars
    PROVE  MapIsCovered'
  <1> USE BookAssumption DEF TypeOK, MapIsCovered, file
  <1>1. CASE Start
    <2>1. map' \subseteq Loaded /\ Loaded' = Loaded
      BY <1>1 DEF Start, Loaded
    <2>2. QED
      BY <2>1
  <1>0. CASE LoadForever
    BY <1>0 DEF LoadForever, Loaded
  <1>2. ASSUME Halt PROVE MapIsCovered'
    BY <1>2 DEF Halt
  <1>3. ASSUME NEW s \in Session, NEW S \in SUBSET Peer, Import(s, S)
        PROVE  MapIsCovered'
    BY <1>3 DEF Import, Loaded, Writer
  <1>4. ASSUME NEW w \in Writer, Step(w)
        PROVE  MapIsCovered'
    <2>1. ASSUME NEW p \in Peer, Check(w, p) PROVE MapIsCovered'
      BY <2>1 DEF Check, Loaded
    <2>2. CASE InsertPeer(w)
      <3>1. Loaded' = Loaded /\ spoilt' = spoilt
        BY <2>2 DEF InsertPeer, Loaded
      <3>2. pc'[w] = "key" /\ item'[w] = item[w]
        BY <2>2 DEF InsertPeer
      <3>3. \A v \in Writer : pc[v] = "key" => pc'[v] = "key" /\ item'[v] = item[v]
        BY <2>2 DEF InsertPeer
      <3>4. QED
        BY <2>2, <3>1, <3>2, <3>3 DEF InsertPeer
    <2>3. CASE WriteKey(w)
      <3>1. \A p \in Loaded : Reread[p] = p => p \in Loaded' \cup spoilt'
        <4>1. CASE tail = None
          BY <2>3, <4>1 DEF WriteKey, AppendKey, Loaded
        <4>2. CASE tail # None
          BY <2>3, <4>2 DEF WriteKey, AppendKey, Loaded
        <4>3. QED
          BY <4>1, <4>2
      <3>2. Reread[item[w]] = item[w] => item[w] \in Loaded' \cup spoilt'
        BY <2>3 DEF WriteKey, AppendKey, Loaded
      <3>3. spoilt \subseteq spoilt' /\ map' = map
        BY <2>3 DEF WriteKey, AppendKey
      <3>4. \A v \in Writer : v # w /\ pc[v] = "key" => pc'[v] = "key" /\ item'[v] = item[v]
        BY <2>3 DEF WriteKey
      <3>5. QED
        BY <3>1, <3>2, <3>3, <3>4
    <2>4. CASE WriteNewline(w)
      <3>1. Loaded' = Loaded
        BY <2>4 DEF WriteNewline, Loaded
      <3>2. QED
        BY <2>4, <3>1 DEF WriteNewline, MidLine
    <2>5. CASE WriteErr(w)
      BY <1>2, <2>5 DEF WriteErr, MidLine, Loaded
    <2>6. CASE Done(w)
      BY <2>6 DEF Done, Loaded
    <2>7. QED
      BY <1>4, <2>1, <2>2, <2>3, <2>4, <2>5, <2>6 DEF Step
  <1>5. CASE UNCHANGED vars
    BY <1>5 DEF vars, Loaded
  <1>6. QED
    BY <1>0, <1>1, <1>2, <1>3, <1>4, <1>5 DEF Next, Crash

\* BookInv holds in every reachable state.
THEOREM BookInvariant == Spec => []BookInv
  <1>1. Init => BookInv
    BY BookAssumption
    DEF Init, BookInv, TypeOK, Pc, Writer, OpenLineHasWriter, MainBoots, SessionsUp,
        LineOfWriter, MapIsCovered, MidLine
  <1>2. BookInv /\ [Next]_vars => BookInv'
    <2> SUFFICES ASSUME BookInv, [Next]_vars PROVE BookInv'
      OBVIOUS
    <2>1. TypeOK' /\ MainBoots' /\ SessionsUp' /\ OpenLineHasWriter'
      BY TypeStep, ControlStep, OpenLineStep DEF BookInv
    <2>2. MapIsCovered'
      BY CoverStep DEF BookInv
    <2>3. Calm => LineOfWriter' /\ spoilt' = {}
      BY CalmStep DEF BookInv
    <2>4. Calm' <=> Calm
      BY SettingStays DEF Calm
    <2>5. QED
      BY <2>1, <2>2, <2>3, <2>4 DEF BookInv
  <1>3. QED
    BY <1>1, <1>2, PTL DEF Spec

\* Unless a write is torn, peers.csv ends with a newline whenever no append_peer
\* is between its two writes, for any number of sessions.
THEOREM FileEndsWithNewline == Spec => []OpenLineHasWriter
  <1>1. BookInv => OpenLineHasWriter
    BY DEF BookInv
  <1>2. QED
    BY <1>1, BookInvariant, PTL

\* A peer of peers_map that the file lacks met another key in its line or its
\* write failed: for any number of sessions and any failures and crashes.
THEOREM EveryLossHasCause == Spec => []LossHasCause
  <1>1. BookInv => LossHasCause
    BY DEF BookInv, MapIsCovered, LossHasCause, AtRest
  <1>2. QED
    BY <1>1, BookInvariant, PTL

\* With a single session and without failing or torn writes, every peer of
\* peers_map is read back from the file; the violation run shows that a second
\* session cannot be allowed.
THEOREM CalmIsDurable == Spec => [](Calm => KnownIsDurable)
  <1>1. BookInv => (Calm => KnownIsDurable)
    BY DEF BookInv, MapIsCovered, KnownIsDurable, AtRest
  <1>2. QED
    BY <1>1, BookInvariant, PTL

\* What the file yields and, while the node runs, the map holds, stays so: the line
\* of the only busy writer is never joined by another key, and a start reads it back.
LEMMA KnownStep ==
    ASSUME Calm, BookInv, BookInv', [Next]_vars,
           NEW p, p \in Loaded, node # "down" => p \in map
    PROVE  p \in Loaded' /\ (node' # "down" => p \in map')
  <1>1. p \in Loaded'
    <2>1. Calm'
      BY SettingStays DEF Calm
    <2>2. tail' # Garbled
      BY <2>1, BookAssumption DEF BookInv, LineOfWriter, TypeOK
    <2>3. QED
      BY <2>2, FileStep DEF BookInv
  <1>0. CASE LoadForever
    BY <1>0 DEF LoadForever, Calm
  <1>2. CASE Start
    BY <1>1, <1>2 DEF Start, Calm
  <1>3. ASSUME Halt PROVE node' = "down"
    BY <1>3 DEF Halt
  <1>4. ASSUME NEW s \in Session, NEW S \in SUBSET Peer, Import(s, S)
        PROVE  node' # "down" => p \in map'
    BY <1>4 DEF Import
  <1>5. ASSUME NEW w \in Writer, Step(w)
        PROVE  node' # "down" => p \in map'
    <2>1. node # "down"
      <3>1. pc[w] # "idle"
        BY <1>5 DEF Step, Check, InsertPeer, WriteKey, WriteNewline, WriteErr, Done, MidLine
      <3>2. QED
        BY <3>1 DEF BookInv, MainBoots, SessionsUp, Writer
    <2>2. map \subseteq map' \/ WriteErr(w)
      BY <1>5 DEF Step, Check, InsertPeer, WriteKey, WriteNewline, Done
    <2>3. ~WriteErr(w)
      BY DEF WriteErr, Calm
    <2>4. QED
      BY <2>1, <2>2, <2>3
  <1>6. CASE UNCHANGED vars
    BY <1>1, <1>6 DEF vars
  <1>7. QED
    BY <1>0, <1>1, <1>2, <1>3, <1>4, <1>5, <1>6 DEF Next, Crash

\* With a single session and without failing or torn writes a node never forgets:
\* what it knows at rest it knows again after any number of crashes and restarts.
THEOREM KnowledgeSurvives == Spec => KnownForever
  <1>1. ASSUME NEW p \in Peer, Reread[p] = p
        PROVE  Spec => [](Calm /\ AtRest /\ p \in map => [](node = "up" => p \in map))
    <2> DEFINE Kept == Calm /\ p \in Loaded /\ (node # "down" => p \in map)
    <2>1. BookInv => (Calm /\ AtRest /\ p \in map => Kept)
      BY <1>1 DEF BookInv, MapIsCovered, AtRest
    <2>2. BookInv /\ BookInv' /\ Kept /\ [Next]_vars => Kept'
      BY KnownStep, SettingStays DEF Calm
    <2>3. Kept => (node = "up" => p \in map)
      OBVIOUS
    <2>4. QED
      BY <2>1, <2>2, <2>3, BookInvariant, PTL DEF Spec
  <1>2. QED
    BY <1>1 DEF KnownForever
=============================================================================
