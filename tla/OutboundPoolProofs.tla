-------------------------- MODULE OutboundPoolProofs --------------------------
(***************************************************************************)
(* Proofs about OutboundPool, for any finite set of peers, any set of      *)
(* tasks and any limit.  PoolInv is shown to be inductive, first the part  *)
(* about who owns which entry, then the slot accounting; the properties    *)
(* and the implementation of ConnectionPool follow from it.                *)
(***************************************************************************)
EXTENDS OutboundPool, FiniteSetTheorems, TLAPS

-----------------------------------------------------------------------------
(* Ownership of the entries *)

\* The part of PoolInv that needs no arithmetic.
EntryInv ==
    /\ TypeOK
    /\ fresh # NoTask <=> phase = "insert"
    /\ OwnEntry
    /\ HandleUnderItsPeer
    /\ InsertFindsNoEntry
    /\ ChosenUntracked
    /\ phase \in {"retain", "count"} => chosen = {}

\* The initial map is empty and no task runs.
LEMMA EntryInit == Init => EntryInv
  BY PoolAssumption
  DEF Init, EntryInv, TypeOK, Stage, Phase, OwnEntry, HandleUnderItsPeer,
      InsertFindsNoEntry, ChosenUntracked, Tracked

\* A retain visit drops finished tasks only, and those own nothing.
LEMMA PruneEntry ==
    ASSUME EntryInv, NEW p \in Peer, conn' = Pruned(p),
           UNCHANGED <<taskVars, chosen, fresh>>
    PROVE  /\ conn' \in [Peer -> Task \cup {NoTask}]
           /\ OwnEntry' /\ HandleUnderItsPeer' /\ InsertFindsNoEntry' /\ ChosenUntracked'
           /\ Tracked' \subseteq Tracked
  <1> USE PoolAssumption DEF EntryInv, TypeOK, Pruned, taskVars
  <1>1. conn' \in [Peer -> Task \cup {NoTask}]
    OBVIOUS
  <1>2. OwnEntry'
    BY DEF OwnEntry
  <1>3. HandleUnderItsPeer' /\ InsertFindsNoEntry' /\ ChosenUntracked' /\ Tracked' \subseteq Tracked
    BY DEF HandleUnderItsPeer, InsertFindsNoEntry, ChosenUntracked, Tracked
  <1>4. QED
    BY <1>1, <1>2, <1>3

\* The loop's sweeps.
LEMMA SweepEntry ==
    ASSUME EntryInv, NEW p \in Peer, Retain(p) \/ Count(p) \/ Pick(p)
    PROVE  EntryInv'
  <1> USE PoolAssumption DEF EntryInv
  <1>1. CASE Retain(p)
    <2>1. /\ conn' \in [Peer -> Task \cup {NoTask}]
          /\ OwnEntry' /\ HandleUnderItsPeer' /\ InsertFindsNoEntry' /\ ChosenUntracked'
      BY <1>1, PruneEntry DEF Retain
    <2>2. QED
      BY <1>1, <2>1 DEF Retain, TypeOK, Visit, Phase, taskVars
  <1>2. CASE Count(p)
    BY <1>2
    DEF Count, Visit, TypeOK, Phase, taskVars, OwnEntry, HandleUnderItsPeer,
        InsertFindsNoEntry, ChosenUntracked, Tracked
  <1>3. CASE Pick(p)
    BY <1>3
    DEF Pick, Visit, TypeOK, Phase, taskVars, OwnEntry, HandleUnderItsPeer,
        InsertFindsNoEntry, ChosenUntracked, Tracked
  <1>4. QED
    BY <1>1, <1>2, <1>3

\* Choosing among the candidates, and starting the next iteration.
LEMMA ChooseWakeEntry ==
    ASSUME EntryInv, Choose \/ Wake
    PROVE  EntryInv'
  BY PoolAssumption
  DEF Choose, Wake, EntryInv, TypeOK, Phase, taskVars, OwnEntry, HandleUnderItsPeer,
      InsertFindsNoEntry, ChosenUntracked, Tracked

\* A task identity is only reused when no entry holds its handle.
LEMMA SpawnEntry ==
    ASSUME EntryInv, NEW p \in Peer, NEW t \in Task, Spawn(p, t)
    PROVE  EntryInv'
  <1> USE PoolAssumption DEF EntryInv, Spawn
  <1>1. TypeOK'
    BY DEF TypeOK, Stage, Phase
  <1>2. OwnEntry'
    BY DEF TypeOK, OwnEntry
  <1>3. HandleUnderItsPeer'
    BY DEF TypeOK, HandleUnderItsPeer
  <1>4. InsertFindsNoEntry' /\ ChosenUntracked'
    BY DEF TypeOK, InsertFindsNoEntry, ChosenUntracked, Tracked
  <1>5. QED
    BY <1>1, <1>2, <1>3, <1>4

\* The insert fills an empty entry.
LEMMA InsertEntry ==
    ASSUME EntryInv, Insert
    PROVE  EntryInv'
  <1> USE PoolAssumption DEF EntryInv, Insert, taskVars
  <1>1. fresh \in Task
    BY DEF TypeOK
  <1>2. TypeOK'
    BY <1>1 DEF TypeOK, Phase
  <1>3. OwnEntry'
    BY <1>1 DEF TypeOK, OwnEntry, InsertFindsNoEntry
  <1>4. HandleUnderItsPeer' /\ InsertFindsNoEntry' /\ ChosenUntracked'
    BY <1>1 DEF TypeOK, HandleUnderItsPeer, InsertFindsNoEntry, ChosenUntracked, Tracked
  <1>5. QED
    BY <1>2, <1>3, <1>4

\* The steps of a task; its remove empties its own entry, or one that is empty already.
LEMMA TaskEntry ==
    ASSUME EntryInv, NEW t \in Task, TaskStep(t)
    PROVE  EntryInv' /\ Tracked' \subseteq Tracked
  <1> USE PoolAssumption DEF EntryInv
  <1>1. CASE Remove(t)
    <2> USE <1>1 DEF Remove, Step, loopVars
    <2>1. TypeOK'
      BY DEF TypeOK, Stage
    <2>2. OwnEntry'
      BY DEF TypeOK, OwnEntry, InsertFindsNoEntry
    <2>3. HandleUnderItsPeer' /\ InsertFindsNoEntry' /\ ChosenUntracked' /\ Tracked' \subseteq Tracked
      BY DEF TypeOK, HandleUnderItsPeer, InsertFindsNoEntry, ChosenUntracked, Tracked
    <2>4. QED
      BY <2>1, <2>2, <2>3
  <1>2. CASE HandshakeOk(t) \/ HandshakeErr(t) \/ LoopReturns(t) \/ Finish(t)
    <2> USE <1>2 DEF HandshakeOk, HandshakeErr, LoopReturns, Finish, Step, loopVars
    <2>1. TypeOK'
      BY DEF TypeOK, Stage
    <2>2. OwnEntry'
      BY DEF TypeOK, OwnEntry
    <2>3. HandleUnderItsPeer' /\ InsertFindsNoEntry' /\ ChosenUntracked' /\ Tracked' \subseteq Tracked
      BY DEF TypeOK, HandleUnderItsPeer, InsertFindsNoEntry, ChosenUntracked, Tracked
    <2>4. QED
      BY <2>1, <2>2, <2>3
  <1>3. QED
    BY <1>1, <1>2 DEF TaskStep

\* Housekeeping and the sessions' imports.
LEMMA OtherEntry ==
    ASSUME EntryInv, HousekeepingWakes \/ \E p \in Peer : HousekeepingRetain(p) \/ Learn(p)
    PROVE  EntryInv' /\ Tracked' \subseteq Tracked
  <1> USE PoolAssumption DEF EntryInv, loopVars
  <1>1. CASE HousekeepingWakes
    BY <1>1
    DEF HousekeepingWakes, TypeOK, taskVars, OwnEntry, HandleUnderItsPeer,
        InsertFindsNoEntry, ChosenUntracked, Tracked
  <1>2. ASSUME NEW p \in Peer, HousekeepingRetain(p)
        PROVE  EntryInv' /\ Tracked' \subseteq Tracked
    <2>1. /\ conn' \in [Peer -> Task \cup {NoTask}]
          /\ OwnEntry' /\ HandleUnderItsPeer' /\ InsertFindsNoEntry' /\ ChosenUntracked'
          /\ Tracked' \subseteq Tracked
      BY <1>2, PruneEntry DEF HousekeepingRetain
    <2>2. QED
      BY <1>2, <2>1 DEF HousekeepingRetain, TypeOK, taskVars
  <1>3. ASSUME NEW p \in Peer, Learn(p)
        PROVE  EntryInv' /\ Tracked' \subseteq Tracked
    BY <1>3
    DEF Learn, TypeOK, taskVars, OwnEntry, HandleUnderItsPeer,
        InsertFindsNoEntry, ChosenUntracked, Tracked
  <1>4. QED
    BY <1>1, <1>2, <1>3

-----------------------------------------------------------------------------
(* Slot accounting *)

\* PoolInv is EntryInv and the accounting.
LEMMA PoolInvSplit == PoolInv <=> EntryInv /\ SlotAccounting
  BY DEF PoolInv, EntryInv, SlotAccounting, ChosenUntracked

\* Sets of peers are finite, and a subset has no more elements.
LEMMA PeerCard ==
    ASSUME NEW S \in SUBSET Peer
    PROVE  /\ IsFiniteSet(S)
           /\ Cardinality(S) \in Nat
           /\ \A T \in SUBSET S : Cardinality(T) \in Nat /\ Cardinality(T) <= Cardinality(S)
  <1>1. \A R \in SUBSET Peer : IsFiniteSet(R)
    BY PoolAssumption, FS_Subset
  <1>2. QED
    BY <1>1, FS_Subset, FS_CardinalityType

\* Adding a peer to, or taking it from, a set of peers.
LEMMA PeerCardStep ==
    ASSUME NEW S \in SUBSET Peer, NEW p \in Peer
    PROVE  /\ Cardinality(S \cup {p}) = IF p \in S THEN Cardinality(S) ELSE Cardinality(S) + 1
           /\ Cardinality(S \ {p}) = IF p \in S THEN Cardinality(S) - 1 ELSE Cardinality(S)
  BY PeerCard, FS_AddElement, FS_RemoveElement

\* The empty pool satisfies the accounting.
LEMMA SlotInit == Init => SlotAccounting
  <1> SUFFICES ASSUME Init PROVE SlotAccounting
    OBVIOUS
  <1>1. Tracked = {}
    BY DEF Init, Tracked
  <1>2. QED
    BY <1>1, FS_EmptySet, PoolAssumption DEF Init, SlotAccounting

\* A step that leaves the loop alone and only empties entries keeps the accounting.
LEMMA ShrinkSlots ==
    ASSUME EntryInv, SlotAccounting, UNCHANGED loopVars, Tracked' \subseteq Tracked
    PROVE  SlotAccounting'
  <1>1. /\ Tracked \in SUBSET Peer /\ Tracked' \in SUBSET Tracked
        /\ Tracked \ unseen \in SUBSET Peer
        /\ Tracked' \ unseen \in SUBSET (Tracked \ unseen)
    BY DEF Tracked
  <1>2. /\ Cardinality(Tracked) \in Nat /\ Cardinality(Tracked') \in Nat
        /\ Cardinality(Tracked') <= Cardinality(Tracked)
    BY <1>1, PeerCard
  <1>3. /\ Cardinality(Tracked \ unseen) \in Nat /\ Cardinality(Tracked' \ unseen) \in Nat
        /\ Cardinality(Tracked' \ unseen) <= Cardinality(Tracked \ unseen)
    BY <1>1, PeerCard
  <1>4. chosen \in SUBSET Peer /\ Cardinality(chosen) \in Nat
    BY PeerCard DEF EntryInv, TypeOK
  <1>5. MaxOutbound \in Nat /\ active \in Nat
    BY PoolAssumption DEF EntryInv, TypeOK
  <1>6. QED
    BY <1>1, <1>2, <1>3, <1>4, <1>5 DEF SlotAccounting, loopVars

\* The retain sweep; the count starts with every shard unseen.
LEMMA RetainSlots ==
    ASSUME EntryInv, SlotAccounting, NEW p \in Peer, Retain(p)
    PROVE  SlotAccounting'
  <1>1. Tracked' \subseteq Tracked
    BY PruneEntry DEF Retain
  <1>2. /\ Tracked \in SUBSET Peer /\ Tracked' \in SUBSET Peer /\ Tracked' \in SUBSET Tracked
        /\ Tracked' \ Peer = {}
    BY <1>1 DEF Tracked
  <1>3. /\ Cardinality(Tracked) \in Nat /\ Cardinality(Tracked') \in Nat
        /\ Cardinality(Tracked') <= Cardinality(Tracked)
        /\ Cardinality(Tracked' \ Peer) = 0
    BY <1>2, PeerCard, FS_EmptySet
  <1>4. CASE unseen = {p}
    BY <1>3, <1>4, PoolAssumption DEF Retain, Visit, SlotAccounting
  <1>5. CASE unseen # {p}
    BY <1>3, <1>5, PoolAssumption DEF Retain, Visit, SlotAccounting
  <1>6. QED
    BY <1>4, <1>5

\* The count is at least the number of entries behind it, since entries only
\* go away while it runs.
LEMMA CountSlots ==
    ASSUME EntryInv, SlotAccounting, NEW p \in Peer, Count(p)
    PROVE  SlotAccounting'
  <1> DEFINE seen == Tracked \ unseen
  <1>1. /\ Tracked' = Tracked /\ Tracked \in SUBSET Peer /\ seen \in SUBSET Peer
        /\ p \in unseen /\ unseen \in SUBSET Peer
        /\ active \in Nat /\ MaxOutbound \in Nat
    BY PoolAssumption DEF Count, Visit, Tracked, EntryInv, TypeOK
  <1>2. Cardinality(Tracked) \in Nat /\ Cardinality(seen) \in Nat
    BY <1>1, PeerCard
  <1>3. Cardinality(seen \cup {p}) = Cardinality(seen) + 1
    BY <1>1, PeerCardStep
  <1>4. Tracked \ (unseen \ {p}) = IF p \in Tracked THEN seen \cup {p} ELSE seen
    BY <1>1
  <1>5. Cardinality(Tracked \ (unseen \ {p})) <= active' /\ active' \in Nat
    <2>1. Cardinality(seen) <= active /\ active' = active + (IF p \in Tracked THEN 1 ELSE 0)
      BY DEF Count, SlotAccounting
    <2>2. Cardinality(Tracked \ (unseen \ {p})) = Cardinality(seen) + (IF p \in Tracked THEN 1 ELSE 0)
      <3>1. CASE p \in Tracked
        BY <1>3, <1>4, <3>1
      <3>2. CASE p \notin Tracked
        BY <1>2, <1>4, <3>2
      <3>3. QED
        BY <3>1, <3>2
    <2> HIDE DEF seen
    <2>3. QED
      BY <1>1, <1>2, <2>1, <2>2
  <1>6. CASE unseen = {p}
    <2>1. Cardinality(Tracked) <= active'
      <3>1. Tracked \ (unseen \ {p}) = Tracked
        BY <1>6
      <3>2. QED
        BY <3>1, <1>5
    <2>2. QED
      BY <1>1, <1>2, <1>5, <1>6, <2>1 DEF Count, Visit, SlotAccounting
  <1>7. CASE unseen # {p}
    BY <1>1, <1>2, <1>5, <1>7 DEF Count, Visit, SlotAccounting
  <1>8. QED
    BY <1>6, <1>7

\* Picking and waking change neither the map nor the count they rely on.
LEMMA PickWakeSlots ==
    ASSUME EntryInv, SlotAccounting, Wake \/ \E p \in Peer : Pick(p)
    PROVE  SlotAccounting'
  <1>1. Tracked' = Tracked
    BY DEF Wake, Pick, Tracked
  <1>2. CASE Wake
    BY <1>1, <1>2 DEF Wake, SlotAccounting
  <1>3. CASE \E p \in Peer : Pick(p)
    BY <1>1, <1>3 DEF Pick, Visit, SlotAccounting
  <1>4. QED
    BY <1>2, <1>3

\* At most as many candidates are kept as slots were counted free.
LEMMA ChooseSlots ==
    ASSUME EntryInv, SlotAccounting, Choose
    PROVE  SlotAccounting'
  <1>1. Tracked' = Tracked /\ Tracked \in SUBSET Peer /\ active \in Nat /\ MaxOutbound \in Nat
    BY PoolAssumption DEF Choose, Tracked, EntryInv, TypeOK
  <1>2. PICK S \in SUBSET chosen :
          /\ Cardinality(S) <= MaxOutbound - active
          /\ chosen' = S
          /\ phase' = IF S = {} THEN "sleep" ELSE "spawn"
    BY DEF Choose
  <1>3. S \in SUBSET Peer /\ Cardinality(S) \in Nat /\ Cardinality(Tracked) \in Nat
    BY <1>1, <1>2, PeerCard DEF EntryInv, TypeOK
  <1>4. QED
    BY <1>1, <1>2, <1>3 DEF Choose, SlotAccounting, EntryInv, ChosenUntracked

\* A spawn moves one peer from the candidates to the pending handle.
LEMMA SpawnSlots ==
    ASSUME EntryInv, SlotAccounting, NEW p \in Peer, NEW t \in Task, Spawn(p, t)
    PROVE  SlotAccounting'
  <1>1. /\ Tracked' = Tracked /\ Tracked \in SUBSET Peer /\ chosen \in SUBSET Peer
        /\ p \in chosen /\ chosen' = chosen \ {p} /\ MaxOutbound \in Nat
    BY PoolAssumption DEF Spawn, Tracked, EntryInv, TypeOK
  <1>2. /\ Cardinality(chosen) \in Nat /\ Cardinality(Tracked) \in Nat
        /\ Cardinality(chosen') = Cardinality(chosen) - 1
    BY <1>1, PeerCard, PeerCardStep
  <1>3. QED
    BY <1>1, <1>2 DEF Spawn, SlotAccounting

\* The insert moves it from the pending handle to the map.
LEMMA InsertSlots ==
    ASSUME EntryInv, SlotAccounting, Insert
    PROVE  SlotAccounting'
  <1>1. fresh \in Task /\ target[fresh] \in Peer /\ MaxOutbound \in Nat
    BY PoolAssumption DEF Insert, EntryInv, TypeOK
  <1>2. Tracked' = Tracked \cup {target[fresh]} /\ target[fresh] \notin Tracked
    BY <1>1, PoolAssumption DEF Insert, EntryInv, TypeOK, Tracked, InsertFindsNoEntry
  <1>3. /\ Tracked \in SUBSET Peer /\ Tracked' \in SUBSET Peer
        /\ chosen' = chosen /\ chosen \in SUBSET Peer
    BY DEF Tracked, Insert, EntryInv, TypeOK
  <1>4. Cardinality(Tracked') = Cardinality(Tracked) + 1
    BY <1>1, <1>2, <1>3, PeerCardStep
  <1>5. Cardinality(Tracked) \in Nat /\ Cardinality(chosen) \in Nat
    BY <1>3, PeerCard
  <1>6. (chosen \cap Tracked)' = {}
    BY InsertEntry DEF EntryInv, ChosenUntracked
  <1>7. QED
    BY <1>1, <1>3, <1>4, <1>5, <1>6 DEF Insert, SlotAccounting

-----------------------------------------------------------------------------
(* The invariant, and what follows from it *)

\* Every step of the loop, of a task, of housekeeping or of a session keeps PoolInv.
LEMMA PoolInvStep == PoolInv /\ [Next]_vars => PoolInv'
  <1> SUFFICES ASSUME EntryInv, SlotAccounting, [Next]_vars
               PROVE  EntryInv' /\ SlotAccounting'
    BY PoolInvSplit DEF PoolInv, EntryInv
  <1>1. ASSUME NEW p \in Peer, Retain(p) \/ Count(p) \/ Pick(p)
        PROVE  EntryInv' /\ SlotAccounting'
    BY <1>1, SweepEntry, RetainSlots, CountSlots, PickWakeSlots
  <1>2. CASE Choose \/ Wake
    BY <1>2, ChooseWakeEntry, ChooseSlots, PickWakeSlots
  <1>3. ASSUME NEW p \in Peer, NEW t \in Task, Spawn(p, t)
        PROVE  EntryInv' /\ SlotAccounting'
    BY <1>3, SpawnEntry, SpawnSlots
  <1>4. CASE Insert
    BY <1>4, InsertEntry, InsertSlots
  <1>5. ASSUME NEW t \in Task, TaskStep(t)
        PROVE  EntryInv' /\ SlotAccounting'
    <2>1. UNCHANGED loopVars
      BY <1>5 DEF TaskStep, HandshakeOk, HandshakeErr, LoopReturns, Remove, Finish, Step
    <2>2. QED
      BY <1>5, <2>1, TaskEntry, ShrinkSlots
  <1>6. CASE HousekeepingWakes \/ \E p \in Peer : HousekeepingRetain(p) \/ Learn(p)
    <2>1. UNCHANGED loopVars
      BY <1>6 DEF HousekeepingWakes, HousekeepingRetain, Learn
    <2>2. QED
      BY <1>6, <2>1, OtherEntry, ShrinkSlots
  <1>7. CASE UNCHANGED vars
    <2>1. EntryInv' /\ Tracked' = Tracked /\ UNCHANGED loopVars
      BY <1>7
      DEF vars, taskVars, loopVars, EntryInv, TypeOK, OwnEntry, HandleUnderItsPeer,
          InsertFindsNoEntry, ChosenUntracked, Tracked
    <2>2. QED
      BY <2>1, ShrinkSlots
  <1>8. QED
    BY <1>1, <1>2, <1>3, <1>4, <1>5, <1>6, <1>7 DEF Next, OutboundLoop

\* PoolInv holds in every reachable state of outbound_loop, its tasks and
\* housekeeping, for every finite set of peers and every limit.
THEOREM PoolInvariant == Spec => []PoolInv
  <1>1. Init => PoolInv
    BY EntryInit, SlotInit, PoolInvSplit
  <1>2. QED
    BY <1>1, PoolInvStep, PTL DEF Spec

\* The maps, the tasks and the loops' locals keep their types.
THEOREM TypeCorrect == Spec => []TypeOK
  <1>1. PoolInv => TypeOK
    BY DEF PoolInv
  <1>2. QED
    BY <1>1, PoolInvariant, PTL

\* A peer being dialed or served is in the map, or waits for its insert.
LEMMA OpenCovered ==
    ASSUME PoolInv
    PROVE  OpenPeers \subseteq (Tracked \cup IF phase = "insert" THEN {target[fresh]} ELSE {})
  BY PoolAssumption
  DEF PoolInv, TypeOK, OpenPeers, HoldsSocket, OwnEntry, Tracked

\* In no state are there more open connections than the limit.
LEMMA LimitFromInv ==
    ASSUME PoolInv
    PROVE  Cardinality(OpenPeers) <= MaxOutbound
  <1> USE PoolAssumption
  <1>1. Tracked \in SUBSET Peer /\ OpenPeers \in SUBSET Peer
    BY DEF Tracked, OpenPeers, PoolInv, TypeOK
  <1>2. /\ Cardinality(Tracked) \in Nat /\ Cardinality(OpenPeers) \in Nat
        /\ Cardinality(Tracked) <= MaxOutbound
    BY <1>1, PeerCard DEF PoolInv, SlotAccounting
  <1>3. CASE phase = "insert"
    <2>1. fresh \in Task /\ target[fresh] \in Peer
      BY <1>3 DEF PoolInv, TypeOK
    <2>2. chosen \in SUBSET Peer /\ Cardinality(chosen) \in Nat
      BY PeerCard DEF PoolInv, TypeOK
    <2>3. Cardinality(Tracked) < MaxOutbound
      BY <1>2, <1>3, <2>2 DEF PoolInv, SlotAccounting
    <2>4. Cardinality(Tracked \cup {target[fresh]}) <= Cardinality(Tracked) + 1
      <3>1. Cardinality(Tracked \cup {target[fresh]})
              = IF target[fresh] \in Tracked THEN Cardinality(Tracked) ELSE Cardinality(Tracked) + 1
        BY <1>1, <2>1, PeerCardStep
      <3>2. QED
        BY <1>2, <3>1
    <2>5. /\ Tracked \cup {target[fresh]} \in SUBSET Peer
          /\ OpenPeers \in SUBSET (Tracked \cup {target[fresh]})
      BY <1>1, <1>3, <2>1, OpenCovered
    <2>6. /\ Cardinality(OpenPeers) <= Cardinality(Tracked \cup {target[fresh]})
          /\ Cardinality(Tracked \cup {target[fresh]}) \in Nat
      BY <2>5, PeerCard
    <2>7. QED
      BY <1>2, <2>3, <2>4, <2>6
  <1>4. CASE phase # "insert"
    <2>1. OpenPeers \in SUBSET Tracked
      BY <1>4, OpenCovered
    <2>2. QED
      BY <1>1, <1>2, <2>1, PeerCard
  <1>5. QED
    BY <1>3, <1>4

\* outbound_loop never has more connections open than max_outbound_connection,
\* whatever tasks and housekeeping do to the map while it counts, chooses,
\* spawns and inserts.
THEOREM LimitHolds == Spec => []ConnectionsWithinLimit
  <1>1. PoolInv => ConnectionsWithinLimit
    BY LimitFromInv DEF ConnectionsWithinLimit
  <1>2. QED
    BY <1>1, PoolInvariant, PTL

\* No peer is ever dialed or served by two tasks at a time.
THEOREM OneTaskHolds == Spec => []OneTaskPerPeer
  <1>1. PoolInv => OneTaskPerPeer
    BY PoolAssumption
    DEF PoolInv, TypeOK, OneTaskPerPeer, HoldsSocket, OwnEntry, InsertFindsNoEntry
  <1>2. QED
    BY <1>1, PoolInvariant, PTL

\* Every open connection stays reachable through its own handle in the map.
THEOREM TrackingHolds == Spec => []OpenIsTracked
  <1>1. PoolInv => OpenIsTracked
    BY DEF PoolInv, OpenIsTracked, HoldsSocket, OwnEntry
  <1>2. QED
    BY <1>1, PoolInvariant, PTL

\* The insert finds no entry, however long ago the map was filtered, so no handle
\* is dropped by it.
THEOREM NoHandleReplaced == Spec => []InsertFindsNoEntry
  <1>1. PoolInv => InsertFindsNoEntry
    BY DEF PoolInv
  <1>2. QED
    BY <1>1, PoolInvariant, PTL

-----------------------------------------------------------------------------
(* The implementation of ConnectionPool *)

\* A spawn opens one connection, to a peer without one and in a free slot.
LEMMA SpawnDials ==
    ASSUME PoolInv, NEW p \in Peer, NEW t \in Task, Spawn(p, t)
    PROVE  Pool!Dial(p)
  <1> USE PoolAssumption
  <1>1. OpenPeers \subseteq Tracked
    BY OpenCovered DEF Spawn
  <1>2. p \notin OpenPeers
    BY <1>1 DEF Spawn, PoolInv, ChosenUntracked
  <1>3. OpenPeers' = OpenPeers \cup {p}
    BY DEF Spawn, OpenPeers, HoldsSocket, PoolInv, TypeOK
  <1>4. /\ Tracked \in SUBSET Peer /\ OpenPeers \in SUBSET Tracked
        /\ chosen \in SUBSET Peer /\ p \in chosen /\ MaxOutbound \in Nat
        /\ Cardinality(Tracked) + Cardinality(chosen) <= MaxOutbound
    BY <1>1 DEF Tracked, Spawn, PoolInv, TypeOK, SlotAccounting
  <1>5. /\ Cardinality(chosen) \in Nat /\ Cardinality(chosen \ {p}) \in Nat
        /\ Cardinality(chosen \ {p}) = Cardinality(chosen) - 1
    BY <1>4, PeerCard, PeerCardStep
  <1>6. /\ Cardinality(OpenPeers) \in Nat /\ Cardinality(Tracked) \in Nat
        /\ Cardinality(OpenPeers) <= Cardinality(Tracked)
    BY <1>4, PeerCard
  <1>7. Cardinality(OpenPeers) < MaxOutbound
    BY <1>4, <1>5, <1>6
  <1>8. QED
    BY <1>2, <1>3, <1>7 DEF Pool!Dial, Pool!Cardinality, Cardinality

\* A failed handshake or a returning message loop closes the connection of its
\* peer; the other steps of a task close and open nothing.
LEMMA TaskHangsUp ==
    ASSUME PoolInv, NEW t \in Task, TaskStep(t)
    PROVE  Pool!Hangup(target[t]) \/ UNCHANGED OpenPeers
  <1> USE DEF PoolInv, TypeOK, Stage, HoldsSocket, Step, loopVars
  <1>1. CASE HandshakeErr(t) \/ LoopReturns(t)
    <2>1. \A u \in Task : HoldsSocket(u) /\ target[u] = target[t] => u = t
      BY <1>1, PoolAssumption DEF OwnEntry, InsertFindsNoEntry, HandshakeErr, LoopReturns
    <2>2. target[t] \in OpenPeers
      BY <1>1 DEF OpenPeers, HandshakeErr, LoopReturns
    <2>3. OpenPeers' = OpenPeers \ {target[t]}
      BY <1>1, <2>1 DEF OpenPeers, HandshakeErr, LoopReturns
    <2>4. QED
      BY <2>2, <2>3 DEF Pool!Hangup
  <1>2. CASE HandshakeOk(t) \/ Remove(t) \/ Finish(t)
    BY <1>2 DEF OpenPeers, HandshakeOk, Remove, Finish
  <1>3. QED
    BY <1>1, <1>2 DEF TaskStep

\* outbound_loop, its tasks and housekeeping implement the abstract pool: each
\* step is a Dial, a Hangup or leaves the set of connected peers alone.
THEOREM PoolImplemented == Spec => ImplementsPool
  <1>1. Init => Pool!Init
    BY DEF Init, Pool!Init, OpenPeers, HoldsSocket
  <1>2. PoolInv /\ [Next]_vars => [Pool!Next]_OpenPeers
    <2> SUFFICES ASSUME PoolInv, [Next]_vars PROVE Pool!Next \/ UNCHANGED OpenPeers
      OBVIOUS
    <2>1. ASSUME NEW p \in Peer, NEW t \in Task, Spawn(p, t)
          PROVE  Pool!Next
      BY <2>1, SpawnDials DEF Pool!Next
    <2>2. ASSUME NEW t \in Task, TaskStep(t)
          PROVE  Pool!Next \/ UNCHANGED OpenPeers
      BY <2>2, TaskHangsUp DEF Pool!Next, PoolInv, TypeOK
    <2>3. CASE UNCHANGED taskVars
      BY <2>3 DEF taskVars, OpenPeers, HoldsSocket
    <2>4. QED
      BY <2>1, <2>2, <2>3
      DEF Next, OutboundLoop, Retain, Count, Pick, Choose, Insert, Wake,
          HousekeepingWakes, HousekeepingRetain, Learn, vars
  <1>3. QED
    BY <1>1, <1>2, PoolInvariant, PTL DEF Spec, ImplementsPool, Pool!Spec
=============================================================================
