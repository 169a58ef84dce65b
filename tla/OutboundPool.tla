----------------------------- MODULE OutboundPool -----------------------------
(***************************************************************************)
(* The outbound side of a node: client.rs::outbound_loop dials peers and   *)
(* tracks one task handle per peer in the shared map outbound_connections, *)
(* every dialled connection runs as a task of its own, and housekeeping.rs *)
(* prunes the same map from a third task.  The three run on tokio's        *)
(* multi-threaded runtime (#[tokio::main]), so their steps interleave.     *)
(*                                                                         *)
(* Both maps are DashMaps: retain, len and iter visit the shards one after *)
(* the other, and only a visit is atomic.  A shard is modelled by a single *)
(* key, the finest case; the order in which shards are visited is left     *)
(* open.                                                                   *)
(***************************************************************************)
EXTENDS Naturals, FiniteSets

CONSTANTS
    Peer,         \* the peer addresses the node may ever learn
    Task,         \* identities of spawned tasks, reused once a task is finished and its handle dropped
    NoTask,       \* no handle
    MaxOutbound   \* config.max_outbound_connection

ASSUME PoolAssumption ==
    /\ IsFiniteSet(Peer) /\ Peer # {}
    /\ NoTask \notin Task
    /\ MaxOutbound \in Nat

VARIABLES
    known,      \* keys of peers_map; only ever grows
    conn,       \* outbound_connections: the handle stored for a peer, or NoTask
    stage,      \* how far each task has come
    target,     \* peer_for_task of each task
    phase,      \* where outbound_loop is
    unseen,     \* shards the running retain, len or iter has still to visit
    active,     \* outbound_loop's local `active`
    chosen,     \* outbound_loop's local `candidates`
    fresh,      \* handle returned by tokio::spawn and not yet inserted
    hkUnseen    \* shards housekeeping's retain has still to visit; {} while it sleeps

loopVars == <<phase, unseen, active, chosen, fresh>>
taskVars == <<stage, target>>
vars == <<known, conn, taskVars, loopVars, hkUnseen>>

(***************************************************************************)
(* A task is dialing in handshake::outbound, then serving in               *)
(* run_message_loop.  Once either has returned the socket is closed: a     *)
(* serving task is leaving until it has removed its peer from the map, and *)
(* ending until its future completes, when JoinHandle::is_finished answers *)
(* true.                                                                   *)
(***************************************************************************)
Stage == {"dialing", "serving", "leaving", "ending", "finished"}

Phase == {"retain", "count", "pick", "choose", "spawn", "insert", "sleep"}

HoldsSocket(t) == stage[t] \in {"dialing", "serving"}

\* Peers that have an entry in outbound_connections.
Tracked == {p \in Peer : conn[p] # NoTask}

\* Mutants of Pruned: the test on is_finished inverted, or left out.
PrunedKeepsFinished(p) ==
    IF conn[p] # NoTask /\ stage[conn[p]] # "finished"
    THEN [conn EXCEPT ![p] = NoTask]
    ELSE conn

PrunedNothing(p) == conn

\* The closure of both retain calls, applied to the shard of p.
Pruned(p) ==
    IF conn[p] # NoTask /\ stage[conn[p]] = "finished"
    THEN [conn EXCEPT ![p] = NoTask]
    ELSE conn

Init ==
    /\ known \in SUBSET Peer \ {{}}
    /\ conn = [p \in Peer |-> NoTask]
    /\ stage = [t \in Task |-> "finished"]
    /\ \E p \in Peer : target = [t \in Task |-> p]
    /\ phase = "retain"
    /\ unseen = Peer
    /\ active = 0
    /\ chosen = {}
    /\ fresh = NoTask
    /\ hkUnseen = {}

-----------------------------------------------------------------------------
(* outbound_loop *)

\* One shard visit of the current sweep; after the last one the loop is in `next`.
Visit(p, next) ==
    /\ p \in unseen
    /\ unseen' = IF unseen = {p} THEN Peer ELSE unseen \ {p}
    /\ phase' = IF unseen = {p} THEN next ELSE phase

\* outbound_connections.retain(|_, handle| !handle.is_finished())
Retain(p) ==
    /\ phase = "retain"
    /\ Visit(p, "count")
    /\ conn' = Pruned(p)
    /\ UNCHANGED <<known, taskVars, active, chosen, fresh, hkUnseen>>

\* Mutants of Count: vacant shards subtracted, and a limit that is off by one.
CountSubtracts(p) ==
    /\ phase = "count"
    /\ active' = IF p \in Tracked THEN active + 1 ELSE active - 1
    /\ Visit(p, IF active' < MaxOutbound THEN "pick" ELSE "sleep")
    /\ UNCHANGED <<known, conn, taskVars, chosen, fresh, hkUnseen>>

CountStopsEarly(p) ==
    /\ phase = "count"
    /\ active' = active + (IF p \in Tracked THEN 1 ELSE 0)
    /\ Visit(p, IF active' + 1 < MaxOutbound THEN "pick" ELSE "sleep")
    /\ UNCHANGED <<known, conn, taskVars, chosen, fresh, hkUnseen>>

\* let active = outbound_connections.len(); the test against the limit follows
\* the last shard.
Count(p) ==
    /\ phase = "count"
    /\ active' = active + (IF p \in Tracked THEN 1 ELSE 0)
    /\ Visit(p, IF active' < MaxOutbound THEN "pick" ELSE "sleep")
    /\ UNCHANGED <<known, conn, taskVars, chosen, fresh, hkUnseen>>

\* Mutant of Pick: the filter on outbound_connections is missing.
PickUnfiltered(p) ==
    /\ phase = "pick"
    /\ Visit(p, "choose")
    /\ chosen' = IF p \in known THEN chosen \cup {p} ELSE chosen
    /\ UNCHANGED <<known, conn, taskVars, active, fresh, hkUnseen>>

\* peers_map.iter() filtered by !outbound_connections.contains_key(p)
Pick(p) ==
    /\ phase = "pick"
    /\ Visit(p, "choose")
    /\ chosen' = IF p \in known /\ p \notin Tracked THEN chosen \cup {p} ELSE chosen
    /\ UNCHANGED <<known, conn, taskVars, active, fresh, hkUnseen>>

\* Mutant of Choose: one candidate too many.
ChooseOneMore ==
    /\ phase = "choose"
    /\ \E S \in SUBSET chosen :
          /\ Cardinality(S) <= MaxOutbound - active + 1
          /\ S = chosen \/ Cardinality(S) = MaxOutbound - active + 1
          /\ chosen' = S
          /\ phase' = IF S = {} THEN "sleep" ELSE "spawn"
    /\ UNCHANGED <<known, conn, taskVars, unseen, active, fresh, hkUnseen>>

\* choose_multiple(rng, to_spawn): that many of them, or all if there are fewer.
Choose ==
    /\ phase = "choose"
    /\ \E S \in SUBSET chosen :
          /\ Cardinality(S) <= MaxOutbound - active
          /\ S = chosen \/ Cardinality(S) = MaxOutbound - active
          /\ chosen' = S
          /\ phase' = IF S = {} THEN "sleep" ELSE "spawn"
    /\ UNCHANGED <<known, conn, taskVars, unseen, active, fresh, hkUnseen>>

\* Mutant of Spawn: the candidate is not consumed.
SpawnKeepsCandidate(p, t) ==
    /\ phase = "spawn"
    /\ p \in chosen
    /\ stage[t] = "finished"
    /\ \A q \in Peer : conn[q] # t
    /\ stage' = [stage EXCEPT ![t] = "dialing"]
    /\ target' = [target EXCEPT ![t] = p]
    /\ fresh' = t
    /\ phase' = "insert"
    /\ UNCHANGED <<known, conn, unseen, active, chosen, hkUnseen>>

\* tokio::spawn: the task may run, and even finish, before its handle is in the map.
Spawn(p, t) ==
    /\ phase = "spawn"
    /\ p \in chosen
    /\ stage[t] = "finished"
    /\ \A q \in Peer : conn[q] # t
    /\ stage' = [stage EXCEPT ![t] = "dialing"]
    /\ target' = [target EXCEPT ![t] = p]
    /\ chosen' = chosen \ {p}
    /\ fresh' = t
    /\ phase' = "insert"
    /\ UNCHANGED <<known, conn, unseen, active, hkUnseen>>

\* outbound_connections.insert(peer, handle)
Insert ==
    /\ phase = "insert"
    /\ conn' = [conn EXCEPT ![target[fresh]] = fresh]
    /\ fresh' = NoTask
    /\ phase' = IF chosen = {} THEN "sleep" ELSE "spawn"
    /\ UNCHANGED <<known, taskVars, unseen, active, chosen, hkUnseen>>

\* sleep(service_loop_delay) elapses and the next iteration starts.
Wake ==
    /\ phase = "sleep"
    /\ phase' = "retain"
    /\ unseen' = Peer
    /\ active' = 0
    /\ chosen' = {}
    /\ UNCHANGED <<known, conn, taskVars, fresh, hkUnseen>>

OutboundLoop ==
    \/ \E p \in Peer : Retain(p) \/ Count(p) \/ Pick(p)
    \/ Choose
    \/ \E p \in Peer, t \in Task : Spawn(p, t)
    \/ Insert
    \/ Wake

-----------------------------------------------------------------------------
(* The spawned tasks *)

Step(t, from, to) ==
    /\ stage[t] = from
    /\ stage' = [stage EXCEPT ![t] = to]
    /\ UNCHANGED <<known, target, loopVars, hkUnseen>>

\* handshake::outbound returns Ok and run_message_loop starts.
HandshakeOk(t) == Step(t, "dialing", "serving") /\ UNCHANGED conn

\* handshake::outbound returns Err: the task returns without touching the map.
HandshakeErr(t) == Step(t, "dialing", "ending") /\ UNCHANGED conn

\* run_message_loop returns, Ok or Err; reader and writer are dropped.
LoopReturns(t) == Step(t, "serving", "leaving") /\ UNCHANGED conn

\* oc_for_task.remove(&peer_for_task): whatever handle is stored for the peer.
Remove(t) ==
    /\ Step(t, "leaving", "ending")
    /\ conn' = [conn EXCEPT ![target[t]] = NoTask]

\* The future completes.
Finish(t) == Step(t, "ending", "finished") /\ UNCHANGED conn

TaskStep(t) ==
    \/ HandshakeOk(t)
    \/ HandshakeErr(t)
    \/ LoopReturns(t)
    \/ Remove(t)
    \/ Finish(t)

-----------------------------------------------------------------------------
(* housekeeping_loop, and the imports of the sessions *)

HousekeepingWakes ==
    /\ hkUnseen = {}
    /\ hkUnseen' = Peer
    /\ UNCHANGED <<known, conn, taskVars, loopVars>>

HousekeepingRetain(p) ==
    /\ p \in hkUnseen
    /\ conn' = Pruned(p)
    /\ hkUnseen' = hkUnseen \ {p}
    /\ UNCHANGED <<known, taskVars, loopVars>>

\* Some session imports p: append_peer inserts it into peers_map.
Learn(p) ==
    /\ p \notin known
    /\ known' = known \cup {p}
    /\ UNCHANGED <<conn, taskVars, loopVars, hkUnseen>>

-----------------------------------------------------------------------------
Next ==
    \/ OutboundLoop
    \/ \E t \in Task : TaskStep(t)
    \/ HousekeepingWakes
    \/ \E p \in Peer : HousekeepingRetain(p) \/ Learn(p)

(***************************************************************************)
(* The runtime polls every ready task, so the two loops and the last       *)
(* statements of a task keep going.  Nothing forces a handshake or a       *)
(* message loop to return: message loops wait for the remote peer without  *)
(* a timeout.                                                              *)
(***************************************************************************)
Fairness ==
    /\ WF_vars(OutboundLoop)
    /\ WF_vars(HousekeepingWakes \/ \E p \in Peer : HousekeepingRetain(p))
    /\ \A t \in Task : WF_vars(Remove(t) \/ Finish(t))

Spec == Init /\ [][Next]_vars

FairSpec == Spec /\ Fairness

-----------------------------------------------------------------------------
(* Properties *)

\* Type correctness of the maps, the tasks and the locals of the two loops.
TypeOK ==
    /\ known \in SUBSET Peer
    /\ conn \in [Peer -> Task \cup {NoTask}]
    /\ stage \in [Task -> Stage]
    /\ target \in [Task -> Peer]
    /\ phase \in Phase
    /\ unseen \in SUBSET Peer
    /\ active \in Nat
    /\ chosen \in SUBSET Peer
    /\ fresh \in Task \cup {NoTask}
    /\ hkUnseen \in SUBSET Peer

\* Peers some task is dialing or serving.
OpenPeers == {target[t] : t \in {u \in Task : HoldsSocket(u)}}

\* The node never has more outbound connections open than
\* max_outbound_connection, although `active` is a sum read shard by shard
\* while tasks remove themselves and housekeeping prunes, and the spawns that
\* follow rely on it (client.rs:21-33).
ConnectionsWithinLimit == Cardinality(OpenPeers) <= MaxOutbound

\* No two tasks hold a connection to the same peer, although a peer becomes
\* eligible again as soon as its old task has removed the entry
\* (client.rs:30, 72).
OneTaskPerPeer ==
    \A t, u \in Task : HoldsSocket(t) /\ HoldsSocket(u) /\ target[t] = target[u] => t = u

\* Every open connection can be found through its own handle in the map,
\* except between tokio::spawn and the insert (client.rs:42-75): neither the
\* unconditional remove of another task nor a retain takes it out, and no
\* insert replaces it.
OpenIsTracked ==
    \A t \in Task : HoldsSocket(t) => t = fresh \/ conn[target[t]] = t

\* A peer for which a new task is spawned has no entry, so the insert never
\* drops a handle: the filter on the map (client.rs:30) was evaluated long
\* before (client.rs:75).
InsertFindsNoEntry == fresh # NoTask => conn[target[fresh]] = NoTask

Pool == INSTANCE ConnectionPool WITH Limit <- MaxOutbound, open <- OpenPeers

\* The loop, the tasks and housekeeping together implement the abstract pool:
\* every step opens one connection in a free slot, closes one, or leaves the
\* set of connected peers alone (client.rs, housekeeping.rs).
ImplementsPool == Pool!Spec

\* A slot is free and a known peer is not connected.
CanGrow == Cardinality(Tracked) < MaxOutbound /\ \E p \in known : p \notin Tracked

\* A free slot and an unconnected known peer make outbound_loop spawn a task,
\* however tasks come and go meanwhile.
FreeSlotIsUsed == CanGrow ~> fresh # NoTask

\* The handle of a finished task does not stay in the map: one that left
\* without removing itself (client.rs:54), or whose handle was inserted after
\* it had already finished (client.rs:75).
FinishedIsPruned ==
    \A p \in Peer :
        (conn[p] # NoTask /\ stage[conn[p]] = "finished")
            ~> (conn[p] = NoTask \/ stage[conn[p]] # "finished")

-----------------------------------------------------------------------------
(***************************************************************************)
(* The inductive invariant behind the safety properties.                   *)
(***************************************************************************)

\* A task that may still remove its peer's entry owns that entry.
OwnEntry ==
    \A t \in Task :
        stage[t] \in {"dialing", "serving", "leaving"} => t = fresh \/ conn[target[t]] = t

\* A handle is stored under the peer its task was spawned for.
HandleUnderItsPeer == \A p \in Peer : conn[p] # NoTask => target[conn[p]] = p

\* Candidates stay without an entry until their own insert.
ChosenUntracked ==
    /\ chosen \cap Tracked = {}
    /\ fresh # NoTask => target[fresh] \notin chosen

\* What the loop knows about the size of the map in each of its phases.
SlotAccounting ==
    /\ Cardinality(Tracked) <= MaxOutbound
    /\ phase = "retain" => active = 0
    /\ phase \in {"retain", "count"} => chosen = {}
    /\ phase = "count" => Cardinality(Tracked \ unseen) <= active
    /\ phase \in {"pick", "choose"} => Cardinality(Tracked) <= active /\ active < MaxOutbound
    /\ phase = "spawn" => Cardinality(Tracked) + Cardinality(chosen) <= MaxOutbound
    /\ phase = "insert" => Cardinality(Tracked) + Cardinality(chosen) < MaxOutbound

PoolInv ==
    /\ TypeOK
    /\ fresh # NoTask <=> phase = "insert"
    /\ OwnEntry
    /\ HandleUnderItsPeer
    /\ InsertFindsNoEntry
    /\ ChosenUntracked
    /\ SlotAccounting
=============================================================================
