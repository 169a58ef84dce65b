---------------------------- MODULE ListenerProofs ----------------------------
(***************************************************************************)
(* Proofs about Listener, for any finite set of connections and any width  *)
(* of the counter that can count them: the counter is the number of live   *)
(* guards.                                                                 *)
(***************************************************************************)
EXTENDS Listener, FiniteSetTheorems, TLAPS

\* The set of handlers is finite, and no larger than the set of connections.
LEMMA HandlersFinite ==
    /\ IsFiniteSet(Handlers)
    /\ Cardinality(Handlers) \in Nat
    /\ Cardinality(Handlers) < MaxCount
    /\ MaxCount \in Nat
  <1>1. Handlers \subseteq Conn
    BY DEF Handlers
  <1>2. /\ IsFiniteSet(Handlers) /\ Cardinality(Handlers) \in Nat /\ Cardinality(Conn) \in Nat
        /\ Cardinality(Handlers) <= Cardinality(Conn)
    BY <1>1, ListenerAssumption, FS_Subset, FS_CardinalityType
  <1>3. QED
    BY <1>2, ListenerAssumption

\* Adding a connection to the handlers, or taking one out.
LEMMA HandlersCard ==
    ASSUME NEW c \in Conn
    PROVE  /\ c \notin Handlers => Cardinality(Handlers \cup {c}) = Cardinality(Handlers) + 1
           /\ c \in Handlers => /\ Cardinality(Handlers \ {c}) = Cardinality(Handlers) - 1
                                /\ Cardinality(Handlers) >= 1
  <1>1. c \notin Handlers => Cardinality(Handlers \cup {c}) = Cardinality(Handlers) + 1
    BY HandlersFinite, FS_AddElement
  <1>2. /\ IsFiniteSet(Handlers \ {c})
        /\ Cardinality(Handlers \ {c})
             = IF c \in Handlers THEN Cardinality(Handlers) - 1 ELSE Cardinality(Handlers)
    BY HandlersFinite, FS_RemoveElement
  <1>3. Cardinality(Handlers \ {c}) \in Nat
    BY <1>2, FS_CardinalityType
  <1>4. QED
    BY <1>1, <1>2, <1>3, HandlersFinite

\* A step that neither creates nor drops a guard.
LEMMA SameGuards ==
    ASSUME ListenerInv, TypeOK', count' = count, Handlers' = Handlers,
           OuterGuard' = OuterGuard
    PROVE  ListenerInv'
  BY DEF ListenerInv

\* The accept loop takes its guard with the connection and drops it after the spawn.
LEMMA AcceptLoopStep ==
    ASSUME ListenerInv, AcceptLoop
    PROVE  ListenerInv'
  <1> USE ListenerAssumption DEF ListenerInv, TypeOK, Stage
  <1>1. CASE Accept
    <2> DEFINE c == Head(backlog)
    <2>1. c \in Conn /\ Tail(backlog) \in Seq(Conn) /\ c # NoConn
      BY <1>1 DEF Accept
    <2>2. Handlers' = Handlers
      BY <1>1, <2>1 DEF Accept, Handlers, HoldsGuard
    <2>3. count' = Cardinality(Handlers) + 1 /\ count' \in 0..MaxCount
      BY <1>1, HandlersFinite DEF Accept, OuterGuard, Inc
    <2>4. TypeOK'
      BY <1>1, <2>1, <2>3 DEF Accept
    <2>5. QED
      BY <1>1, <2>2, <2>3, <2>4 DEF Accept, OuterGuard
  <1>2. CASE AcceptErr
    <2>1. Handlers' = Handlers
      BY <1>2 DEF AcceptErr, Handlers, HoldsGuard
    <2>2. TypeOK'
      BY <1>2 DEF AcceptErr
    <2>3. QED
      BY <1>2, <2>1, <2>2, SameGuards DEF AcceptErr, OuterGuard
  <1>3. CASE Spawn
    <2>1. cur \in Conn /\ stage[cur] = "accepted"
      BY <1>3 DEF Spawn
    <2>2. Handlers' = Handlers
      BY <1>3, <2>1 DEF Spawn, Handlers, HoldsGuard
    <2>3. TypeOK'
      BY <1>3, <2>1 DEF Spawn
    <2>4. QED
      BY <1>3, <2>2, <2>3, SameGuards DEF Spawn, OuterGuard
  <1>4. CASE EndIteration
    <2>1. Handlers' = Handlers
      BY <1>4 DEF EndIteration, Handlers, HoldsGuard
    <2>2. count' = Cardinality(Handlers) /\ count' \in 0..MaxCount
      BY <1>4, HandlersFinite DEF EndIteration, OuterGuard, Dec
    <2>3. TypeOK'
      BY <1>4, <2>2 DEF EndIteration
    <2>4. QED
      BY <1>4, <2>1, <2>2, <2>3 DEF EndIteration, OuterGuard
  <1>5. QED
    BY <1>1, <1>2, <1>3, <1>4 DEF AcceptLoop

\* A handler takes its guard when it first runs and drops it when it ends.
LEMMA HandlerStep ==
    ASSUME ListenerInv, NEW c \in Conn, Handler(c)
    PROVE  ListenerInv'
  <1> USE ListenerAssumption DEF ListenerInv, TypeOK, Stage
  <1>1. CASE Start(c)
    <2>1. c \notin Handlers /\ Handlers' = Handlers \cup {c}
      BY <1>1 DEF Start, Handlers, HoldsGuard
    <2>2. /\ Cardinality(Handlers') = Cardinality(Handlers) + 1
          /\ Cardinality(Handlers') < MaxCount
      <3>1. Cardinality(Handlers') = Cardinality(Handlers) + 1
        BY <2>1, HandlersCard
      <3>2. Handlers' \subseteq Conn
        BY DEF Handlers
      <3>3. Cardinality(Handlers') <= Cardinality(Conn) /\ Cardinality(Conn) \in Nat
        BY <3>2, FS_Subset, FS_CardinalityType
      <3>4. QED
        BY <3>1, <3>3, HandlersFinite
    <2>3. OuterGuard' = OuterGuard
      BY <1>1 DEF Start, OuterGuard
    <2>4. /\ count' = Cardinality(Handlers') + (IF OuterGuard' THEN 1 ELSE 0)
          /\ count' \in 0..MaxCount
      BY <1>1, <2>2, <2>3, HandlersFinite DEF Start, Inc
    <2>5. TypeOK'
      BY <1>1, <2>4 DEF Start
    <2>6. QED
      BY <2>4, <2>5
  <1>2. CASE HandshakeOk(c) \/ HandshakeErr(c) \/ LoopReturns(c) \/ CancelUnstarted(c)
    <2> USE <1>2 DEF HandshakeOk, HandshakeErr, LoopReturns, Close, CancelUnstarted
    <2>1. Handlers' = Handlers
      BY DEF Handlers, HoldsGuard
    <2>2. TypeOK'
      OBVIOUS
    <2>3. QED
      BY <2>1, <2>2, SameGuards DEF OuterGuard
  <1>3. CASE DropGuard(c)
    <2>1. c \in Handlers /\ Handlers' = Handlers \ {c}
      BY <1>3 DEF DropGuard, Handlers, HoldsGuard
    <2>2. /\ Cardinality(Handlers') = Cardinality(Handlers) - 1
          /\ Cardinality(Handlers) >= 1
      BY <2>1, HandlersCard
    <2>3. OuterGuard' = OuterGuard
      BY <1>3 DEF DropGuard, OuterGuard
    <2>4. /\ count' = Cardinality(Handlers') + (IF OuterGuard' THEN 1 ELSE 0)
          /\ count' \in 0..MaxCount
      BY <1>3, <2>2, <2>3, HandlersFinite DEF DropGuard, Dec
    <2>5. TypeOK'
      BY <1>3, <2>4 DEF DropGuard
    <2>6. QED
      BY <2>4, <2>5
  <1>4. QED
    BY <1>1, <1>2, <1>3 DEF Handler

\* InboundCounter is always the number of live guards, whatever the accept
\* loop, the handlers and the remote peers do and in whatever order.
THEOREM CounterIsGuards == Spec => []ListenerInv
  <1>1. Init => ListenerInv
    <2> SUFFICES ASSUME Init PROVE ListenerInv
      OBVIOUS
    <2>1. Handlers = {}
      BY DEF Init, Handlers, HoldsGuard
    <2>2. Cardinality(Handlers) = 0
      BY <2>1, FS_EmptySet
    <2>3. QED
      BY <2>2, ListenerAssumption DEF Init, ListenerInv, TypeOK, Stage, OuterGuard
  <1>2. ListenerInv /\ [Next]_vars => ListenerInv'
    <2> SUFFICES ASSUME ListenerInv, [Next]_vars PROVE ListenerInv'
      OBVIOUS
    <2>1. ASSUME NEW c \in Conn, Connect(c) \/ Leave(c)
          PROVE  ListenerInv'
      <3>1. Handlers' = Handlers
        BY <2>1 DEF Connect, Leave, Handlers, HoldsGuard, ListenerInv, TypeOK
      <3>2. TypeOK'
        <4>1. TypeOK
          BY DEF ListenerInv
        <4>2. CASE Connect(c)
          BY <4>1, <4>2 DEF Connect, TypeOK, Stage
        <4>3. CASE Leave(c)
          BY <4>1, <4>3 DEF Leave, TypeOK, Stage
        <4>4. QED
          BY <2>1, <4>2, <4>3
      <3>3. QED
        BY <2>1, <3>1, <3>2, SameGuards DEF Connect, Leave, OuterGuard
    <2>2. CASE UNCHANGED vars
      BY <2>2, SameGuards DEF vars, ListenerInv, TypeOK, Handlers, HoldsGuard, OuterGuard
    <2>3. QED
      BY <2>1, <2>2, AcceptLoopStep, HandlerStep DEF Next
  <1>3. QED
    BY <1>1, <1>2, PTL DEF Spec
=============================================================================
