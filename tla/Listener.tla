------------------------------- MODULE Listener -------------------------------
(***************************************************************************)
(* The inbound side of a node: listener.rs::start_listening accepts        *)
(* connections and spawns one handler task for each, and the handlers and  *)
(* the accept loop share InboundCounter, whose guards increment it when    *)
(* they are created and decrement it when they are dropped.  The accept    *)
(* loop and the handlers run on several threads.                           *)
(*                                                                         *)
(* start_listening returns on the first error of accept; main unwraps the  *)
(* result, so the runtime is dropped and every task with it.               *)
(***************************************************************************)
EXTENDS Naturals, Sequences, FiniteSets

CONSTANTS
    Conn,          \* identities of TCP connections, reused once a connection is gone
    NoConn,        \* the accept loop holds no connection
    MaxSockets,    \* sockets the operating system lets accept open
    MaxCount       \* usize::MAX

\* A usize can count every socket a process can hold, and one guard more.
ASSUME ListenerAssumption ==
    /\ IsFiniteSet(Conn)
    /\ NoConn \notin Conn
    /\ MaxSockets \in Nat
    /\ MaxCount \in Nat
    /\ Cardinality(Conn) < MaxCount

VARIABLES
    count,      \* the AtomicUsize of InboundCounter
    listener,   \* where start_listening is
    cur,        \* the connection accept returned, until its task is spawned
    stage,      \* how far each connection has come
    backlog,    \* established connections that accept has not returned yet, oldest first
    remote      \* connections whose remote end is still open

vars == <<count, listener, cur, stage, backlog, remote>>

(***************************************************************************)
(* A connection waits in the backlog (queued), is in the hands of the      *)
(* accept loop (accepted), belongs to a task that has not run yet          *)
(* (spawned), is in handshake::inbound, is in run_message_loop (serving),  *)
(* or is closed while the task still holds its guard (closing).            *)
(***************************************************************************)
Stage == {"absent", "queued", "accepted", "spawned", "handshake", "serving", "closing"}

\* A guard is held from the first statement of the task to its end ...
HoldsGuard(c) == stage[c] \in {"handshake", "serving", "closing"}
Handlers == {c \in Conn : HoldsGuard(c)}

\* ... and by the accept loop from accept to the end of the iteration.
OuterGuard == listener \in {"accepted", "spawned"}

Sockets == {c \in Conn : stage[c] \in {"accepted", "spawned", "handshake", "serving"}}

\* fetch_add and fetch_sub wrap around.
Inc(n) == IF n = MaxCount THEN 0 ELSE n + 1
Dec(n) == IF n = 0 THEN MaxCount ELSE n - 1

Init ==
    /\ count = 0
    /\ listener = "accept"
    /\ cur = NoConn
    /\ stage = [c \in Conn |-> "absent"]
    /\ backlog = <<>>
    /\ remote = {}

-----------------------------------------------------------------------------
(* Remote peers *)

\* The kernel completes a connection and queues it.
Connect(c) ==
    /\ listener # "stopped"
    /\ stage[c] = "absent"
    /\ stage' = [stage EXCEPT ![c] = "queued"]
    /\ backlog' = Append(backlog, c)
    /\ remote' = remote \cup {c}
    /\ UNCHANGED <<count, listener, cur>>

\* The remote end closes, at any time.
Leave(c) ==
    /\ c \in remote
    /\ remote' = remote \ {c}
    /\ UNCHANGED <<count, listener, cur, stage, backlog>>

-----------------------------------------------------------------------------
(* start_listening *)

\* accept returns a socket, if a descriptor is left, and the loop enters the counter.
Accept ==
    /\ listener = "accept"
    /\ backlog # <<>>
    /\ stage[Head(backlog)] = "queued"
    /\ Cardinality(Sockets) < MaxSockets
    /\ cur' = Head(backlog)
    /\ backlog' = Tail(backlog)
    /\ stage' = [stage EXCEPT ![Head(backlog)] = "accepted"]
    /\ count' = Inc(count)
    /\ listener' = "accepted"
    /\ UNCHANGED remote

\* accept fails: no descriptor is left, the kernel is short of memory, a connection
\* was aborted while it waited.  Whichever it is, start_listening returns the error
\* and main panics.  The listening socket is closed, and its backlog with it.
AcceptErr ==
    /\ listener = "accept"
    /\ listener' = "stopped"
    /\ backlog' = <<>>
    /\ stage' = [c \in Conn |-> IF stage[c] = "queued" THEN "absent" ELSE stage[c]]
    /\ remote' = {c \in remote : stage[c] # "queued"}
    /\ UNCHANGED <<count, cur>>

\* tokio::spawn moves the socket into the handler task.
Spawn ==
    /\ listener = "accepted"
    /\ stage' = [stage EXCEPT ![cur] = "spawned"]
    /\ cur' = NoConn
    /\ listener' = "spawned"
    /\ UNCHANGED <<count, backlog, remote>>

\* Mutants of EndIteration: the loop's own guard is forgotten, not dropped; the
\* loop awaits the handler before it accepts again.
EndIterationAwaits ==
    /\ listener = "spawned"
    /\ \A c \in Conn : stage[c] \in {"absent", "queued"}
    /\ count' = Dec(count)
    /\ listener' = "accept"
    /\ UNCHANGED <<cur, stage, backlog, remote>>

EndIterationLeaks ==
    /\ listener = "spawned"
    /\ listener' = "accept"
    /\ UNCHANGED <<count, cur, stage, backlog, remote>>

\* The iteration ends and drops the loop's own guard.
EndIteration ==
    /\ listener = "spawned"
    /\ count' = Dec(count)
    /\ listener' = "accept"
    /\ UNCHANGED <<cur, stage, backlog, remote>>

AcceptLoop == Accept \/ AcceptErr \/ Spawn \/ EndIteration

-----------------------------------------------------------------------------
(* The handler tasks *)

\* The task runs for the first time and enters the counter.
Start(c) ==
    /\ stage[c] = "spawned"
    /\ stage' = [stage EXCEPT ![c] = "handshake"]
    /\ count' = Inc(count)
    /\ UNCHANGED <<listener, cur, backlog, remote>>

\* handshake::inbound returns Ok.
HandshakeOk(c) ==
    /\ stage[c] = "handshake"
    /\ stage' = [stage EXCEPT ![c] = "serving"]
    /\ UNCHANGED <<count, listener, cur, backlog, remote>>

\* The handler returns, or is cancelled, and the socket is closed.
Close(c, from) ==
    /\ stage[c] = from
    /\ stage' = [stage EXCEPT ![c] = "closing"]
    /\ remote' = remote \ {c}
    /\ UNCHANGED <<count, listener, cur, backlog>>

\* handshake::inbound fails, at the latest when its timeout elapses.
HandshakeErr(c) == Close(c, "handshake")

\* run_message_loop returns: the remote closed, or a frame was refused.
LoopReturns(c) == Close(c, "serving")

\* Mutant of DropGuard: the guard outlives its task.
DropGuardNever(c) ==
    /\ stage[c] = "closing"
    /\ stage' = [stage EXCEPT ![c] = "absent"]
    /\ UNCHANGED <<count, listener, cur, backlog, remote>>

\* The task ends and drops its guard.
DropGuard(c) ==
    /\ stage[c] = "closing"
    /\ stage' = [stage EXCEPT ![c] = "absent"]
    /\ count' = Dec(count)
    /\ UNCHANGED <<listener, cur, backlog, remote>>

\* The runtime is dropped before the task ran: there is no guard to drop.
CancelUnstarted(c) ==
    /\ listener = "stopped"
    /\ stage[c] = "spawned"
    /\ stage' = [stage EXCEPT ![c] = "absent"]
    /\ remote' = remote \ {c}
    /\ UNCHANGED <<count, listener, cur, backlog>>

Handler(c) ==
    \/ Start(c)
    \/ HandshakeOk(c)
    \/ HandshakeErr(c)
    \/ LoopReturns(c)
    \/ DropGuard(c)
    \/ CancelUnstarted(c)

-----------------------------------------------------------------------------
Next ==
    \/ AcceptLoop
    \/ \E c \in Conn : Connect(c) \/ Leave(c) \/ Handler(c)

(***************************************************************************)
(* The runtime polls ready tasks.  accept answers once a connection waits, *)
(* with a socket or with an error; without one it need not answer.  The    *)
(* handshake ends by itself, since its read has a timeout;                 *)
(* run_message_loop has none and is only known to return once the remote   *)
(* end is closed or the runtime is dropped.                                *)
(***************************************************************************)
Fairness ==
    /\ WF_vars((backlog # <<>> /\ (Accept \/ AcceptErr)) \/ Spawn \/ EndIteration)
    /\ \A c \in Conn :
          /\ WF_vars(Start(c) \/ CancelUnstarted(c))
          /\ WF_vars(HandshakeOk(c) \/ HandshakeErr(c))
          /\ WF_vars((c \notin remote \/ listener = "stopped") /\ LoopReturns(c))
          /\ WF_vars(DropGuard(c))

Spec == Init /\ [][Next]_vars

FairSpec == Spec /\ Fairness

-----------------------------------------------------------------------------
(* Properties *)

\* Type correctness; the accept loop holds a connection exactly between accept
\* and spawn.
TypeOK ==
    /\ count \in 0..MaxCount
    /\ listener \in {"accept", "accepted", "spawned", "stopped"}
    /\ cur \in Conn \cup {NoConn}
    /\ stage \in [Conn -> Stage]
    /\ backlog \in Seq(Conn)
    /\ remote \in SUBSET Conn
    /\ listener = "accepted" <=> cur # NoConn
    /\ \A c \in Conn : c = cur => stage[c] = "accepted"

\* The counter is the number of live guards: no increment is lost or made
\* twice and no decrement takes it below zero, in whatever order handlers start,
\* end and are cancelled (connection.rs:39, 54; listener.rs:24, 32).
ListenerInv ==
    /\ TypeOK
    /\ count = Cardinality(Handlers) + (IF OuterGuard THEN 1 ELSE 0)

\* Once every remote end is closed, for good, the counter returns to 0, also
\* when the accept loop has failed ("Le compteur doit retomber a 0",
\* net/tests.rs:589).
CounterDrains == <>[](remote = {}) => <>[](count = 0)

\* As long as accept does not fail, every connection the kernel completes gets a
\* handler: neither long-lived handlers nor later connections keep it waiting
\* (listener.rs:31).
BacklogIsServed ==
    [](listener # "stopped") => \A c \in Conn : stage[c] = "queued" ~> stage[c] = "handshake"

\* listener.rs:10, "Listens on `0.0.0.0:port`, accepts connections forever": every
\* connection the kernel completes gets a handler, whatever accept answers.
AcceptsForever == \A c \in Conn : stage[c] = "queued" ~> stage[c] = "handshake"

\* net/tests.rs:582, "inbound connexion should be 1", in a test named
\* inbound_counter_counts_active_connections: when every connection there is
\* has finished its handshake, the counter equals their number.
CounterCountsActive ==
    (\A c \in Conn : stage[c] \in {"absent", "serving"})
        => count = Cardinality({c \in Conn : stage[c] = "serving"})
=============================================================================
