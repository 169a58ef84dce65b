---------------------------- MODULE MCOutboundPool ----------------------------
(* Small instances of OutboundPool. *)
EXTENDS OutboundPool, TLC

\* Peers and tasks are interchangeable in the safety runs.
PoolSymmetry == Permutations(Peer) \cup Permutations(Task)
=============================================================================
