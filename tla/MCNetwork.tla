------------------------------ MODULE MCNetwork -------------------------------
(* Small networks of three nodes. *)
EXTENDS Network

CONSTANTS A, B, C

Nobody == [n \in Node |-> {}]
Itself == [n \in Node |-> {n}]

\* A and C know B, which knows nobody: what A and C are told depends on which of
\* them is answered first.
IntoB == [n \in Node |-> IF n = B THEN {} ELSE {B}]

\* A knows B and B knows C.
Chain == [n \in Node |-> CASE n = A -> {B} [] n = B -> {C} [] OTHER -> {}]

\* Without bans a node may be told its own address and dial it; in the other networks
\* every node bans itself, which keeps the model small.  A fault hits the ends of the
\* chain or B, which is not public and through which A and C have to find each other,
\* or the star with a node that is not public.  In the last network an answer holds
\* one peer besides its sender, so that answers are cut.
MCNetworks ==
    { [public |-> Node, seed |-> IntoB, banned |-> Itself, faults |-> 0, MAX_PEERS_PER_REPLY |-> 3],
      [public |-> Node, seed |-> Chain, banned |-> Itself, faults |-> 0, MAX_PEERS_PER_REPLY |-> 3],
      [public |-> {A, C}, seed |-> Chain, banned |-> Itself, faults |-> 1, MAX_PEERS_PER_REPLY |-> 3],
      [public |-> {A, B}, seed |-> IntoB, banned |-> Nobody, faults |-> 1, MAX_PEERS_PER_REPLY |-> 3],
      [public |-> Node, seed |-> Chain, banned |-> Itself, faults |-> 0, MAX_PEERS_PER_REPLY |-> 1] }
=============================================================================
