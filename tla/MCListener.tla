------------------------------ MODULE MCListener ------------------------------
(* Small instances of Listener: the values are in the configurations. *)
EXTENDS Listener
=============================================================================
