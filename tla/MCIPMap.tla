------------------------------ MODULE MCIPMap ------------------------------
(* Instances of IPMap small enough for TLC. *)
EXTENDS IPMap
============================================================================
