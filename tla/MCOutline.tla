----------------------------- MODULE MCOutline -----------------------------
(* An instance of Outline small enough for TLC. *)
EXTENDS Outline
============================================================================
