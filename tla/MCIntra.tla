------------------------------ MODULE MCIntra ------------------------------
(* An instance of Intra small enough for TLC. *)
EXTENDS Intra
============================================================================
