----------------------------- MODULE MCRetrier -----------------------------
(* Instances of Retrier small enough for TLC. *)
EXTENDS Retrier
============================================================================
