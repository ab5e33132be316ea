----------------------------- MODULE MCDesktop -----------------------------
(* The desktop client with the real number of attempts. *)
EXTENDS Desktop
============================================================================
