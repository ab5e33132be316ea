---------------------------- MODULE MCUDPHandler ----------------------------
(* Instances of UDPHandler small enough for TLC. *)
EXTENDS UDPHandler
============================================================================
