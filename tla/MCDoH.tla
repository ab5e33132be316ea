------------------------------- MODULE MCDoH -------------------------------
(* Instances of DoH small enough for TLC. *)
EXTENDS DoH

(* The template's host has two addresses, the redirect's target one.       *)
MCAddr == [h \in {"doh", "cdn"} |-> IF h = "doh" THEN {"a", "b"} ELSE {"c"}]
============================================================================
