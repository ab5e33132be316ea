----------------------------- MODULE IPMapSpec -----------------------------
(***************************************************************************)
(* What intra/doh/ipmap promises: one set of addresses per hostname, each  *)
(* with at most one confirmed address, and operations that take effect at  *)
(* one instant each.                                                       *)
(***************************************************************************)
CONSTANTS Hosts, IPs, None

VARIABLE sets      \* the IPSet that Get returns for each host, None before

IPSets == {s \in [ips : SUBSET IPs, confirmed : IPs \cup {None}] :
             s.confirmed \in s.ips \cup {None}}

Init == sets = [h \in Hosts |-> None]

Created(h) == sets[h] # None

(* The first Get resolves the name; a failed lookup leaves the set empty.  *)
Get(h, resolved) ==
  /\ ~Created(h)
  /\ sets' = [sets EXCEPT ![h] = [ips |-> resolved, confirmed |-> None]]

Add(h, resolved) ==
  /\ Created(h)
  /\ sets' = [sets EXCEPT ![h].ips = @ \cup resolved]

Confirm(h, ip) ==
  /\ Created(h)
  /\ sets' = [sets EXCEPT ![h] = [ips |-> @.ips \cup {ip}, confirmed |-> ip]]

Disconfirm_Unconditional(h, ip) ==
  /\ Created(h)
  /\ sets' = [sets EXCEPT ![h].confirmed = None]

Disconfirm(h, ip) ==
  /\ Created(h)
  /\ sets' = [sets EXCEPT ![h].confirmed = IF @ = ip THEN None ELSE @]

Next == \E h \in Hosts :
          \/ \E r \in SUBSET IPs : Get(h, r) \/ Add(h, r)
          \/ \E ip \in IPs : Confirm(h, ip) \/ Disconfirm(h, ip)

Spec == Init /\ [][Next]_sets
============================================================================
