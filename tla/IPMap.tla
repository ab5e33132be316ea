------------------------------- MODULE IPMap -------------------------------
(***************************************************************************)
(* intra/doh/ipmap/ipmap.go: a map from hostnames to IPSets, used by many  *)
(* goroutines.  Get looks under the read lock, resolves the name with no   *)
(* lock held, and publishes its set under the write lock; Confirm tests    *)
(* under the set's read lock before it takes the write lock.               *)
(*                                                                         *)
(* Each goroutine makes MaxCalls calls.  <<p, h>> names the IPSet that     *)
(* goroutine p allocates for host h: it does so at most once, since after  *)
(* that h is in the map.                                                   *)
(***************************************************************************)
EXTENDS Naturals, Sequences, SequencesExt

CONSTANTS Hosts, IPs, Procs, None,
          MaxCalls,      \* bound: calls per goroutine
          MaxAnswers     \* bound: addresses that a lookup returns

ASSUME IPMapAssumption ==
  /\ MaxCalls \in Nat /\ MaxAnswers \in Nat
  /\ Hosts # {} /\ IPs # {}
  /\ None \notin IPs /\ None \notin Procs \X Hosts
  /\ None \notin [ips : SUBSET IPs, confirmed : IPs \cup {None}]

VARIABLES
  m,       \* ipMap.m: host to IPSet
  store,   \* the allocated IPSets: the slice ips and confirmed
  pc,      \* program counters
  arg,     \* the call in progress: host, ip, and the local variable s
  calls    \* calls made by each goroutine

vars == <<m, store, pc, arg, calls>>

Objects == Procs \X Hosts

TypeOK ==
  /\ m \in [Hosts -> Objects \cup {None}]
  /\ store \in [Objects -> [ips : Seq(IPs), confirmed : IPs \cup {None}]]
  /\ pc \in [Procs -> {"idle", "resolve", "publish", "ready", "confirm"}]
  /\ arg \in [Procs -> [host : Hosts, ip : IPs, s : Objects \cup {None}]]
  /\ \A p \in Procs : pc[p] \in {"publish", "ready", "confirm"} => arg[p].s # None
  /\ calls \in [Procs -> 0..MaxCalls]

Init ==
  /\ m = [h \in Hosts |-> None]
  /\ store = [o \in Objects |-> [ips |-> << >>, confirmed |-> None]]
  /\ pc = [p \in Procs |-> "idle"]
  /\ arg = [p \in Procs |-> [host |-> CHOOSE h \in Hosts : TRUE,
                             ip |-> CHOOSE i \in IPs : TRUE, s |-> None]]
  /\ calls = [p \in Procs |-> 0]

Goto(p, to) == pc' = [pc EXCEPT ![p] = to]

----------------------------------------------------------------------------
(* ipMap.Get: the lookup under RLock.                                      *)
GetLookup_NoNilCheck(p, h) ==
  /\ pc[p] = "idle"
  /\ calls[p] < MaxCalls
  /\ calls' = [calls EXCEPT ![p] = @ + 1]
  /\ arg' = [arg EXCEPT ![p].host = h, ![p].s = m[h]]
  /\ Goto(p, "ready")
  /\ UNCHANGED <<m, store>>

GetLookup(p, h) ==
  /\ pc[p] = "idle"
  /\ calls[p] < MaxCalls
  /\ calls' = [calls EXCEPT ![p] = @ + 1]
  /\ arg' = [arg EXCEPT ![p].host = h, ![p].s = m[h]]
  /\ Goto(p, IF m[h] = None THEN "resolve" ELSE "ready")
  /\ UNCHANGED <<m, store>>

(* IPSet.add: append the address unless has(ip).                           *)
add_Unconditional(ips, ip) == Append(ips, ip)

add(ips, ip) == IF ip \in ToSet(ips) THEN ips ELSE Append(ips, ip)

(* The addresses a lookup returns, in some order; none if it fails.        *)
Resolved == SeqOf(IPs, MaxAnswers)

(* Add's loop over them; ips after k rounds is run[k].                     *)
addAll(ips, resolved) ==
  LET run[k \in 0..Len(resolved)] == IF k = 0 THEN ips ELSE add(run[k - 1], resolved[k])
  IN  run[Len(resolved)]

(* Get builds its own IPSet, with no lock held.                            *)
GetResolve(p) ==
  /\ pc[p] = "resolve"
  /\ \E r \in Resolved :
       LET s == <<p, arg[p].host>>
       IN  /\ store' = [store EXCEPT ![s].ips = addAll(@, r)]
           /\ arg' = [arg EXCEPT ![p].s = s]
  /\ Goto(p, "publish")
  /\ UNCHANGED <<m, calls>>

(* Get's last step, under the write lock: the first set to arrive wins.    *)
GetPublish_Overwrites(p) ==
  /\ pc[p] = "publish"
  /\ m' = [m EXCEPT ![arg[p].host] = arg[p].s]
  /\ Goto(p, "ready")
  /\ UNCHANGED <<store, arg, calls>>

GetPublish(p) ==
  /\ pc[p] = "publish"
  /\ LET h == arg[p].host
     IN  IF m[h] = None
         THEN m' = [m EXCEPT ![h] = arg[p].s] /\ UNCHANGED arg
         ELSE arg' = [arg EXCEPT ![p].s = m[h]] /\ UNCHANGED m
  /\ Goto(p, "ready")
  /\ UNCHANGED <<store, calls>>

----------------------------------------------------------------------------
(* The caller has the set s: it drops it, or calls one of its methods.     *)
Drop(p) ==
  /\ pc[p] = "ready"
  /\ Goto(p, "idle")
  /\ UNCHANGED <<m, store, arg, calls>>

(* IPSet.Add: look up another name or address, then lock and add.          *)
Add(p) ==
  /\ pc[p] = "ready"
  /\ \E r \in Resolved :
       store' = [store EXCEPT ![arg[p].s].ips = addAll(@, r)]
  /\ Goto(p, "idle")
  /\ UNCHANGED <<m, arg, calls>>

(* IPSet.Confirm: the test under RLock, then the assignment under Lock.    *)
ConfirmTest(p, ip) ==
  /\ pc[p] = "ready"
  /\ arg' = [arg EXCEPT ![p].ip = ip]
  /\ Goto(p, IF store[arg[p].s].confirmed = ip THEN "idle" ELSE "confirm")
  /\ UNCHANGED <<m, store, calls>>

ConfirmSet_WithoutAdd(p) ==
  /\ pc[p] = "confirm"
  /\ store' = [store EXCEPT ![arg[p].s].confirmed = arg[p].ip]
  /\ Goto(p, "idle")
  /\ UNCHANGED <<m, arg, calls>>

ConfirmSet(p) ==
  /\ pc[p] = "confirm"
  /\ LET ip == arg[p].ip
     IN  store' = [store EXCEPT ![arg[p].s] = [ips |-> add(@.ips, ip), confirmed |-> ip]]
  /\ Goto(p, "idle")
  /\ UNCHANGED <<m, arg, calls>>

(* IPSet.Disconfirm, under Lock.                                           *)
Disconfirm(p, ip) ==
  /\ pc[p] = "ready"
  /\ store' = [store EXCEPT ![arg[p].s].confirmed = IF @ = ip THEN None ELSE @]
  /\ Goto(p, "idle")
  /\ UNCHANGED <<m, arg, calls>>

Next == \E p \in Procs :
          \/ GetResolve(p) \/ GetPublish(p) \/ Drop(p) \/ Add(p) \/ ConfirmSet(p)
          \/ \E h \in Hosts : GetLookup(p, h)
          \/ \E ip \in IPs : ConfirmTest(p, ip) \/ Disconfirm(p, ip)

Spec == Init /\ [][Next]_vars

----------------------------------------------------------------------------
(* "Subsequent calls to Get return the same IPSet" (ipmap.go:29), also     *)
(* when several first calls overlap: every holder of a host's set holds    *)
(* the one in the map.                                                     *)
SameIPSet ==
  \A p \in Procs : pc[p] \in {"ready", "confirm"} => arg[p].s = m[arg[p].host]

(* No address is listed twice, however additions and confirmations race.   *)
NoDuplicates == \A o \in Objects : IsInjective(store[o].ips)

(* What Get, GetAll and Confirmed show of the map: a published set is its  *)
(* addresses, in no order, and the confirmed one.                          *)
Published ==
  [h \in Hosts |-> IF m[h] = None THEN None
                   ELSE [ips |-> ToSet(store[m[h]].ips), confirmed |-> store[m[h]].confirmed]]

Abstract == INSTANCE IPMapSpec WITH sets <- Published

(* Towards other goroutines the map behaves as if every operation were     *)
(* atomic: Get's unpublished sets and Confirm's stale test cannot be told. *)
ImplementsIPMap == Abstract!Spec
============================================================================
