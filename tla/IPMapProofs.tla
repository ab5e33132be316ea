---------------------------- MODULE IPMapProofs ----------------------------
(***************************************************************************)
(* What holds of IPMap for any number of goroutines, hosts, addresses and  *)
(* calls and for lookups of any length; and that IPMap implements the      *)
(* atomic map IPMapSpec.                                                   *)
(***************************************************************************)
EXTENDS IPMap, WellFoundedInduction, TLAPS

(***************************************************************************)
(* Induction, with a set in the place of the predicate.                    *)
(***************************************************************************)
(* Every set of naturals has a least element.                              *)
LEMMA LeastNatural ==
  ASSUME NEW T, T \subseteq Nat, T # {}
  PROVE  \E n \in T : \A k \in T : n <= k
  <1> DEFINE R == {ss \in Nat \X Nat : ss[1] < ss[2]}
  <1>1. IsWellFoundedOn(R, Nat) BY NatLessThanWellFounded DEF OpToRel
  <1> HIDE DEF R
  <1>2. PICK n \in T : \A k \in T : <<k, n>> \notin R BY <1>1, WFMin
  <1>3. \A k \in T : ~(k < n) BY <1>2 DEF R
  <1> QED BY <1>2, <1>3

(* A set of naturals with 0 and every successor has them all.              *)
LEMMA SetInduction ==
  ASSUME NEW S, 0 \in S, \A n \in Nat : n \in S => n + 1 \in S
  PROVE  Nat \subseteq S
  <1> SUFFICES ASSUME Nat \ S # {} PROVE FALSE OBVIOUS
  <1>1. PICK n \in Nat \ S : \A k \in Nat \ S : n <= k BY LeastNatural
  <1>2. n # 0 /\ n - 1 \in Nat /\ ~(n <= n - 1) BY <1>1
  <1>3. n - 1 \in S BY <1>1, <1>2
  <1>4. (n - 1) + 1 = n BY <1>2
  <1> QED BY <1>1, <1>2, <1>3, <1>4

(***************************************************************************)
(* The slice ips: add and the loop of Add.                                 *)
(***************************************************************************)
(* add leaves one copy of the address and everything else as it was.       *)
LEMMA AddOne ==
  ASSUME NEW s \in Seq(IPs), NEW ip \in IPs, IsInjective(s)
  PROVE  /\ add(s, ip) \in Seq(IPs) /\ IsInjective(add(s, ip))
         /\ ToSet(add(s, ip)) = ToSet(s) \cup {ip}
  <1>1. CASE ip \in ToSet(s) BY <1>1 DEF add
  <1>2. CASE ip \notin ToSet(s)
    <2>1. add(s, ip) = Append(s, ip) BY <1>2 DEF add
    <2>2. /\ Append(s, ip) \in Seq(IPs) /\ Len(s) \in Nat
          /\ \A i \in 1..Len(s) : Append(s, ip)[i] = s[i]
          /\ Append(s, ip)[Len(s) + 1] = ip
          /\ DOMAIN s = 1..Len(s) /\ DOMAIN Append(s, ip) = 1..(Len(s) + 1)
      OBVIOUS
    <2>3. \A i \in 1..Len(s) : s[i] # ip BY <1>2, <2>2 DEF ToSet
    <2> QED BY <2>1, <2>2, <2>3 DEF ToSet, IsInjective
  <1> QED BY <1>1, <1>2

(* f is the history of the first n rounds of the loop.                     *)
Rounds(f, ips, r, n) ==
  f = [k \in 0..n |-> IF k = 0 THEN ips ELSE add(f[k - 1], r[k])]

(* The loop of Add has a history, whatever the resolver returned.          *)
LEMMA LoopRuns ==
  ASSUME NEW ips, NEW r \in Seq(IPs)
  PROVE  \E f : Rounds(f, ips, r, Len(r))
  <1> DEFINE S == {n \in Nat : \E f : Rounds(f, ips, r, n)}
  <1>1. 0 \in S
    <2> DEFINE f == [k \in 0..0 |-> ips]
    <2>1. Rounds(f, ips, r, 0) BY DEF Rounds
    <2> QED BY <2>1
  <1>2. ASSUME NEW n \in Nat, n \in S PROVE n + 1 \in S
    <2>1. PICK f : Rounds(f, ips, r, n) BY <1>2
    <2> DEFINE g == [k \in 0..(n + 1) |-> IF k = n + 1 THEN add(f[n], r[n + 1]) ELSE f[k]]
    <2>2. \A k \in 0..n : g[k] = f[k] OBVIOUS
    <2>3. g[n + 1] = add(f[n], r[n + 1]) OBVIOUS
    <2>4. g = [k \in 0..(n + 1) |-> g[k]] OBVIOUS
    <2> HIDE DEF g
    <2>5. \A k \in 0..(n + 1) : g[k] = IF k = 0 THEN ips ELSE add(g[k - 1], r[k])
      <3> SUFFICES ASSUME NEW k \in 0..(n + 1)
                   PROVE  g[k] = IF k = 0 THEN ips ELSE add(g[k - 1], r[k])
        OBVIOUS
      <3>1. CASE k = n + 1
        <4>1. k # 0 /\ k - 1 = n /\ n \in 0..n BY <3>1
        <4> QED BY <2>2, <2>3, <3>1, <4>1
      <3>2. CASE k \in 0..n
        <4>1. f[k] = IF k = 0 THEN ips ELSE add(f[k - 1], r[k]) BY <2>1, <3>2 DEF Rounds
        <4>2. k # 0 => k - 1 \in 0..n BY <3>2
        <4> QED BY <2>2, <3>2, <4>1, <4>2
      <3> QED BY <3>1, <3>2
    <2>6. Rounds(g, ips, r, n + 1) BY <2>4, <2>5 DEF Rounds
    <2> QED BY <2>6
  <1> HIDE DEF S
  <1>3. Nat \subseteq S BY <1>1, <1>2, SetInduction
  <1>4. Len(r) \in Nat OBVIOUS
  <1> QED BY <1>3, <1>4 DEF S

(* addAll is what the last round of such a history leaves.                 *)
LEMMA AddAllRuns ==
  ASSUME NEW ips, NEW r \in Seq(IPs)
  PROVE  \E f : Rounds(f, ips, r, Len(r)) /\ addAll(ips, r) = f[Len(r)]
  <1> DEFINE f == CHOOSE f : Rounds(f, ips, r, Len(r))
  <1>1. Rounds(f, ips, r, Len(r)) BY LoopRuns
  <1>2. addAll(ips, r) = f[Len(r)] BY Zenon DEF addAll, Rounds
  <1> QED BY <1>1, <1>2

(* After Add the slice has each old and each resolved address once, in     *)
(* whatever order and however often the resolver listed them.              *)
LEMMA AddAllAdds ==
  ASSUME NEW s \in Seq(IPs), IsInjective(s), NEW r \in Seq(IPs)
  PROVE  /\ addAll(s, r) \in Seq(IPs) /\ IsInjective(addAll(s, r))
         /\ ToSet(addAll(s, r)) = ToSet(s) \cup ToSet(r)
  <1>1. PICK f : Rounds(f, s, r, Len(r)) /\ addAll(s, r) = f[Len(r)] BY AddAllRuns
  <1>2. /\ f[0] = s
        /\ \A n \in Nat : n + 1 <= Len(r) => f[n + 1] = add(f[n], r[n + 1])
    <2>1. /\ 0 \in 0..Len(r)
          /\ \A n \in Nat : n + 1 <= Len(r) =>
               n + 1 \in 0..Len(r) /\ (n + 1) - 1 = n /\ n + 1 # 0
      OBVIOUS
    <2> QED BY <1>1, <2>1 DEF Rounds
  <1> DEFINE Good(n) == /\ f[n] \in Seq(IPs) /\ IsInjective(f[n])
                        /\ ToSet(f[n]) = ToSet(s) \cup {r[i] : i \in 1..n}
             S == {n \in Nat : n <= Len(r) => Good(n)}
  <1>3. 0 \in S
    <2>1. {r[i] : i \in 1..0} = {} OBVIOUS
    <2> QED BY <1>2, <2>1
  <1>4. ASSUME NEW n \in Nat, n \in S PROVE n + 1 \in S
    <2> SUFFICES ASSUME n + 1 <= Len(r) PROVE Good(n + 1) OBVIOUS
    <2>1. n <= Len(r) /\ n + 1 \in 1..Len(r) OBVIOUS
    <2>2. r[n + 1] \in IPs BY <2>1
    <2>3. Good(n) BY <1>4, <2>1
    <2>4. f[n + 1] = add(f[n], r[n + 1]) BY <1>2
    <2>5. /\ f[n + 1] \in Seq(IPs) /\ IsInjective(f[n + 1])
          /\ ToSet(f[n + 1]) = ToSet(f[n]) \cup {r[n + 1]}
      <3>1. f[n] \in Seq(IPs) /\ IsInjective(f[n]) BY <2>3
      <3> HIDE DEF Good, S
      <3>2. /\ add(f[n], r[n + 1]) \in Seq(IPs) /\ IsInjective(add(f[n], r[n + 1]))
            /\ ToSet(add(f[n], r[n + 1])) = ToSet(f[n]) \cup {r[n + 1]}
        BY <2>2, <3>1, AddOne
      <3> QED BY <2>4, <3>2
    <2>6. {r[i] : i \in 1..(n + 1)} = {r[i] : i \in 1..n} \cup {r[n + 1]}
      <3>1. 1..(n + 1) = (1..n) \cup {n + 1} OBVIOUS
      <3> QED BY <3>1
    <2> QED BY <2>3, <2>5, <2>6
  <1> HIDE DEF S
  <1>5. Nat \subseteq S BY <1>3, <1>4, SetInduction
  <1>6. Good(Len(r))
    <2>1. Len(r) \in Nat /\ Len(r) <= Len(r) OBVIOUS
    <2>2. Len(r) \in S BY <1>5, <2>1
    <2> QED BY <2>1, <2>2 DEF S
  <1>7. ToSet(r) = {r[i] : i \in 1..Len(r)} BY DEF ToSet
  <1> QED BY <1>1, <1>6, <1>7

(* What a lookup returns is a sequence of addresses.                       *)
LEMMA ResolvedType == Resolved \subseteq Seq(IPs)
  <1> SUFFICES ASSUME NEW n \in 0..MaxAnswers, NEW r \in [1..n -> IPs] PROVE r \in Seq(IPs)
    BY DEF Resolved, SeqOf
  <1>1. n \in Nat BY IPMapAssumption
  <1> QED BY <1>1

(***************************************************************************)
(* The inductive invariant.                                                *)
(***************************************************************************)
(* The map holds the set that some goroutine allocated for that host; one  *)
(* that is about to publish offers its own; a set that is not in the map   *)
(* has never been confirmed, and its owner alone, before it is published,  *)
(* works on it.                                                            *)
OwnerInv ==
  /\ \A h \in Hosts : m[h] # None => \E p \in Procs : m[h] = <<p, h>>
  /\ \A p \in Procs : pc[p] = "publish" => arg[p].s = <<p, arg[p].host>>
  /\ \A p \in Procs : pc[p] = "resolve" => m[arg[p].host] # <<p, arg[p].host>>
  /\ \A p \in Procs, h \in Hosts : m[h] # <<p, h>> => store[<<p, h>>].confirmed = None

MapInv == OwnerInv /\ SameIPSet /\ NoDuplicates

(* NewIPMap: an empty map.                                                 *)
LEMMA MapInit == Init => TypeOK /\ MapInv
  <1> SUFFICES ASSUME Init PROVE TypeOK /\ MapInv OBVIOUS
  <1> USE IPMapAssumption DEF Init, Objects
  <1>1. << >> \in Seq(IPs) /\ IsInjective(<< >>) BY DEF IsInjective
  <1>2. (CHOOSE h \in Hosts : TRUE) \in Hosts /\ (CHOOSE i \in IPs : TRUE) \in IPs
    OBVIOUS
  <1>3. arg \in [Procs -> [host : Hosts, ip : IPs, s : Objects \cup {None}]] BY <1>2
  <1>4. TypeOK BY <1>1, <1>3 DEF TypeOK
  <1>5. OwnerInv BY DEF OwnerInv
  <1>6. SameIPSet /\ NoDuplicates BY <1>1 DEF SameIPSet, NoDuplicates
  <1> QED BY <1>4, <1>5, <1>6 DEF MapInv

(* A caller that has a set has the one in the map, made for its host.      *)
LEMMA HeldSet ==
  ASSUME TypeOK, MapInv, NEW p \in Procs, pc[p] \in {"ready", "confirm"}
  PROVE  /\ arg[p].s \in Objects /\ arg[p].host \in Hosts /\ m[arg[p].host] = arg[p].s
         /\ \A h \in Hosts : m[h] = arg[p].s => h = arg[p].host
         /\ \A q \in Procs, h \in Hosts : arg[p].s = <<q, h>> => m[h] = <<q, h>>
  <1>1. /\ arg[p].s \in Objects /\ arg[p].host \in Hosts /\ m[arg[p].host] = arg[p].s
    BY DEF TypeOK, MapInv, SameIPSet
  <1>2. \A h \in Hosts : m[h] # None => \E q \in Procs : m[h] = <<q, h>> BY DEF MapInv, OwnerInv
  <1>3. arg[p].s # None BY DEF TypeOK
  <1>4. PICK q \in Procs : arg[p].s = <<q, arg[p].host>> BY <1>1, <1>2, <1>3
  <1>5. \A h \in Hosts : m[h] = arg[p].s => h = arg[p].host BY <1>2, <1>3, <1>4
  <1> QED BY <1>1, <1>4, <1>5

(* A step that stores a set s in place of one that is in the map and goes  *)
(* back to idle: Add, Confirm and Disconfirm.                              *)
LEMMA StoreNext ==
  ASSUME TypeOK, MapInv, NEW p \in Procs, pc[p] \in {"ready", "confirm"},
         NEW s \in [ips : Seq(IPs), confirmed : IPs \cup {None}], IsInjective(s.ips),
         store' = [store EXCEPT ![arg[p].s] = s], Goto(p, "idle"), UNCHANGED <<m, arg, calls>>
  PROVE  TypeOK' /\ MapInv'
  <1>1. arg[p].s \in Objects /\ \A q \in Procs, h \in Hosts : arg[p].s = <<q, h>> => m[h] = <<q, h>>
    BY HeldSet
  <1>2. /\ store' \in [Objects -> [ips : Seq(IPs), confirmed : IPs \cup {None}]]
        /\ store'[arg[p].s] = s /\ \A o \in Objects : o # arg[p].s => store'[o] = store[o]
    BY <1>1 DEF TypeOK
  <1>3. /\ pc' \in [Procs -> {"idle", "resolve", "publish", "ready", "confirm"}]
        /\ \A q \in Procs : pc'[q] # "idle" => pc'[q] = pc[q]
    BY DEF TypeOK, Goto
  <1>4. TypeOK' BY <1>2, <1>3 DEF TypeOK
  <1>5. OwnerInv'
    <2>1. OwnerInv BY DEF MapInv
    <2>2. \A q \in Procs, h \in Hosts : m[h] # <<q, h>> => store'[<<q, h>>] = store[<<q, h>>]
      BY <1>1, <1>2 DEF Objects
    <2> QED BY <1>3, <2>1, <2>2 DEF OwnerInv
  <1>6. SameIPSet' BY <1>3 DEF MapInv, SameIPSet
  <1>7. NoDuplicates' BY <1>2 DEF MapInv, NoDuplicates
  <1> QED BY <1>4, <1>5, <1>6, <1>7 DEF MapInv

(* What Add, Confirm and Disconfirm store.                                 *)
LEMMA StoredSets ==
  ASSUME TypeOK, MapInv, NEW o \in Objects
  PROVE  /\ \A r \in Resolved : LET s == [store[o] EXCEPT !.ips = addAll(@, r)]
                                IN  /\ s \in [ips : Seq(IPs), confirmed : IPs \cup {None}]
                                    /\ IsInjective(s.ips) /\ s.confirmed = store[o].confirmed
                                    /\ ToSet(s.ips) = ToSet(store[o].ips) \cup ToSet(r)
         /\ \A ip \in IPs : LET s == [ips |-> add(store[o].ips, ip), confirmed |-> ip]
                            IN  /\ s \in [ips : Seq(IPs), confirmed : IPs \cup {None}]
                                /\ IsInjective(s.ips)
                                /\ ToSet(s.ips) = ToSet(store[o].ips) \cup {ip}
  <1>1. store[o] \in [ips : Seq(IPs), confirmed : IPs \cup {None}] /\ IsInjective(store[o].ips)
    BY DEF TypeOK, MapInv, NoDuplicates
  <1>2. \A r \in Resolved : /\ addAll(store[o].ips, r) \in Seq(IPs)
                            /\ IsInjective(addAll(store[o].ips, r))
                            /\ ToSet(addAll(store[o].ips, r)) = ToSet(store[o].ips) \cup ToSet(r)
    BY <1>1, AddAllAdds, ResolvedType
  <1>3. \A ip \in IPs : /\ add(store[o].ips, ip) \in Seq(IPs)
                        /\ IsInjective(add(store[o].ips, ip))
                        /\ ToSet(add(store[o].ips, ip)) = ToSet(store[o].ips) \cup {ip}
    BY <1>1, AddOne
  <1> QED BY <1>1, <1>2, <1>3

(* Every step keeps the invariant.                                         *)
LEMMA MapNext == TypeOK /\ MapInv /\ [Next]_vars => TypeOK' /\ MapInv'
  <1> SUFFICES ASSUME TypeOK, MapInv, [Next]_vars PROVE TypeOK' /\ MapInv' OBVIOUS
  <1>i. OwnerInv /\ SameIPSet /\ NoDuplicates BY DEF MapInv
  <1>t. /\ m \in [Hosts -> Objects \cup {None}]
        /\ store \in [Objects -> [ips : Seq(IPs), confirmed : IPs \cup {None}]]
        /\ pc \in [Procs -> {"idle", "resolve", "publish", "ready", "confirm"}]
        /\ arg \in [Procs -> [host : Hosts, ip : IPs, s : Objects \cup {None}]]
        /\ calls \in [Procs -> 0..MaxCalls]
        /\ None \notin Objects /\ MaxCalls \in Nat
    BY IPMapAssumption DEF TypeOK, Objects
  <1>n. \A q \in Procs : pc[q] \in {"publish", "ready", "confirm"} => arg[q].s # None
    BY DEF TypeOK
  <1>1. ASSUME NEW p \in Procs, NEW h \in Hosts, GetLookup(p, h) PROVE TypeOK' /\ MapInv'
    <2>1. UNCHANGED <<m, store>> BY <1>1 DEF GetLookup
    <2>2. /\ arg' \in [Procs -> [host : Hosts, ip : IPs, s : Objects \cup {None}]]
          /\ arg'[p].host = h /\ arg'[p].s = m[h]
          /\ \A q \in Procs : q # p => arg'[q] = arg[q]
      BY <1>1, <1>t DEF GetLookup
    <2>3. /\ pc' \in [Procs -> {"idle", "resolve", "publish", "ready", "confirm"}]
          /\ pc'[p] = IF m[h] = None THEN "resolve" ELSE "ready"
          /\ \A q \in Procs : q # p => pc'[q] = pc[q]
      BY <1>1, <1>t DEF GetLookup, Goto
    <2>4. calls' \in [Procs -> 0..MaxCalls] BY <1>1, <1>t DEF GetLookup
    <2>5. TypeOK' BY <1>t, <1>n, <2>1, <2>2, <2>3, <2>4 DEF TypeOK
    <2>6. OwnerInv'
      <3>1. m[h] = None => m[h] # <<p, h>> BY <1>t DEF Objects
      <3> QED BY <1>i, <2>1, <2>2, <2>3, <3>1 DEF OwnerInv
    <2>7. SameIPSet' BY <1>i, <2>1, <2>2, <2>3 DEF SameIPSet
    <2>8. NoDuplicates' BY <1>i, <2>1 DEF NoDuplicates
    <2> QED BY <2>5, <2>6, <2>7, <2>8 DEF MapInv
  <1>2. ASSUME NEW p \in Procs, GetResolve(p) PROVE TypeOK' /\ MapInv'
    <2> DEFINE o == <<p, arg[p].host>>
    <2>1. o \in Objects /\ m[arg[p].host] # o BY <1>2, <1>i, <1>t DEF GetResolve, OwnerInv, Objects
    <2>2. PICK r \in Resolved : store' = [store EXCEPT ![o] = [store[o] EXCEPT !.ips = addAll(@, r)]]
      BY <1>2 DEF GetResolve
    <2>3. /\ store' \in [Objects -> [ips : Seq(IPs), confirmed : IPs \cup {None}]]
          /\ IsInjective(store'[o].ips) /\ store'[o].confirmed = store[o].confirmed
          /\ \A x \in Objects : x # o => store'[x] = store[x]
      BY <1>t, <2>1, <2>2, StoredSets
    <2>4. /\ arg' \in [Procs -> [host : Hosts, ip : IPs, s : Objects \cup {None}]]
          /\ arg'[p].host = arg[p].host /\ arg'[p].s = o
          /\ \A q \in Procs : q # p => arg'[q] = arg[q]
      <3>1. arg' = [arg EXCEPT ![p].s = o] BY <1>2 DEF GetResolve
      <3> HIDE DEF o
      <3> QED BY <1>t, <2>1, <3>1
    <2>5. /\ pc' \in [Procs -> {"idle", "resolve", "publish", "ready", "confirm"}]
          /\ pc'[p] = "publish" /\ \A q \in Procs : q # p => pc'[q] = pc[q]
      BY <1>2, <1>t DEF GetResolve, Goto
    <2>6. UNCHANGED <<m, calls>> BY <1>2 DEF GetResolve
    <2>7. o # None BY <1>t, <2>1
    <2> HIDE DEF o
    <2>8. TypeOK' BY <1>t, <1>n, <2>3, <2>4, <2>5, <2>6, <2>7 DEF TypeOK
    <2>9. OwnerInv'
      <3>1. \A x \in Objects : store'[x].confirmed = store[x].confirmed BY <2>3
      <3>2. \A q \in Procs, h \in Hosts : <<q, h>> \in Objects BY DEF Objects
      <3> QED BY <1>i, <2>4, <2>5, <2>6, <3>1, <3>2 DEF OwnerInv, o
    <2>10. SameIPSet' BY <1>i, <2>4, <2>5, <2>6 DEF SameIPSet
    <2>11. NoDuplicates' BY <1>i, <2>3 DEF NoDuplicates
    <2> QED BY <2>8, <2>9, <2>10, <2>11 DEF MapInv
  <1>3. ASSUME NEW p \in Procs, GetPublish(p) PROVE TypeOK' /\ MapInv'
    <2> DEFINE h == arg[p].host
    <2>1. h \in Hosts /\ arg[p].s = <<p, h>> /\ arg[p].s \in Objects
      <3>1. pc[p] = "publish" BY <1>3 DEF GetPublish
      <3>2. h \in Hosts BY <1>t
      <3>3. arg[p].s = <<p, h>> BY <1>i, <3>1 DEF OwnerInv
      <3> HIDE DEF h
      <3> QED BY <3>2, <3>3 DEF Objects
    <2>2. /\ pc' \in [Procs -> {"idle", "resolve", "publish", "ready", "confirm"}]
          /\ pc[p] = "publish" /\ pc'[p] = "ready" /\ \A q \in Procs : q # p => pc'[q] = pc[q]
      BY <1>3, <1>t DEF GetPublish, Goto
    <2>3. UNCHANGED <<store, calls>> BY <1>3 DEF GetPublish
    <2>4. NoDuplicates' BY <1>i, <2>3 DEF NoDuplicates
    <2>5. CASE m[h] = None
      <3>1. m' = [m EXCEPT ![h] = arg[p].s] /\ arg' = arg BY <1>3, <2>5 DEF GetPublish
      <3>2. m'[h] = <<p, h>> /\ \A g \in Hosts : g # h => m'[g] = m[g] BY <1>t, <2>1, <3>1
      <3>3. TypeOK' BY <1>t, <1>n, <2>1, <2>2, <2>3, <3>1 DEF TypeOK
      <3>4. SameIPSet'
        <4> SUFFICES ASSUME NEW q \in Procs, pc'[q] \in {"ready", "confirm"}
                     PROVE  arg[q].s = m'[arg[q].host]
          BY <3>1 DEF SameIPSet
        <4>1. CASE q = p BY <2>1, <3>2, <4>1
        <4>2. CASE q # p
          <5>1. arg[q].s = m[arg[q].host] /\ arg[q].s # None /\ arg[q].host \in Hosts
            BY <1>i, <1>n, <1>t, <2>2, <4>2 DEF SameIPSet
          <5> QED BY <2>5, <3>2, <5>1
        <4> QED BY <4>1, <4>2
      <3>5. OwnerInv'
        <4>1. \A g \in Hosts : m'[g] # None => \E q \in Procs : m'[g] = <<q, g>>
          BY <1>i, <3>2 DEF OwnerInv
        <4>2. \A q \in Procs : pc'[q] = "publish" => arg'[q].s = <<q, arg'[q].host>>
          BY <1>i, <2>2, <3>1 DEF OwnerInv
        <4>3. \A q \in Procs : pc'[q] = "resolve" => m'[arg'[q].host] # <<q, arg'[q].host>>
          <5> SUFFICES ASSUME NEW q \in Procs, pc'[q] = "resolve"
                       PROVE  m'[arg[q].host] # <<q, arg[q].host>>
            BY <3>1
          <5>1. q # p /\ pc[q] = "resolve" /\ arg[q].host \in Hosts BY <1>t, <2>2
          <5> QED BY <1>i, <2>1, <3>2, <5>1 DEF OwnerInv
        <4>4. \A q \in Procs, g \in Hosts : m'[g] # <<q, g>> => store'[<<q, g>>].confirmed = None
          <5> SUFFICES ASSUME NEW q \in Procs, NEW g \in Hosts, m'[g] # <<q, g>>
                       PROVE  store[<<q, g>>].confirmed = None
            BY <2>3
          <5>1. m[g] # <<q, g>>
            <6>1. <<q, g>> # None BY <1>t DEF Objects
            <6>2. CASE g = h BY <2>5, <6>1, <6>2
            <6>3. CASE g # h BY <3>2, <6>3
            <6> QED BY <6>2, <6>3
          <5> QED BY <1>i, <5>1 DEF OwnerInv
        <4> QED BY <4>1, <4>2, <4>3, <4>4 DEF OwnerInv
      <3> QED BY <2>4, <3>3, <3>4, <3>5 DEF MapInv
    <2>6. CASE m[h] # None
      <3>1. m' = m /\ arg' = [arg EXCEPT ![p].s = m[h]] BY <1>3, <2>6 DEF GetPublish
      <3>2. /\ arg' \in [Procs -> [host : Hosts, ip : IPs, s : Objects \cup {None}]]
            /\ arg'[p].host = h /\ arg'[p].s = m[h]
            /\ \A q \in Procs : q # p => arg'[q] = arg[q]
        BY <1>t, <2>1, <3>1
      <3>3. TypeOK' BY <1>t, <1>n, <2>2, <2>3, <2>6, <3>1, <3>2 DEF TypeOK
      <3>4. SameIPSet' BY <1>i, <2>2, <3>1, <3>2 DEF SameIPSet
      <3>5. OwnerInv' BY <1>i, <2>2, <2>3, <3>1, <3>2 DEF OwnerInv
      <3> QED BY <2>4, <3>3, <3>4, <3>5 DEF MapInv
    <2> QED BY <2>5, <2>6
  <1>4. ASSUME NEW p \in Procs, Drop(p) \/ \E ip \in IPs : ConfirmTest(p, ip)
        PROVE  TypeOK' /\ MapInv'
    <2>1. UNCHANGED <<m, store, calls>> BY <1>4 DEF Drop, ConfirmTest
    <2>2. /\ arg' \in [Procs -> [host : Hosts, ip : IPs, s : Objects \cup {None}]]
          /\ \A q \in Procs : arg'[q].host = arg[q].host /\ arg'[q].s = arg[q].s
      <3>1. CASE Drop(p) BY <1>t, <3>1 DEF Drop
      <3>2. CASE \E ip \in IPs : ConfirmTest(p, ip)
        <4>1. PICK ip \in IPs : arg' = [arg EXCEPT ![p].ip = ip] BY <3>2 DEF ConfirmTest
        <4> QED BY <1>t, <4>1
      <3> QED BY <1>4, <3>1, <3>2
    <2>3. /\ pc' \in [Procs -> {"idle", "resolve", "publish", "ready", "confirm"}]
          /\ pc[p] = "ready" /\ pc'[p] \in {"idle", "confirm"}
          /\ \A q \in Procs : q # p => pc'[q] = pc[q]
      BY <1>4, <1>t DEF Drop, ConfirmTest, Goto
    <2>4. TypeOK' BY <1>t, <1>n, <2>1, <2>2, <2>3 DEF TypeOK
    <2>5. OwnerInv' BY <1>i, <2>1, <2>2, <2>3 DEF OwnerInv
    <2>6. SameIPSet' BY <1>i, <2>1, <2>2, <2>3 DEF SameIPSet
    <2>7. NoDuplicates' BY <1>i, <2>1 DEF NoDuplicates
    <2> QED BY <2>4, <2>5, <2>6, <2>7 DEF MapInv
  <1>5. ASSUME NEW p \in Procs, Add(p) PROVE TypeOK' /\ MapInv'
    <2>1. pc[p] = "ready" /\ arg[p].s \in Objects BY <1>5, HeldSet DEF Add
    <2>2. PICK r \in Resolved :
            store' = [store EXCEPT ![arg[p].s] = [store[arg[p].s] EXCEPT !.ips = addAll(@, r)]]
      BY <1>5 DEF Add
    <2> DEFINE s == [store[arg[p].s] EXCEPT !.ips = addAll(@, r)]
    <2>3. s \in [ips : Seq(IPs), confirmed : IPs \cup {None}] /\ IsInjective(s.ips)
      BY <2>1, StoredSets
    <2>4. store' = [store EXCEPT ![arg[p].s] = s] BY <2>2
    <2> HIDE DEF s
    <2> QED BY <1>5, <2>1, <2>3, <2>4, StoreNext DEF Add
  <1>6. ASSUME NEW p \in Procs, ConfirmSet(p) PROVE TypeOK' /\ MapInv'
    <2>1. pc[p] = "confirm" /\ arg[p].s \in Objects /\ arg[p].ip \in IPs
      BY <1>6, <1>t, HeldSet DEF ConfirmSet
    <2> DEFINE s == [ips |-> add(store[arg[p].s].ips, arg[p].ip), confirmed |-> arg[p].ip]
    <2>2. s \in [ips : Seq(IPs), confirmed : IPs \cup {None}] /\ IsInjective(s.ips)
      BY <2>1, StoredSets
    <2>3. store' = [store EXCEPT ![arg[p].s] = s] BY <1>6 DEF ConfirmSet
    <2> HIDE DEF s
    <2> QED BY <1>6, <2>1, <2>2, <2>3, StoreNext DEF ConfirmSet
  <1>7. ASSUME NEW p \in Procs, NEW ip \in IPs, Disconfirm(p, ip) PROVE TypeOK' /\ MapInv'
    <2>1. pc[p] = "ready" /\ arg[p].s \in Objects BY <1>7, HeldSet DEF Disconfirm
    <2> DEFINE s == [store[arg[p].s] EXCEPT !.confirmed = IF @ = ip THEN None ELSE @]
    <2>2. s \in [ips : Seq(IPs), confirmed : IPs \cup {None}] /\ s.ips = store[arg[p].s].ips
      BY <1>t, <2>1
    <2>3. IsInjective(s.ips) BY <1>i, <2>1, <2>2 DEF NoDuplicates
    <2>4. store' = [store EXCEPT ![arg[p].s] = s] BY <1>7 DEF Disconfirm
    <2> HIDE DEF s
    <2> QED BY <1>7, <2>1, <2>2, <2>3, <2>4, StoreNext DEF Disconfirm
  <1>8. CASE UNCHANGED vars
    <2>1. TypeOK' BY <1>8 DEF vars, TypeOK
    <2>2. OwnerInv' BY <1>8, <1>i DEF vars, OwnerInv
    <2>3. SameIPSet' /\ NoDuplicates' BY <1>8, <1>i DEF vars, SameIPSet, NoDuplicates
    <2> QED BY <2>1, <2>2, <2>3 DEF MapInv
  <1> QED BY <1>1, <1>2, <1>3, <1>4, <1>5, <1>6, <1>7, <1>8 DEF Next

(***************************************************************************)
(* The refinement: what each step does to the published sets.              *)
(***************************************************************************)
(* The set that a caller holds is published, and a step that stores s in   *)
(* its place changes what is published for that host alone.                *)
LEMMA PublishedSet ==
  ASSUME TypeOK, MapInv, NEW p \in Procs, pc[p] \in {"ready", "confirm"},
         NEW s, store' = [store EXCEPT ![arg[p].s] = s], m' = m
  PROVE  /\ Published[arg[p].host] = [ips |-> ToSet(store[arg[p].s].ips),
                                      confirmed |-> store[arg[p].s].confirmed]
         /\ Published[arg[p].host] # None
         /\ Published' = [Published EXCEPT ![arg[p].host] = [ips |-> ToSet(s.ips),
                                                             confirmed |-> s.confirmed]]
  <1> DEFINE h == arg[p].host
             o == arg[p].s
  <1>1. /\ o \in Objects /\ h \in Hosts /\ m[h] = o
        /\ \A g \in Hosts : m[g] = o => g = h
    BY HeldSet
  <1>2. o # None BY <1>1, IPMapAssumption DEF Objects
  <1>3. /\ m \in [Hosts -> Objects \cup {None}]
        /\ store[o] \in [ips : Seq(IPs), confirmed : IPs \cup {None}]
        /\ DOMAIN store = Objects
    BY <1>1 DEF TypeOK
  <1>4. store' = [store EXCEPT ![o] = s] OBVIOUS
  <1> HIDE DEF h, o
  <1>5. Published[h] = [ips |-> ToSet(store[o].ips), confirmed |-> store[o].confirmed]
    BY <1>1, <1>2 DEF Published
  <1>6. Published[h] # None
    <2>1. ToSet(store[o].ips) \in SUBSET IPs BY <1>3 DEF ToSet
    <2> QED BY <1>3, <1>5, <2>1, IPMapAssumption
  <1>7. Published' = [Published EXCEPT ![h] = [ips |-> ToSet(s.ips), confirmed |-> s.confirmed]]
    <2>1. store'[o] = s BY <1>1, <1>3, <1>4
    <2>2. \A g \in Hosts : g # h /\ m[g] # None => store'[m[g]] = store[m[g]]
      BY <1>1, <1>3, <1>4
    <2>3. \A g \in Hosts : g # h => Published'[g] = Published[g] BY <2>2 DEF Published
    <2>4. Published'[h] = [ips |-> ToSet(s.ips), confirmed |-> s.confirmed]
      BY <1>1, <1>2, <2>1 DEF Published
    <2>5. Published' = [g \in Hosts |-> Published'[g]] BY DEF Published
    <2>6. DOMAIN Published = Hosts BY DEF Published
    <2> HIDE DEF Published
    <2> QED BY <1>1, <2>3, <2>4, <2>5, <2>6
  <1> QED BY <1>5, <1>6, <1>7 DEF h, o

(* Publishing, adding, confirming and disconfirming are the steps of the   *)
(* atomic map; no other step shows.                                        *)
LEMMA StepImplements ==
  TypeOK /\ MapInv /\ [Next]_vars => [Abstract!Next]_Published
  <1> SUFFICES ASSUME TypeOK, MapInv, [Next]_vars
               PROVE  Abstract!Next \/ UNCHANGED Published
    OBVIOUS
  <1>i. OwnerInv /\ NoDuplicates BY DEF MapInv
  <1>t. /\ m \in [Hosts -> Objects \cup {None}]
        /\ store \in [Objects -> [ips : Seq(IPs), confirmed : IPs \cup {None}]]
        /\ arg \in [Procs -> [host : Hosts, ip : IPs, s : Objects \cup {None}]]
        /\ None \notin Objects
    BY IPMapAssumption DEF TypeOK, Objects
  <1>1. ASSUME UNCHANGED <<m, store>> PROVE UNCHANGED Published BY <1>1 DEF Published
  <1>2. ASSUME NEW p \in Procs, GetResolve(p) PROVE UNCHANGED Published
    <2> DEFINE h == arg[p].host
    <2>1. pc[p] = "resolve" /\ m' = m BY <1>2 DEF GetResolve
    <2>2. h \in Hosts /\ m[h] # <<p, h>> BY <1>i, <1>t, <2>1 DEF OwnerInv
    <2>3. \E s : store' = [store EXCEPT ![<<p, h>>] = s] BY <1>2 DEF GetResolve
    <2> HIDE DEF h
    <2>4. \A g \in Hosts : m[g] # <<p, h>>
      <3> SUFFICES ASSUME NEW g \in Hosts, m[g] = <<p, h>> PROVE FALSE OBVIOUS
      <3>1. <<p, h>> # None BY <1>t, <2>2 DEF Objects
      <3>2. PICK q \in Procs : m[g] = <<q, g>> BY <1>i, <3>1 DEF OwnerInv
      <3>3. g = h BY <3>2
      <3> QED BY <2>2, <3>3
    <2>5. \A g \in Hosts : m[g] # None => store'[m[g]] = store[m[g]] BY <1>t, <2>3, <2>4
    <2> QED BY <2>1, <2>5 DEF Published
  <1>3. ASSUME NEW p \in Procs, GetPublish(p) PROVE Abstract!Next \/ UNCHANGED Published
    <2> DEFINE h == arg[p].host
    <2>1. pc[p] = "publish" /\ store' = store BY <1>3 DEF GetPublish
    <2>2. h \in Hosts BY <1>t
    <2>3. CASE m[h] # None
      <3>1. m' = m BY <1>3, <2>3 DEF GetPublish
      <3> QED BY <1>1, <2>1, <3>1
    <2>4. CASE m[h] = None
      <3>1. arg[p].s = <<p, h>> BY <1>i, <2>1 DEF OwnerInv
      <3>2. m' = [m EXCEPT ![h] = <<p, h>>] BY <1>3, <2>4, <3>1 DEF GetPublish
      <3> HIDE DEF h
      <3>3. <<p, h>> \in Objects /\ <<p, h>> # None BY <1>t, <2>2 DEF Objects
      <3> DEFINE r == ToSet(store[<<p, h>>].ips)
      <3>4. r \in SUBSET IPs BY <1>t, <3>3 DEF ToSet
      <3>5. store[<<p, h>>].confirmed = None BY <1>i, <2>2, <2>4, <3>3 DEF OwnerInv
      <3>6. Published[h] = None BY <2>2, <2>4 DEF Published
      <3>7. m'[h] = <<p, h>> /\ \A g \in Hosts : g # h => m'[g] = m[g] BY <1>t, <2>2, <3>2
      <3>8. Published'[h] = [ips |-> r, confirmed |-> None]
        BY <2>1, <2>2, <3>3, <3>5, <3>7 DEF Published
      <3>9. \A g \in Hosts : g # h => Published'[g] = Published[g] BY <2>1, <3>7 DEF Published
      <3>10. Published' = [g \in Hosts |-> Published'[g]] /\ DOMAIN Published = Hosts
        BY DEF Published
      <3> HIDE DEF Published, r
      <3>11. Published' = [Published EXCEPT ![h] = [ips |-> r, confirmed |-> None]]
        BY <2>2, <3>8, <3>9, <3>10
      <3>12. Abstract!Get(h, r) BY <3>6, <3>11 DEF Abstract!Get, Abstract!Created
      <3> QED BY <2>2, <3>4, <3>12 DEF Abstract!Next
    <2> QED BY <2>3, <2>4
  <1>4. ASSUME NEW p \in Procs, Add(p) PROVE Abstract!Next
    <2> DEFINE h == arg[p].host
               o == arg[p].s
    <2>1. pc[p] = "ready" /\ o \in Objects /\ h \in Hosts /\ m' = m BY <1>4, HeldSet DEF Add
    <2>2. PICK r \in Resolved : store' = [store EXCEPT ![o] = [store[o] EXCEPT !.ips = addAll(@, r)]]
      BY <1>4 DEF Add
    <2> DEFINE s == [store[o] EXCEPT !.ips = addAll(@, r)]
    <2>3. ToSet(s.ips) = ToSet(store[o].ips) \cup ToSet(r) /\ s.confirmed = store[o].confirmed
      BY <2>1, StoredSets
    <2>4. ToSet(r) \in SUBSET IPs
      <3>1. r \in Seq(IPs) BY ResolvedType
      <3> QED BY <3>1 DEF ToSet
    <2> HIDE DEF s
    <2>5. /\ Published[h] = [ips |-> ToSet(store[o].ips), confirmed |-> store[o].confirmed]
          /\ Published[h] # None
          /\ Published' = [Published EXCEPT ![h] = [ips |-> ToSet(s.ips), confirmed |-> s.confirmed]]
      BY <2>1, <2>2, PublishedSet DEF s
    <2> HIDE DEF h, o
    <2>6. Published' = [Published EXCEPT ![h].ips = @ \cup ToSet(r)]
      <3>1. [ips |-> ToSet(s.ips), confirmed |-> s.confirmed]
            = [Published[h] EXCEPT !.ips = @ \cup ToSet(r)]
        BY <2>3, <2>5
      <3> QED BY <2>5, <3>1
    <2>7. Abstract!Add(h, ToSet(r)) BY <2>5, <2>6 DEF Abstract!Add, Abstract!Created
    <2> QED BY <2>1, <2>4, <2>7 DEF Abstract!Next
  <1>5. ASSUME NEW p \in Procs, ConfirmSet(p) PROVE Abstract!Next
    <2> DEFINE h == arg[p].host
               o == arg[p].s
               ip == arg[p].ip
               s == [ips |-> add(store[o].ips, ip), confirmed |-> ip]
    <2>1. pc[p] = "confirm" /\ o \in Objects /\ h \in Hosts /\ ip \in IPs /\ m' = m
      BY <1>5, <1>t, HeldSet DEF ConfirmSet
    <2>2. ToSet(s.ips) = ToSet(store[o].ips) \cup {ip} /\ s.confirmed = ip BY <2>1, StoredSets
    <2>3. store' = [store EXCEPT ![o] = s] BY <1>5 DEF ConfirmSet
    <2> HIDE DEF s
    <2>4. /\ Published[h] = [ips |-> ToSet(store[o].ips), confirmed |-> store[o].confirmed]
          /\ Published[h] # None
          /\ Published' = [Published EXCEPT ![h] = [ips |-> ToSet(s.ips), confirmed |-> s.confirmed]]
      BY <2>1, <2>3, PublishedSet
    <2> HIDE DEF h, o, ip
    <2>5. Published' = [Published EXCEPT ![h] = [ips |-> @.ips \cup {ip}, confirmed |-> ip]]
      BY <2>2, <2>4
    <2>6. Abstract!Confirm(h, ip) BY <2>4, <2>5 DEF Abstract!Confirm, Abstract!Created
    <2> QED BY <2>1, <2>6 DEF Abstract!Next
  <1>6. ASSUME NEW p \in Procs, NEW ip \in IPs, Disconfirm(p, ip) PROVE Abstract!Next
    <2> DEFINE h == arg[p].host
               o == arg[p].s
               s == [store[o] EXCEPT !.confirmed = IF @ = ip THEN None ELSE @]
    <2>1. pc[p] = "ready" /\ o \in Objects /\ h \in Hosts /\ m' = m
      BY <1>6, HeldSet DEF Disconfirm
    <2>2. store[o] \in [ips : Seq(IPs), confirmed : IPs \cup {None}] BY <1>t, <2>1
    <2>3. /\ s.ips = store[o].ips
          /\ s.confirmed = IF store[o].confirmed = ip THEN None ELSE store[o].confirmed
      BY <2>2
    <2>4. store' = [store EXCEPT ![o] = s] BY <1>6 DEF Disconfirm
    <2> HIDE DEF s
    <2>5. /\ Published[h] = [ips |-> ToSet(store[o].ips), confirmed |-> store[o].confirmed]
          /\ Published[h] # None
          /\ Published' = [Published EXCEPT ![h] = [ips |-> ToSet(s.ips), confirmed |-> s.confirmed]]
      BY <2>1, <2>4, PublishedSet
    <2> HIDE DEF h, o
    <2>6. Published' = [Published EXCEPT ![h].confirmed = IF @ = ip THEN None ELSE @]
      <3>1. [ips |-> ToSet(s.ips), confirmed |-> s.confirmed]
            = [Published[h] EXCEPT !.confirmed = IF @ = ip THEN None ELSE @]
        BY <2>3, <2>5
      <3> QED BY <2>5, <3>1
    <2>7. Abstract!Disconfirm(h, ip) BY <2>5, <2>6 DEF Abstract!Disconfirm, Abstract!Created
    <2> QED BY <2>1, <2>7 DEF Abstract!Next
  <1>7. ASSUME NEW p \in Procs,
               Drop(p) \/ (\E h \in Hosts : GetLookup(p, h)) \/ \E ip \in IPs : ConfirmTest(p, ip)
        PROVE  UNCHANGED Published
    BY <1>1, <1>7 DEF Drop, GetLookup, ConfirmTest
  <1>8. CASE UNCHANGED vars BY <1>1, <1>8 DEF vars
  <1> QED BY <1>2, <1>3, <1>4, <1>5, <1>6, <1>7, <1>8 DEF Next

----------------------------------------------------------------------------
(* The inductive invariant.                                                *)
LEMMA MapInvariance == Spec => [](TypeOK /\ MapInv)
  BY MapInit, MapNext, PTL DEF Spec

(* Type correctness; a goroutine that uses a set has one (ipmap.go:49-73). *)
THEOREM TypeCorrect == Spec => []TypeOK
  BY MapInvariance, PTL

(* However many first calls of Get overlap, all of them return the set in  *)
(* the map (ipmap.go:60-73).                                               *)
THEOREM IsSameIPSet == Spec => []SameIPSet
  <1>1. MapInv => SameIPSet BY DEF MapInv
  <1> QED BY <1>1, MapInvariance, PTL

(* No slice lists an address twice, whatever the resolver returns and      *)
(* however additions and confirmations race (ipmap.go:84-114, 142-154).    *)
THEOREM HasNoDuplicates == Spec => []NoDuplicates
  <1>1. MapInv => NoDuplicates BY DEF MapInv
  <1> QED BY <1>1, MapInvariance, PTL

(* Seen from outside, IPMap takes the steps of an atomic map: no goroutine *)
(* can tell that Get resolves without the lock, that the loser of a race   *)
(* throws its set away, or that Confirm tests before it locks.             *)
THEOREM MapIsAtomic == Spec => ImplementsIPMap
  <1>1. Init => Abstract!Init BY DEF Init, Abstract!Init, Published
  <1>2. TypeOK /\ MapInv /\ [Next]_vars => [Abstract!Next]_Published BY StepImplements
  <1> QED BY <1>1, <1>2, MapInvariance, PTL DEF Spec, ImplementsIPMap, Abstract!Spec
============================================================================
