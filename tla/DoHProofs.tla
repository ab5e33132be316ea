----------------------------- MODULE DoHProofs -----------------------------
(***************************************************************************)
(* What holds of DoH for any number of concurrent queries, hosts, server   *)
(* addresses, query IDs, query lengths and redirects.                      *)
(***************************************************************************)
EXTENDS DoH, TLAPS

(***************************************************************************)
(* EDNS padding, for a query of any length.                                *)
(***************************************************************************)
(* The padded length is a whole number of blocks, and no smaller number of *)
(* blocks holds the message and the option's header.                       *)
LEMMA PaddingFills ==
  ASSUME NEW n \in Nat
  PROVE  /\ computePaddingSize(n, 128) \in 0..127
         /\ (n + 4 + computePaddingSize(n, 128)) % 128 = 0
  <1> DEFINE k == (n + 4) % 128
  <1>1. k \in 0..127 OBVIOUS
  <1>2. computePaddingSize(n, 128) = (128 - k) % 128
    BY DEF computePaddingSize, kOptPaddingHeaderLen
  <1>3. CASE k = 0
    <2>1. computePaddingSize(n, 128) = 0 BY <1>2, <1>3
    <2> QED BY <1>3, <2>1
  <1>4. CASE k # 0
    <2>1. computePaddingSize(n, 128) = 128 - k BY <1>1, <1>2, <1>4
    <2>2. (n + 4 + (128 - k)) % 128 = 0 BY <1>1
    <2> QED BY <1>1, <1>4, <2>1, <2>2
  <1> QED BY <1>3, <1>4

(* What AddEdnsPadding returns.                                            *)
LEMMA PaddingLength ==
  ASSUME NEW kind, NEW len \in Nat
  PROVE  /\ AddEdnsPadding(kind, len) \in Nat
         /\ IF kind = "padded" THEN AddEdnsPadding(kind, len) = len
            ELSE LET least == CompressedLen(kind, len) + kOptPaddingHeaderLen
                 IN  /\ AddEdnsPadding(kind, len) % PaddingBlockSize = 0
                     /\ AddEdnsPadding(kind, len) \in least..(least + PaddingBlockSize - 1)
  <1>1. CASE kind = "padded" BY <1>1 DEF AddEdnsPadding
  <1>2. CASE kind # "padded"
    <2> DEFINE n == CompressedLen(kind, len)
    <2>1. n \in Nat BY DEF CompressedLen, kOptRrHeaderLen
    <2>2. AddEdnsPadding(kind, len) = n + 4 + computePaddingSize(n, 128)
      BY <1>2 DEF AddEdnsPadding, kOptPaddingHeaderLen, PaddingBlockSize
    <2> HIDE DEF n
    <2>3. /\ computePaddingSize(n, 128) \in 0..127
          /\ (n + 4 + computePaddingSize(n, 128)) % 128 = 0
      BY <2>1, PaddingFills
    <2>4. /\ AddEdnsPadding(kind, len) \in Nat /\ AddEdnsPadding(kind, len) % 128 = 0
          /\ AddEdnsPadding(kind, len) \in (n + 4)..((n + 4) + 128 - 1)
      <3> DEFINE c == computePaddingSize(n, 128)
      <3>1. c \in 0..127 /\ AddEdnsPadding(kind, len) = n + 4 + c BY <2>2, <2>3
      <3> HIDE DEF c
      <3>2. n + 4 + c \in Nat /\ n + 4 + c \in (n + 4)..((n + 4) + 128 - 1) BY <2>1, <3>1
      <3> QED BY <2>2, <2>3, <3>1, <3>2
    <2>5. kOptPaddingHeaderLen = 4 /\ PaddingBlockSize = 128
      BY DEF kOptPaddingHeaderLen, PaddingBlockSize
    <2> QED BY <1>2, <2>4, <2>5 DEF n
  <1> QED BY <1>1, <1>2

(***************************************************************************)
(* The inductive invariant, by the local variables v of one Query call.    *)
(***************************************************************************)
(* dial has the set of its host; it has tried nothing when it tries the    *)
(* confirmed address and at most that one when it reads the others, which  *)
(* do not include it; what it has left to try it has not tried.  A TLS     *)
(* handshake is with the last address tried.                               *)
DialInv(v, s) ==
  /\ v.pc \in {"dialConfirmed", "dialAll", "dialNext"} => s[v.host] # None
  /\ v.pc = "dialConfirmed" => v.confirmed # None /\ v.tried = << >>
  /\ v.pc = "dialAll" => ToSet(v.tried) \subseteq {v.confirmed}
  /\ v.pc = "dialNext" => ToSet(v.tried) \cap v.todo = {}
  /\ v.pc = "handshake" => v.tried # << >>
  /\ IsInjective(v.tried)

(* The ID is in the slice q before and after the exchange, and what        *)
(* ResponseMatches says of an answer holds from where it is made.          *)
AnswerInv(v) ==
  /\ v.pc = "check" => v.wire = v.id /\ v.response = None
  /\ v.pc \in {"confirm", "report", "done"} =>
       /\ v.response \in {v.id, None}
       /\ v.status = "Complete" \/ v.kind \in {"plain", "edns", "padded"} => v.response = v.id
       /\ v.wire = v.id

(* Nothing has failed before the cleanup, and only SendFailed can come     *)
(* without the headers of a response.                                      *)
ReplyInv(v) ==
  /\ v.pc \in {"check", "connect", "dialConfirmed", "dialAll", "dialNext", "handshake",
               "exchange", "body"}
       => v.status = "Complete"
  /\ v.pc = "body" => v.headers
  /\ v.pc \in {"cleanup", "judge"} =>
       /\ v.status \in {"Complete", "SendFailed", "HTTPError", "BadResponse"}
       /\ v.status # "SendFailed" => v.headers

(* What is sent is what AddEdnsPadding made of the query.                  *)
SizeInv(v) == v.size \in {0, AddEdnsPadding(v.kind, v.len)}

(* OnQuery comes first and OnResponse last.                                *)
ReportInv(v, r) == (v.pc = "idle" => r.OnQuery = 0) /\ (v.pc # "done" => r.OnResponse = 0)

QueryInv ==
  \A x \in Queries : /\ DialInv(q[x], sets) /\ AnswerInv(q[x]) /\ ReplyInv(q[x])
                     /\ SizeInv(q[x]) /\ ReportInv(q[x], reports[x])

(* A step of the call x that leaves v in its variables and takes no set    *)
(* from the map keeps the invariant if v satisfies its parts.              *)
LEMMA CallStep ==
  ASSUME TypeOK, QueryInv, NEW x \in Queries, NEW v \in Locals,
         q' = [q EXCEPT ![x] = v],
         sets' \in [Hosts -> Map!IPSets \cup {None}],
         \A h \in Hosts : sets[h] # None => sets'[h] # None,
         hangover' \in BOOLEAN, conns' \subseteq Hosts \X IPs,
         reports' \in [Queries -> [OnQuery : 0..1, OnResponse : 0..1]],
         \A y \in Queries : y # x => reports'[y] = reports[y],
         DialInv(v, sets'), AnswerInv(v), ReplyInv(v), SizeInv(v), ReportInv(v, reports'[x])
  PROVE  TypeOK' /\ QueryInv'
  <1>1. q' \in [Queries -> Locals] BY DEF TypeOK
  <1>2. q'[x] = v /\ \A y \in Queries : y # x => q'[y] = q[y] BY DEF TypeOK
  <1>3. TypeOK' BY <1>1 DEF TypeOK
  <1>4. ASSUME NEW y \in Queries
        PROVE  /\ DialInv(q'[y], sets') /\ AnswerInv(q'[y]) /\ ReplyInv(q'[y])
               /\ SizeInv(q'[y]) /\ ReportInv(q'[y], reports'[y])
    <2>1. CASE y = x BY <1>2, <2>1
    <2>2. CASE y # x
      <3>1. q'[y] = q[y] /\ reports'[y] = reports[y] BY <1>2, <2>2
      <3>2. /\ DialInv(q[y], sets) /\ AnswerInv(q[y]) /\ ReplyInv(q[y])
            /\ SizeInv(q[y]) /\ ReportInv(q[y], reports[y])
        BY DEF QueryInv
      <3>3. q[y].host \in Hosts BY DEF TypeOK, Locals
      <3>4. DialInv(q[y], sets') BY <3>2, <3>3 DEF DialInv
      <3> QED BY <3>1, <3>2, <3>4
    <2> QED BY <2>1, <2>2
  <1>5. QueryInv' BY <1>4 DEF QueryInv
  <1> QED BY <1>3, <1>5

(* The same for a step that changes nothing but these variables and the    *)
(* connections.                                                            *)
LEMMA LocalStep ==
  ASSUME TypeOK, QueryInv, NEW x \in Queries, NEW v \in Locals,
         q' = [q EXCEPT ![x] = v], UNCHANGED <<sets, hangover, reports>>,
         conns' \subseteq Hosts \X IPs, q[x].pc # "idle", v.pc \notin {"idle", "done"},
         q[x].pc # "done",
         DialInv(v, sets), AnswerInv(v), ReplyInv(v), SizeInv(v)
  PROVE  TypeOK' /\ QueryInv'
  <1>1. ReportInv(v, reports[x]) BY DEF QueryInv, ReportInv
  <1> QED BY <1>1, CallStep DEF TypeOK

(* The same for a step between the first test of doQuery and its judgement *)
(* of the response, which makes no answer and reports nothing.             *)
LEMMA SendStep ==
  ASSUME TypeOK, QueryInv, NEW x \in Queries, NEW v \in Locals,
         q[x].pc \notin {"idle", "done"},
         v.pc \in {"connect", "dialConfirmed", "dialAll", "dialNext", "handshake", "exchange",
                   "body", "cleanup", "judge"},
         q' = [q EXCEPT ![x] = v], UNCHANGED <<hangover, reports>>,
         sets' \in [Hosts -> Map!IPSets \cup {None}],
         \A h \in Hosts : sets[h] # None => sets'[h] # None,
         conns' \subseteq Hosts \X IPs,
         v.kind = q[x].kind, v.len = q[x].len,
         v.size \in {q[x].size, AddEdnsPadding(v.kind, v.len)},
         DialInv(v, sets'), ReplyInv(v)
  PROVE  TypeOK' /\ QueryInv'
  <1>1. AnswerInv(v) BY DEF AnswerInv
  <1>2. SizeInv(v) BY DEF QueryInv, SizeInv
  <1>3. ReportInv(v, reports'[x]) BY DEF QueryInv, ReportInv
  <1> QED BY <1>1, <1>2, <1>3, CallStep DEF TypeOK

(* The names of the steps and of the statuses.                             *)
LEMMA Names ==
  /\ {"idle", "check", "connect", "dialConfirmed", "dialAll", "dialNext", "handshake",
      "exchange", "body", "cleanup", "judge", "confirm", "report", "done"} \subseteq PCs
  /\ {"Complete", "SendFailed", "HTTPError", "BadQuery", "BadResponse", "InternalError"}
     \subseteq Statuses
  BY DEF PCs, Statuses

(* A new call's variables.                                                 *)
LEMMA FreshType ==
  ASSUME NEW id \in Ids, NEW kind \in Kinds, NEW len \in Lengths
  PROVE  Fresh(id, kind, len) \in Locals
  <1>1. << >> \in Seq(IPs) /\ 0 \in 0..MaxRedirects /\ Home \in Hosts BY DoHAssumption
  <1>2. "idle" \in PCs /\ "Complete" \in Statuses BY Names
  <1> QED BY <1>1, <1>2 DEF Locals, Fresh

(* Query takes a query of any kind.                                        *)
LEMMA QueryNext ==
  ASSUME TypeOK, QueryInv, NEW x \in Queries, Query(x)
  PROVE  TypeOK' /\ QueryInv'
  <1>1. PICK id \in Ids, kind \in Kinds, len \in Lengths :
          q' = [q EXCEPT ![x] = IF kind = "short"
                                THEN [Fresh(id, kind, len) EXCEPT !.pc = "report",
                                                                  !.status = "BadQuery"]
                                ELSE [Fresh(id, kind, len) EXCEPT !.pc = "check"]]
    BY DEF Query
  <1> DEFINE v == IF kind = "short"
                  THEN [Fresh(id, kind, len) EXCEPT !.pc = "report", !.status = "BadQuery"]
                  ELSE [Fresh(id, kind, len) EXCEPT !.pc = "check"]
  <1>2. q' = [q EXCEPT ![x] = v] BY <1>1
  <1>3. v \in Locals
    <2>1. {"report", "check"} \subseteq PCs /\ "BadQuery" \in Statuses BY Names
    <2>2. Fresh(id, kind, len) \in Locals BY FreshType
    <2> QED BY <2>1, <2>2 DEF Locals
  <1>4. /\ v.pc = IF kind = "short" THEN "report" ELSE "check"
        /\ v.status = IF kind = "short" THEN "BadQuery" ELSE "Complete"
        /\ v.id = id /\ v.wire = id /\ v.response = None /\ v.kind = kind /\ v.size = 0
        /\ v.tried = << >>
    BY DEF Fresh
  <1> HIDE DEF v
  <1>5. IsInjective(<< >>) BY DEF IsInjective
  <1>6. DialInv(v, sets) BY <1>4, <1>5 DEF DialInv
  <1>7. AnswerInv(v) /\ ReplyInv(v) /\ SizeInv(v) BY <1>4 DEF AnswerInv, ReplyInv, SizeInv
  <1>8. /\ reports' \in [Queries -> [OnQuery : 0..1, OnResponse : 0..1]]
        /\ reports'[x].OnResponse = reports[x].OnResponse
        /\ \A y \in Queries : y # x => reports'[y] = reports[y]
    BY DEF Query, TypeOK, QueryInv, ReportInv
  <1>9. ReportInv(v, reports'[x]) BY <1>4, <1>8 DEF Query, QueryInv, ReportInv
  <1> QED BY <1>2, <1>3, <1>6, <1>7, <1>8, <1>9, CallStep DEF Query, TypeOK

(* The hangover's refusal answers a DNS message with its own ID.           *)
LEMMA RefuseNext ==
  ASSUME TypeOK, QueryInv, NEW x \in Queries, Refuse(x)
  PROVE  TypeOK' /\ QueryInv'
  <1> DEFINE v == [q[x] EXCEPT !.status = "HTTPError", !.response = tryServfail(x),
                               !.pc = "report"]
  <1>1. q[x] \in Locals /\ q[x].pc = "check" BY DEF TypeOK, Refuse
  <1>2. q' = [q EXCEPT ![x] = v] BY DEF Refuse, TypeOK
  <1>3. /\ v \in Locals
        /\ v.pc = "report" /\ v.status = "HTTPError" /\ v.response = tryServfail(x)
        /\ v.id = q[x].id /\ v.wire = q[x].wire /\ v.kind = q[x].kind
        /\ v.len = q[x].len /\ v.size = q[x].size /\ v.tried = q[x].tried
    <2>1. tryServfail(x) \in Ids \cup {None, Truncated} BY <1>1 DEF Locals, tryServfail
    <2>2. "report" \in PCs /\ "HTTPError" \in Statuses BY Names
    <2> QED BY <1>1, <2>1, <2>2 DEF Locals
  <1> HIDE DEF v
  <1>4. DialInv(v, sets) BY <1>3 DEF DialInv, QueryInv
  <1>5. AnswerInv(v) BY <1>1, <1>3 DEF AnswerInv, QueryInv, tryServfail
  <1>6. ReplyInv(v) /\ SizeInv(v) BY <1>3 DEF ReplyInv, SizeInv, QueryInv
  <1> QED BY <1>1, <1>2, <1>3, <1>4, <1>5, <1>6, LocalStep DEF Refuse, TypeOK

(* A failure of any sort ends in the deferred cleanup.                     *)
LEMMA FailureNext ==
  ASSUME TypeOK, QueryInv, NEW x \in Queries,
         DialFails(x) \/ SendFails(x) \/ BodyFails(x) \/ BadStatus(x)
  PROVE  TypeOK' /\ QueryInv'
  <1>1. q[x] \in Locals /\ DialInv(q[x], sets) /\ ReplyInv(q[x]) BY DEF TypeOK, QueryInv
  <1>2. UNCHANGED <<sets, hangover, conns, reports>>
    BY DEF DialFails, SendFails, BodyFails, BadStatus
  <1>3. "cleanup" \in PCs /\ {"SendFailed", "HTTPError", "BadResponse"} \subseteq Statuses
    BY Names
  <1>4. PICK st \in Statuses, h \in Hosts :
          /\ q' = [q EXCEPT ![x] = [q[x] EXCEPT !.hostname = h, !.status = st, !.pc = "cleanup"]]
          /\ q[x].pc \in {"dialNext", "exchange", "body"}
          /\ st \in {"SendFailed", "HTTPError", "BadResponse"}
          /\ st # "SendFailed" => q[x].pc = "body"
    <2>1. q[x].hostname \in Hosts /\ q[x].host \in Hosts BY <1>1 DEF Locals
    <2>2. CASE DialFails(x) \/ SendFails(x)
      <3>1. q' = [q EXCEPT ![x] = [q[x] EXCEPT !.hostname = q[x].hostname,
                                               !.status = "SendFailed", !.pc = "cleanup"]]
        BY <1>1, <2>2 DEF DialFails, SendFails, TypeOK, Locals
      <3> QED BY <1>3, <2>1, <2>2, <3>1 DEF DialFails, SendFails
    <2>3. CASE BodyFails(x)
      <3>1. q' = [q EXCEPT ![x] = [q[x] EXCEPT !.hostname = q[x].hostname,
                                               !.status = "BadResponse", !.pc = "cleanup"]]
        BY <1>1, <2>3 DEF BodyFails, TypeOK, Locals
      <3> QED BY <1>3, <2>1, <2>3, <3>1 DEF BodyFails
    <2>4. CASE BadStatus(x)
      <3>1. q' = [q EXCEPT ![x] = [q[x] EXCEPT !.hostname = q[x].host,
                                               !.status = "HTTPError", !.pc = "cleanup"]]
        BY <1>1, <2>4 DEF BadStatus, TypeOK
      <3> QED BY <1>3, <2>1, <2>4, <3>1 DEF BadStatus
    <2> QED BY <2>2, <2>3, <2>4
  <1> DEFINE v == [q[x] EXCEPT !.hostname = h, !.status = st, !.pc = "cleanup"]
  <1>5. /\ v \in Locals /\ v.pc = "cleanup" /\ v.status = st /\ v.headers = q[x].headers
        /\ v.kind = q[x].kind /\ v.len = q[x].len /\ v.size = q[x].size
        /\ v.tried = q[x].tried
    BY <1>1, <1>3 DEF Locals
  <1>6. q' = [q EXCEPT ![x] = v] BY <1>4
  <1> HIDE DEF v
  <1>7. DialInv(v, sets) BY <1>1, <1>5 DEF DialInv
  <1>8. ReplyInv(v) BY <1>1, <1>4, <1>5 DEF ReplyInv
  <1> QED BY <1>2, <1>4, <1>5, <1>6, <1>7, <1>8, SendStep DEF TypeOK

(* An address that was not tried before.                                   *)
LEMMA TryAnother ==
  ASSUME NEW s \in Seq(IPs), NEW ip \in IPs, IsInjective(s), ip \notin ToSet(s)
  PROVE  /\ Append(s, ip) \in Seq(IPs) /\ IsInjective(Append(s, ip))
         /\ ToSet(Append(s, ip)) = ToSet(s) \cup {ip}
  <1>1. /\ Append(s, ip) \in Seq(IPs) /\ Len(s) \in Nat
        /\ \A i \in 1..Len(s) : Append(s, ip)[i] = s[i]
        /\ Append(s, ip)[Len(s) + 1] = ip
        /\ DOMAIN s = 1..Len(s) /\ DOMAIN Append(s, ip) = 1..(Len(s) + 1)
    OBVIOUS
  <1>2. \A i \in 1..Len(s) : s[i] # ip BY <1>1 DEF ToSet
  <1> QED BY <1>1, <1>2 DEF ToSet, IsInjective

(* The operations on the shared map keep its type and remove no set.       *)
LEMMA MapSteps ==
  ASSUME TypeOK, NEW h \in Hosts, NEW ip \in IPs \cup {None}, NEW r \in SUBSET IPs,
         Map!Get(h, r) \/ (ip \in IPs /\ Map!Confirm(h, ip)) \/ Map!Disconfirm(h, ip)
  PROVE  /\ sets' \in [Hosts -> Map!IPSets \cup {None}]
         /\ \A g \in Hosts : sets[g] # None => sets'[g] # None
  <1>1. None \notin Map!IPSets BY DoHAssumption DEF Map!IPSets
  <1>2. ASSUME NEW s \in Map!IPSets, sets' = [sets EXCEPT ![h] = s]
        PROVE  /\ sets' \in [Hosts -> Map!IPSets \cup {None}]
               /\ \A g \in Hosts : sets[g] # None => sets'[g] # None
    BY <1>1, <1>2 DEF TypeOK
  <1>3. CASE Map!Get(h, r)
    <2> DEFINE s == [ips |-> r, confirmed |-> None]
    <2>1. s \in Map!IPSets BY DEF Map!IPSets
    <2>2. sets' = [sets EXCEPT ![h] = s] BY <1>3 DEF Map!Get
    <2> QED BY <1>2, <2>1, <2>2
  <1>4. CASE ip \in IPs /\ Map!Confirm(h, ip)
    <2> DEFINE s == [ips |-> sets[h].ips \cup {ip}, confirmed |-> ip]
    <2>1. sets[h] \in Map!IPSets BY <1>4 DEF Map!Confirm, Map!Created, TypeOK
    <2>2. s \in Map!IPSets BY <1>4, <2>1 DEF Map!IPSets
    <2>3. sets' = [sets EXCEPT ![h] = s] BY <1>4 DEF Map!Confirm
    <2> QED BY <1>2, <2>2, <2>3
  <1>5. CASE Map!Disconfirm(h, ip)
    <2> DEFINE s == [sets[h] EXCEPT !.confirmed = IF @ = ip THEN None ELSE @]
    <2>1. sets[h] \in Map!IPSets BY <1>5 DEF Map!Disconfirm, Map!Created, TypeOK
    <2>2. s \in Map!IPSets BY <2>1 DEF Map!IPSets
    <2>3. sets' = [sets EXCEPT ![h] = s] BY <1>5 DEF Map!Disconfirm
    <2> QED BY <1>2, <2>2, <2>3
  <1> QED BY <1>3, <1>4, <1>5

(* Padding, and the zero ID.                                               *)
LEMMA PrepareNext ==
  ASSUME TypeOK, QueryInv, NEW x \in Queries, Prepare(x)
  PROVE  TypeOK' /\ QueryInv'
  <1>1. /\ q[x] \in Locals /\ DialInv(q[x], sets) /\ AnswerInv(q[x]) /\ ReplyInv(q[x])
        /\ SizeInv(q[x]) /\ q[x].pc = "check"
    BY DEF TypeOK, QueryInv, Prepare
  <1>2. UNCHANGED <<sets, hangover, conns, reports>> BY DEF Prepare
  <1>3. {"connect", "report"} \subseteq PCs /\ "InternalError" \in Statuses BY Names
  <1>4. CASE q[x].kind = "garbage"
    <2> DEFINE v == [q[x] EXCEPT !.status = "InternalError", !.pc = "report"]
    <2>1. q' = [q EXCEPT ![x] = v] BY <1>4 DEF Prepare
    <2>2. /\ v \in Locals /\ v.pc = "report" /\ v.status = "InternalError"
          /\ v.kind = q[x].kind /\ v.id = q[x].id /\ v.wire = q[x].wire
          /\ v.response = q[x].response /\ v.len = q[x].len /\ v.size = q[x].size
          /\ v.tried = q[x].tried
      BY <1>1, <1>3 DEF Locals
    <2> HIDE DEF v
    <2>3. DialInv(v, sets) BY <1>1, <2>2 DEF DialInv
    <2>4. AnswerInv(v) BY <1>1, <1>4, <2>2 DEF AnswerInv
    <2>5. ReplyInv(v) /\ SizeInv(v) BY <1>1, <2>2 DEF ReplyInv, SizeInv
    <2> QED BY <1>1, <1>2, <2>1, <2>2, <2>3, <2>4, <2>5, LocalStep DEF TypeOK
  <1>5. CASE q[x].kind # "garbage"
    <2> DEFINE n == AddEdnsPadding(q[x].kind, q[x].len)
               v == [q[x] EXCEPT !.wire = 0, !.size = n, !.pc = "connect"]
    <2>1. q' = [q EXCEPT ![x] = v] BY <1>5 DEF Prepare
    <2>2. n \in Nat /\ 0 \in Ids
      <3>1. q[x].len \in Nat BY <1>1, DoHAssumption DEF Locals
      <3> QED BY <3>1, PaddingLength, DoHAssumption
    <2> HIDE DEF n
    <2>3. /\ v \in Locals /\ v.pc = "connect" /\ v.status = q[x].status
          /\ v.kind = q[x].kind /\ v.len = q[x].len /\ v.size = n /\ v.tried = q[x].tried
      BY <1>1, <1>3, <2>2 DEF Locals
    <2> HIDE DEF v
    <2>4. DialInv(v, sets) BY <1>1, <2>3 DEF DialInv
    <2>5. ReplyInv(v) BY <1>1, <2>3 DEF ReplyInv
    <2>6. v.size = AddEdnsPadding(v.kind, v.len) BY <2>3 DEF n
    <2> QED BY <1>1, <1>2, <2>1, <2>3, <2>4, <2>5, <2>6, SendStep DEF TypeOK
  <1> QED BY <1>4, <1>5

(* A connection of the client, old or new: GotConn.                        *)
LEMMA ReuseNext ==
  ASSUME TypeOK, QueryInv, NEW x \in Queries, Reuse(x)
  PROVE  TypeOK' /\ QueryInv'
  <1>1. /\ q[x] \in Locals /\ DialInv(q[x], sets) /\ ReplyInv(q[x]) /\ q[x].pc = "connect"
    BY DEF TypeOK, QueryInv, Reuse
  <1>2. UNCHANGED <<sets, hangover, conns, reports>> BY DEF Reuse
  <1>3. PICK ip \in IPs :
          q' = [q EXCEPT ![x] = [q[x] EXCEPT !.server = ip, !.via = <<q[x].host, ip>>,
                                             !.pc = "exchange"]]
    BY DEF Reuse, TypeOK
  <1> DEFINE c == <<q[x].host, ip>>
             v == [q[x] EXCEPT !.server = ip, !.via = c, !.pc = "exchange"]
  <1>4. c \in Hosts \X IPs /\ c # None BY <1>1, DoHAssumption DEF Locals
  <1>5. q' = [q EXCEPT ![x] = v] BY <1>3
  <1> HIDE DEF c
  <1>6. /\ v \in Locals /\ v.pc = "exchange" /\ v.status = q[x].status /\ v.via = c
        /\ v.kind = q[x].kind /\ v.len = q[x].len /\ v.size = q[x].size
        /\ v.tried = q[x].tried
    <2>1. "exchange" \in PCs BY Names
    <2> QED BY <1>1, <1>4, <2>1 DEF Locals
  <1> HIDE DEF v
  <1>7. DialInv(v, sets) BY <1>1, <1>6 DEF DialInv
  <1>8. ReplyInv(v) BY <1>1, <1>4, <1>6 DEF ReplyInv
  <1> QED BY <1>1, <1>2, <1>5, <1>6, <1>7, <1>8, SendStep DEF TypeOK

(* dial reads the map, and makes the set of a host that is new to it.      *)
LEMMA DialNextStep ==
  ASSUME TypeOK, QueryInv, NEW x \in Queries, Dial(x)
  PROVE  TypeOK' /\ QueryInv'
  <1>1. /\ q[x] \in Locals /\ DialInv(q[x], sets) /\ ReplyInv(q[x]) /\ q[x].pc = "connect"
    BY DEF TypeOK, QueryInv, Dial
  <1> DEFINE h == q[x].host
  <1>2. h \in Hosts BY <1>1 DEF Locals
  <1>3. UNCHANGED <<hangover, conns, reports>> BY DEF Dial
  <1>4. PICK ip \in IPs \cup {None}, to \in {"dialAll", "dialConfirmed"} :
          /\ q' = [q EXCEPT ![x] = [q[x] EXCEPT !.confirmed = ip, !.tried = << >>, !.pc = to]]
          /\ to = "dialConfirmed" => ip # None
          /\ sets' \in [Hosts -> Map!IPSets \cup {None}]
          /\ \A g \in Hosts : sets[g] # None => sets'[g] # None
          /\ sets'[h] # None
    <2>1. CASE Map!Created(h)
      <3>1. sets' = sets /\ sets[h] # None BY <2>1 DEF Dial, Map!Created
      <3>2. sets[h] \in Map!IPSets BY <1>2, <3>1 DEF TypeOK
      <3>3. sets[h].confirmed \in IPs \cup {None} BY <3>2 DEF Map!IPSets
      <3>4. q' = [q EXCEPT ![x] = [q[x] EXCEPT !.confirmed = sets[h].confirmed, !.tried = << >>,
                     !.pc = IF sets[h].confirmed = None THEN "dialAll" ELSE "dialConfirmed"]]
        BY <2>1 DEF Dial, TypeOK
      <3>5. sets' \in [Hosts -> Map!IPSets \cup {None}] BY <3>1 DEF TypeOK
      <3>6. CASE sets[h].confirmed = None BY <3>1, <3>3, <3>4, <3>5, <3>6
      <3>7. CASE sets[h].confirmed # None BY <3>1, <3>3, <3>4, <3>5, <3>7
      <3> QED BY <3>6, <3>7
    <2>2. CASE ~Map!Created(h)
      <3>1. PICK r \in SUBSET Addr[h] : Map!Get(h, r) BY <2>2 DEF Dial
      <3>2. r \in SUBSET IPs BY <1>2, DoHAssumption
      <3>3. /\ sets' \in [Hosts -> Map!IPSets \cup {None}]
            /\ \A g \in Hosts : sets[g] # None => sets'[g] # None
        BY <1>2, <3>1, <3>2, MapSteps
      <3>4. sets'[h] = [ips |-> r, confirmed |-> None] BY <1>2, <3>1 DEF Map!Get, TypeOK
      <3>5. sets'[h] # None BY <3>2, <3>4, DoHAssumption
      <3>6. q' = [q EXCEPT ![x] = [q[x] EXCEPT !.confirmed = None, !.tried = << >>,
                                               !.pc = "dialAll"]]
        BY <2>2 DEF Dial, TypeOK
      <3> QED BY <3>3, <3>5, <3>6
    <2> QED BY <2>1, <2>2
  <1> DEFINE v == [q[x] EXCEPT !.confirmed = ip, !.tried = << >>, !.pc = to]
  <1>5. q' = [q EXCEPT ![x] = v] BY <1>4
  <1>6. /\ v \in Locals /\ v.pc = to /\ v.status = q[x].status /\ v.host = h
        /\ v.confirmed = ip /\ v.tried = << >>
        /\ v.kind = q[x].kind /\ v.len = q[x].len /\ v.size = q[x].size
    <2>1. to \in PCs BY Names
    <2>2. << >> \in Seq(IPs) OBVIOUS
    <2> QED BY <1>1, <2>1, <2>2 DEF Locals
  <1> HIDE DEF v, h
  <1>7. DialInv(v, sets')
    <2>1. IsInjective(<< >>) /\ ToSet(<< >>) = {} BY DEF IsInjective, ToSet
    <2> QED BY <1>4, <1>6, <2>1 DEF DialInv
  <1>8. ReplyInv(v) BY <1>1, <1>6 DEF ReplyInv
  <1> QED BY <1>1, <1>3, <1>4, <1>5, <1>6, <1>7, <1>8, SendStep DEF TypeOK

(* DialWithSplitRetry connects to an address that dial has not tried.      *)
LEMMA ConnectedNext ==
  ASSUME TypeOK, QueryInv, NEW x \in Queries, NEW ip \in IPs,
         q[x].pc \in {"dialConfirmed", "dialNext"}, ip \notin ToSet(q[x].tried),
         Connected(x, ip), UNCHANGED <<hangover, conns, reports>>
  PROVE  TypeOK' /\ QueryInv'
  <1>1. /\ q[x] \in Locals /\ DialInv(q[x], sets) /\ ReplyInv(q[x])
    BY DEF TypeOK, QueryInv
  <1> DEFINE tr == Append(q[x].tried, ip)
             v == [q[x] EXCEPT !.tried = tr, !.pc = "handshake"]
  <1>2. tr \in Seq(IPs) /\ IsInjective(tr) /\ tr # << >>
    <2>1. q[x].tried \in Seq(IPs) /\ IsInjective(q[x].tried) BY <1>1 DEF Locals, DialInv
    <2>2. tr # << >> BY <2>1
    <2> QED BY <2>1, <2>2, TryAnother
  <1>3. q' = [q EXCEPT ![x] = v] BY DEF Connected, TypeOK
  <1> HIDE DEF tr
  <1>4. /\ v \in Locals /\ v.pc = "handshake" /\ v.status = q[x].status
        /\ v.kind = q[x].kind /\ v.len = q[x].len /\ v.size = q[x].size /\ v.tried = tr
    <2>1. "handshake" \in PCs BY Names
    <2> QED BY <1>1, <1>2, <2>1 DEF Locals
  <1> HIDE DEF v
  <1>5. DialInv(v, sets) BY <1>2, <1>4 DEF DialInv
  <1>6. ReplyInv(v) BY <1>1, <1>4 DEF ReplyInv
  <1>7. sets' = sets BY DEF Connected
  <1> QED BY <1>3, <1>4, <1>5, <1>6, <1>7, SendStep DEF TypeOK

(* The TLS handshake with that address.                                    *)
LEMMA HandshakeNext ==
  ASSUME TypeOK, QueryInv, NEW x \in Queries, Handshake(x)
  PROVE  TypeOK' /\ QueryInv'
  <1>1. /\ q[x] \in Locals /\ DialInv(q[x], sets) /\ ReplyInv(q[x]) /\ q[x].pc = "handshake"
    BY DEF TypeOK, QueryInv, Handshake
  <1>2. UNCHANGED <<sets, hangover, reports>> BY DEF Handshake
  <1> DEFINE ip == Last(q[x].tried)
             c == <<q[x].host, ip>>
  <1>3. ip \in IPs
    <2>1. q[x].tried \in Seq(IPs) /\ q[x].tried # << >> BY <1>1 DEF Locals, DialInv
    <2> QED BY <2>1 DEF Last
  <1>4. c \in Hosts \X IPs BY <1>1, <1>3 DEF Locals
  <1>5. {"exchange", "cleanup"} \subseteq PCs /\ "SendFailed" \in Statuses BY Names
  <1>6. CASE /\ q' = [q EXCEPT ![x].server = ip, ![x].via = c, ![x].pc = "exchange"]
             /\ conns' = conns \cup {c}
    <2> DEFINE v == [q[x] EXCEPT !.server = ip, !.via = c, !.pc = "exchange"]
    <2>1. q' = [q EXCEPT ![x] = v] BY <1>6 DEF TypeOK
    <2> HIDE DEF c, ip
    <2>2. /\ v \in Locals /\ v.pc = "exchange" /\ v.status = q[x].status
          /\ v.kind = q[x].kind /\ v.len = q[x].len /\ v.size = q[x].size
          /\ v.tried = q[x].tried
      BY <1>1, <1>3, <1>4, <1>5 DEF Locals
    <2> HIDE DEF v
    <2>3. DialInv(v, sets) BY <1>1, <2>2 DEF DialInv
    <2>4. ReplyInv(v) BY <1>1, <2>2 DEF ReplyInv
    <2>5. conns' \subseteq Hosts \X IPs BY <1>4, <1>6 DEF TypeOK
    <2> QED BY <1>1, <1>2, <2>1, <2>2, <2>3, <2>4, <2>5, SendStep DEF TypeOK
  <1>7. CASE /\ q' = [q EXCEPT ![x].status = "SendFailed", ![x].pc = "cleanup"]
             /\ UNCHANGED conns
    <2> DEFINE v == [q[x] EXCEPT !.status = "SendFailed", !.pc = "cleanup"]
    <2>1. q' = [q EXCEPT ![x] = v] BY <1>7 DEF TypeOK
    <2>2. /\ v \in Locals /\ v.pc = "cleanup" /\ v.status = "SendFailed"
          /\ v.kind = q[x].kind /\ v.len = q[x].len /\ v.size = q[x].size
          /\ v.tried = q[x].tried
      BY <1>1, <1>5 DEF Locals
    <2> HIDE DEF v
    <2>3. DialInv(v, sets) BY <1>1, <2>2 DEF DialInv
    <2>4. ReplyInv(v) BY <2>2 DEF ReplyInv
    <2> QED BY <1>1, <1>2, <1>7, <2>1, <2>2, <2>3, <2>4, SendStep DEF TypeOK
  <1> QED BY <1>6, <1>7 DEF Handshake

(* The confirmed address: it is tried first and, if it fails, remembered   *)
(* as the one not to try again.                                            *)
LEMMA DialConfirmedNext ==
  ASSUME TypeOK, QueryInv, NEW x \in Queries, DialConfirmed(x)
  PROVE  TypeOK' /\ QueryInv'
  <1>1. /\ q[x] \in Locals /\ DialInv(q[x], sets) /\ ReplyInv(q[x])
        /\ q[x].pc = "dialConfirmed"
    BY DEF TypeOK, QueryInv, DialConfirmed
  <1> DEFINE ip == q[x].confirmed
  <1>2. /\ ip \in IPs /\ q[x].tried = << >> /\ q[x].host \in Hosts
        /\ sets[q[x].host] # None
    BY <1>1 DEF DialInv, Locals
  <1>3. UNCHANGED <<hangover, conns, reports>> BY DEF DialConfirmed
  <1>4. ToSet(<< >>) = {} /\ IsInjective(<< >>) /\ << >> \in Seq(IPs)
    BY DEF ToSet, IsInjective
  <1>5. CASE Connected(x, ip)
    <2>1. ip \notin ToSet(q[x].tried) BY <1>2, <1>4
    <2> QED BY <1>1, <1>2, <1>3, <1>5, <2>1, ConnectedNext
  <1>6. CASE /\ Map!Disconfirm(q[x].host, ip)
             /\ q' = [q EXCEPT ![x].tried = Append(@, q[x].confirmed), ![x].pc = "dialAll"]
    <2> DEFINE tr == Append(q[x].tried, ip)
               v == [q[x] EXCEPT !.tried = tr, !.pc = "dialAll"]
    <2>1. tr \in Seq(IPs) /\ IsInjective(tr) /\ ToSet(tr) = {ip}
      BY <1>2, <1>4, TryAnother
    <2>2. q' = [q EXCEPT ![x] = v] BY <1>6 DEF TypeOK
    <2> HIDE DEF tr
    <2>3. /\ v \in Locals /\ v.pc = "dialAll" /\ v.status = q[x].status
          /\ v.kind = q[x].kind /\ v.len = q[x].len /\ v.size = q[x].size /\ v.tried = tr
          /\ v.confirmed = ip /\ v.host = q[x].host
      <3>1. "dialAll" \in PCs BY Names
      <3> QED BY <1>1, <2>1, <3>1 DEF Locals
    <2> HIDE DEF v
    <2>4. /\ sets' \in [Hosts -> Map!IPSets \cup {None}]
          /\ \A g \in Hosts : sets[g] # None => sets'[g] # None
      <3>1. {} \in SUBSET IPs OBVIOUS
      <3> QED BY <1>2, <1>6, <3>1, MapSteps
    <2>5. DialInv(v, sets') BY <1>2, <2>1, <2>3, <2>4 DEF DialInv
    <2>6. ReplyInv(v) BY <1>1, <2>3 DEF ReplyInv
    <2> QED BY <1>1, <1>3, <1>6, <2>2, <2>3, <2>4, <2>5, <2>6, SendStep DEF TypeOK
  <1> QED BY <1>5, <1>6 DEF DialConfirmed

(* The other addresses, from the set as it is now.                         *)
LEMMA DialAllNext ==
  ASSUME TypeOK, QueryInv, NEW x \in Queries, DialAll(x)
  PROVE  TypeOK' /\ QueryInv'
  <1>1. /\ q[x] \in Locals /\ DialInv(q[x], sets) /\ ReplyInv(q[x]) /\ q[x].pc = "dialAll"
    BY DEF TypeOK, QueryInv, DialAll
  <1> DEFINE v == [q[x] EXCEPT !.todo = Candidates(x), !.pc = "dialNext"]
  <1>2. q' = [q EXCEPT ![x] = v] BY DEF DialAll, TypeOK
  <1>3. Candidates(x) \in SUBSET IPs /\ q[x].confirmed \notin Candidates(x)
    <2>1. q[x].host \in Hosts /\ sets[q[x].host] # None BY <1>1 DEF DialInv, Locals
    <2>2. sets[q[x].host] \in Map!IPSets BY <2>1 DEF TypeOK
    <2>3. sets[q[x].host].ips \in SUBSET IPs BY <2>2 DEF Map!IPSets
    <2> QED BY <2>3 DEF Candidates
  <1>4. /\ v \in Locals /\ v.pc = "dialNext" /\ v.status = q[x].status
        /\ v.kind = q[x].kind /\ v.len = q[x].len /\ v.size = q[x].size
        /\ v.tried = q[x].tried /\ v.host = q[x].host /\ v.todo = Candidates(x)
    <2>1. "dialNext" \in PCs BY Names
    <2> QED BY <1>1, <1>3, <2>1 DEF Locals
  <1> HIDE DEF v
  <1>5. DialInv(v, sets) BY <1>1, <1>3, <1>4 DEF DialInv
  <1>6. ReplyInv(v) BY <1>1, <1>4 DEF ReplyInv
  <1> QED BY <1>1, <1>2, <1>4, <1>5, <1>6, SendStep DEF DialAll, TypeOK

(* One of them.                                                            *)
LEMMA DialNextNext ==
  ASSUME TypeOK, QueryInv, NEW x \in Queries, DialNext(x)
  PROVE  TypeOK' /\ QueryInv'
  <1>1. /\ q[x] \in Locals /\ DialInv(q[x], sets) /\ ReplyInv(q[x]) /\ q[x].pc = "dialNext"
    BY DEF TypeOK, QueryInv, DialNext
  <1>2. UNCHANGED <<hangover, conns, reports>> BY DEF DialNext
  <1>3. PICK ip \in q[x].todo :
          \/ Connected(x, ip)
          \/ /\ q' = [q EXCEPT ![x].todo = @ \ {ip}, ![x].tried = Append(@, ip)]
             /\ UNCHANGED sets
    BY DEF DialNext
  <1>4. /\ ip \in IPs /\ ip \notin ToSet(q[x].tried) /\ q[x].tried \in Seq(IPs)
        /\ IsInjective(q[x].tried) /\ q[x].todo \in SUBSET IPs
    BY <1>1, <1>3 DEF DialInv, Locals
  <1>5. CASE Connected(x, ip) BY <1>1, <1>2, <1>4, <1>5, ConnectedNext
  <1>6. CASE /\ q' = [q EXCEPT ![x].todo = @ \ {ip}, ![x].tried = Append(@, ip)]
             /\ UNCHANGED sets
    <2> DEFINE tr == Append(q[x].tried, ip)
               rest == q[x].todo \ {ip}
               v == [q[x] EXCEPT !.todo = rest, !.tried = tr]
    <2>1. q' = [q EXCEPT ![x] = v] BY <1>6 DEF TypeOK
    <2>2. /\ tr \in Seq(IPs) /\ IsInjective(tr) /\ rest \in SUBSET IPs
          /\ ToSet(tr) = ToSet(q[x].tried) \cup {ip}
      BY <1>4, TryAnother
    <2>3. ToSet(tr) \cap rest = {} BY <1>1, <2>2 DEF DialInv
    <2> HIDE DEF tr, rest
    <2>4. /\ v \in Locals /\ v.pc = q[x].pc /\ v.status = q[x].status
          /\ v.kind = q[x].kind /\ v.len = q[x].len /\ v.size = q[x].size
          /\ v.tried = tr /\ v.host = q[x].host /\ v.todo = rest
      BY <1>1, <2>2 DEF Locals
    <2> HIDE DEF v
    <2>5. DialInv(v, sets) BY <1>1, <2>2, <2>3, <2>4 DEF DialInv
    <2>6. ReplyInv(v) BY <1>1, <2>4 DEF ReplyInv
    <2> QED BY <1>1, <1>2, <1>6, <2>1, <2>4, <2>5, <2>6, SendStep DEF TypeOK
  <1> QED BY <1>3, <1>5, <1>6

(* The headers of an answer.                                               *)
LEMMA HeadersNext ==
  ASSUME TypeOK, QueryInv, NEW x \in Queries, Headers(x)
  PROVE  TypeOK' /\ QueryInv'
  <1>1. /\ q[x] \in Locals /\ DialInv(q[x], sets) /\ ReplyInv(q[x]) /\ q[x].pc = "exchange"
    BY DEF TypeOK, QueryInv, Headers
  <1> DEFINE v == [q[x] EXCEPT !.headers = TRUE, !.pc = "body"]
  <1>2. q' = [q EXCEPT ![x] = v] BY DEF Headers, TypeOK
  <1>3. /\ v \in Locals /\ v.pc = "body" /\ v.status = q[x].status /\ v.headers
        /\ v.kind = q[x].kind /\ v.len = q[x].len /\ v.size = q[x].size
        /\ v.tried = q[x].tried
    <2>1. "body" \in PCs BY Names
    <2> QED BY <1>1, <2>1 DEF Locals
  <1> HIDE DEF v
  <1>4. DialInv(v, sets) BY <1>1, <1>3 DEF DialInv
  <1>5. ReplyInv(v) BY <1>1, <1>3 DEF ReplyInv
  <1> QED BY <1>1, <1>2, <1>3, <1>4, <1>5, SendStep DEF Headers, TypeOK

(* The answers that let the request go on: a redirect, or a response.      *)
LEMMA AnswerNext ==
  ASSUME TypeOK, QueryInv, NEW x \in Queries, Redirect(x) \/ Respond(x)
  PROVE  TypeOK' /\ QueryInv'
  <1>1. /\ q[x] \in Locals /\ DialInv(q[x], sets) /\ ReplyInv(q[x]) /\ q[x].pc = "body"
    BY DEF TypeOK, QueryInv, Redirect, Respond
  <1>2. UNCHANGED <<sets, hangover, conns, reports>> BY DEF Redirect, Respond
  <1>3. {"connect", "judge"} \subseteq PCs BY Names
  <1>4. CASE Redirect(x)
    <2>1. PICK h \in Hosts : q' = [q EXCEPT ![x] = [q[x] EXCEPT !.host = h, !.hops = @ + 1,
                                                    !.headers = FALSE, !.pc = "connect"]]
      BY <1>4 DEF Redirect, TypeOK
    <2> DEFINE n == q[x].hops + 1
               v == [q[x] EXCEPT !.host = h, !.hops = n, !.headers = FALSE, !.pc = "connect"]
    <2>2. q' = [q EXCEPT ![x] = v] BY <2>1
    <2>3. n \in 0..MaxRedirects
      <3>1. q[x].hops \in 0..MaxRedirects BY <1>1 DEF Locals
      <3>2. q[x].hops < MaxRedirects BY <1>4 DEF Redirect
      <3> QED BY <3>1, <3>2, DoHAssumption
    <2> HIDE DEF n
    <2>4. /\ v \in Locals /\ v.pc = "connect" /\ v.status = q[x].status
          /\ v.kind = q[x].kind /\ v.len = q[x].len /\ v.size = q[x].size
          /\ v.tried = q[x].tried
      BY <1>1, <1>3, <2>3 DEF Locals
    <2> HIDE DEF v
    <2>5. DialInv(v, sets) BY <1>1, <2>4 DEF DialInv
    <2>6. ReplyInv(v) BY <1>1, <2>4 DEF ReplyInv
    <2> QED BY <1>1, <1>2, <2>2, <2>4, <2>5, <2>6, SendStep DEF TypeOK
  <1>5. CASE Respond(x)
    <2>1. PICK r \in Ids \cup {Truncated} :
            q' = [q EXCEPT ![x] = [q[x] EXCEPT !.hostname = q[x].host, !.response = r,
                                               !.pc = "judge"]]
      BY <1>5 DEF Respond, TypeOK
    <2> DEFINE v == [q[x] EXCEPT !.hostname = q[x].host, !.response = r, !.pc = "judge"]
    <2>2. q' = [q EXCEPT ![x] = v] BY <2>1
    <2>3. /\ v \in Locals /\ v.pc = "judge" /\ v.status = q[x].status
          /\ v.headers = q[x].headers
          /\ v.kind = q[x].kind /\ v.len = q[x].len /\ v.size = q[x].size
          /\ v.tried = q[x].tried
      BY <1>1, <1>3, <2>1 DEF Locals
    <2> HIDE DEF v
    <2>4. DialInv(v, sets) BY <1>1, <2>3 DEF DialInv
    <2>5. ReplyInv(v) BY <1>1, <2>3 DEF ReplyInv
    <2> QED BY <1>1, <1>2, <2>2, <2>3, <2>4, <2>5, SendStep DEF TypeOK
  <1> QED BY <1>4, <1>5

(* The deferred cleanup disconfirms the server and drops its connection.   *)
LEMMA CleanupNext ==
  ASSUME TypeOK, QueryInv, NEW x \in Queries, Cleanup(x)
  PROVE  TypeOK' /\ QueryInv'
  <1>1. /\ q[x] \in Locals /\ DialInv(q[x], sets) /\ ReplyInv(q[x]) /\ q[x].pc = "cleanup"
    BY DEF TypeOK, QueryInv, Cleanup
  <1> DEFINE v == [q[x] EXCEPT !.pc = "judge"]
  <1>2. q' = [q EXCEPT ![x] = v] BY DEF Cleanup
  <1>3. /\ v \in Locals /\ v.pc = "judge" /\ v.status = q[x].status
        /\ v.headers = q[x].headers
        /\ v.kind = q[x].kind /\ v.len = q[x].len /\ v.size = q[x].size
        /\ v.tried = q[x].tried
    <2>1. "judge" \in PCs BY Names
    <2> QED BY <1>1, <2>1 DEF Locals
  <1> HIDE DEF v
  <1>4. /\ sets' \in [Hosts -> Map!IPSets \cup {None}]
        /\ \A g \in Hosts : sets[g] # None => sets'[g] # None
    <2>1. CASE sets' = sets BY <2>1 DEF TypeOK
    <2>2. CASE Map!Disconfirm(q[x].hostname, q[x].server)
      <3>1. q[x].hostname \in Hosts /\ q[x].server \in IPs \cup {None} /\ {} \in SUBSET IPs
        BY <1>1 DEF Locals
      <3> QED BY <2>2, <3>1, MapSteps
    <2> QED BY <2>1, <2>2 DEF Cleanup
  <1>5. DialInv(v, sets') BY <1>1, <1>3 DEF DialInv
  <1>6. ReplyInv(v) BY <1>1, <1>3 DEF ReplyInv
  <1>7. conns' \subseteq Hosts \X IPs /\ UNCHANGED <<hangover, reports>>
    BY DEF Cleanup, TypeOK
  <1> QED BY <1>1, <1>2, <1>3, <1>4, <1>5, <1>6, <1>7, SendStep DEF TypeOK

(* The ID goes back into the query, and into the answer.                   *)
LEMMA JudgeNext ==
  ASSUME TypeOK, QueryInv, NEW x \in Queries, Judge(x)
  PROVE  TypeOK' /\ QueryInv'
  <1>1. /\ q[x] \in Locals /\ DialInv(q[x], sets) /\ ReplyInv(q[x]) /\ SizeInv(q[x])
        /\ q[x].pc = "judge"
    BY DEF TypeOK, QueryInv, Judge
  <1> DEFINE st == IF q[x].status = "Complete" /\ q[x].response # 0 THEN "BadResponse"
                                                                    ELSE q[x].status
             v == [q[x] EXCEPT !.wire = q[x].id, !.status = st, !.response = q[x].id,
                               !.pc = "confirm"]
  <1>2. /\ Restored(x).wire = q[x].id /\ Restored(x).id = q[x].id
        /\ Restored(x).status = q[x].status /\ Restored(x).response = q[x].response
        /\ Restored(x) = [q[x] EXCEPT !.wire = q[x].id]
    BY <1>1 DEF Restored, Locals
  <1>3. q' = [q EXCEPT ![x] = v] /\ hangover' \in BOOLEAN
    <2>1. CASE st = "Complete"
      <3>1. /\ q' = [q EXCEPT ![x] = [Restored(x) EXCEPT !.response = q[x].id, !.pc = "confirm"]]
            /\ hangover' = hangover
        BY <1>2, <2>1 DEF Judge
      <3>2. q[x].status = "Complete" BY <2>1
      <3>3. [Restored(x) EXCEPT !.response = q[x].id, !.pc = "confirm"] = v
        BY <1>1, <1>2, <2>1, <3>2 DEF Locals
      <3> QED BY <3>1, <3>3 DEF TypeOK
    <2>2. CASE st # "Complete"
      <3>1. /\ q' = [q EXCEPT ![x] = [Restored(x) EXCEPT !.status = st, !.response = q[x].id,
                                                         !.pc = "confirm"]]
            /\ hangover' = (hangover \/ StartsHangover(st))
        BY <1>2, <2>2 DEF Judge
      <3>2. [Restored(x) EXCEPT !.status = st, !.response = q[x].id, !.pc = "confirm"] = v
        BY <1>1, <1>2 DEF Locals
      <3>3. hangover' \in BOOLEAN BY <3>1
      <3> QED BY <3>1, <3>2, <3>3
    <2> QED BY <2>1, <2>2
  <1>4. st \in Statuses /\ "confirm" \in PCs BY <1>1, Names DEF Locals
  <1> HIDE DEF st
  <1>5. /\ v \in Locals /\ v.pc = "confirm" /\ v.wire = v.id /\ v.response = v.id
        /\ v.kind = q[x].kind /\ v.len = q[x].len /\ v.size = q[x].size
        /\ v.tried = q[x].tried
    BY <1>1, <1>4 DEF Locals
  <1> HIDE DEF v
  <1>6. DialInv(v, sets) BY <1>1, <1>5 DEF DialInv
  <1>7. AnswerInv(v) /\ ReplyInv(v) /\ SizeInv(v) BY <1>1, <1>5 DEF AnswerInv, ReplyInv, SizeInv
  <1>8. ReportInv(v, reports[x]) BY <1>1, <1>5 DEF QueryInv, ReportInv
  <1>9. UNCHANGED <<sets, conns, reports>> BY DEF Judge
  <1> QED BY <1>3, <1>5, <1>6, <1>7, <1>8, <1>9, CallStep DEF TypeOK

(* The server's address is confirmed, and the summary reported.            *)
LEMMA ReportNext ==
  ASSUME TypeOK, QueryInv, NEW x \in Queries, ConfirmServer(x) \/ Return(x)
  PROVE  TypeOK' /\ QueryInv'
  <1>1. /\ q[x] \in Locals /\ DialInv(q[x], sets) /\ AnswerInv(q[x]) /\ ReplyInv(q[x])
        /\ SizeInv(q[x]) /\ ReportInv(q[x], reports[x])
        /\ reports \in [Queries -> [OnQuery : 0..1, OnResponse : 0..1]]
    BY DEF TypeOK, QueryInv
  <1>2. PICK to \in {"report", "done"} :
          /\ q' = [q EXCEPT ![x] = [q[x] EXCEPT !.pc = to]]
          /\ q[x].pc = IF to = "report" THEN "confirm" ELSE "report"
          /\ to = "report" => ConfirmServer(x)
          /\ to = "done" => Return(x)
    BY DEF ConfirmServer, Return
  <1> DEFINE v == [q[x] EXCEPT !.pc = to]
  <1>3. /\ v \in Locals /\ v.pc = to /\ v.status = q[x].status
        /\ v.id = q[x].id /\ v.wire = q[x].wire /\ v.response = q[x].response
        /\ v.kind = q[x].kind /\ v.len = q[x].len /\ v.size = q[x].size
        /\ v.tried = q[x].tried
    <2>1. to \in PCs BY Names
    <2> QED BY <1>1, <2>1 DEF Locals
  <1>4. q' = [q EXCEPT ![x] = v] BY <1>2
  <1> HIDE DEF v
  <1>5. /\ sets' \in [Hosts -> Map!IPSets \cup {None}]
        /\ \A g \in Hosts : sets[g] # None => sets'[g] # None
    <2>1. CASE sets' = sets BY <2>1 DEF TypeOK
    <2>2. CASE q[x].server # None /\ Map!Confirm(q[x].hostname, q[x].server)
      <3>1. q[x].hostname \in Hosts /\ q[x].server \in IPs /\ {} \in SUBSET IPs
        BY <1>1, <2>2 DEF Locals
      <3> QED BY <2>2, <3>1, MapSteps
    <2> QED BY <2>1, <2>2 DEF ConfirmServer, Return
  <1>6. DialInv(v, sets') BY <1>1, <1>2, <1>3 DEF DialInv
  <1>7. AnswerInv(v) /\ ReplyInv(v) /\ SizeInv(v)
    BY <1>1, <1>2, <1>3 DEF AnswerInv, ReplyInv, SizeInv
  <1>8. UNCHANGED <<hangover, conns>> BY DEF ConfirmServer, Return
  <1>9. /\ reports' \in [Queries -> [OnQuery : 0..1, OnResponse : 0..1]]
        /\ \A y \in Queries : y # x => reports'[y] = reports[y]
        /\ ReportInv(v, reports'[x])
    <2>1. CASE to = "report"
      <3>1. reports' = reports BY <1>2, <2>1 DEF ConfirmServer
      <3> QED BY <1>1, <1>2, <1>3, <2>1, <3>1 DEF ReportInv
    <2>2. CASE to = "done"
      <3>1. reports' = [reports EXCEPT ![x].OnResponse = @ + 1] BY <1>2, <2>2 DEF Return
      <3>2. reports[x].OnResponse = 0 BY <1>1, <1>2, <2>2 DEF ReportInv
      <3> QED BY <1>1, <1>3, <2>2, <3>1, <3>2 DEF ReportInv
    <2> QED BY <2>1, <2>2
  <1> QED BY <1>3, <1>4, <1>5, <1>6, <1>7, <1>8, <1>9, CallStep DEF TypeOK

----------------------------------------------------------------------------
(* NewTransport: one set of addresses, and no query yet.                   *)
LEMMA InitInv == Init => TypeOK /\ QueryInv
  <1> SUFFICES ASSUME Init PROVE TypeOK /\ QueryInv OBVIOUS
  <1>1. PICK len \in Lengths : q = [x \in Queries |-> Fresh(0, "plain", len)] BY DEF Init
  <1> DEFINE v == Fresh(0, "plain", len)
  <1>2. v \in Locals
    <2>1. 0 \in Ids /\ "plain" \in Kinds BY DoHAssumption DEF Kinds
    <2> QED BY <2>1, FreshType
  <1>3. v.pc = "idle" /\ v.size = 0 /\ v.tried = << >> BY DEF Fresh
  <1>4. \A x \in Queries : q[x] = v BY <1>1
  <1>5. sets \in [Hosts -> Map!IPSets \cup {None}]
    <2>1. PICK known \in (SUBSET Addr[Home]) \ {{}} :
            sets = [h \in Hosts |-> IF h = Home THEN [ips |-> known, confirmed |-> None] ELSE None]
      BY DEF Init
    <2>2. known \in SUBSET IPs BY DoHAssumption
    <2>3. [ips |-> known, confirmed |-> None] \in Map!IPSets BY <2>2 DEF Map!IPSets
    <2> QED BY <2>1, <2>3
  <1>6. q \in [Queries -> Locals] BY <1>1, <1>2
  <1> HIDE DEF v
  <1>7. TypeOK
    <2>1. reports \in [Queries -> [OnQuery : 0..1, OnResponse : 0..1]] BY DEF Init
    <2> QED BY <1>5, <1>6, <2>1 DEF Init, TypeOK
  <1>8. DialInv(v, sets)
    <2>1. IsInjective(<< >>) BY DEF IsInjective
    <2> QED BY <1>3, <2>1 DEF DialInv
  <1>9. AnswerInv(v) /\ ReplyInv(v) /\ SizeInv(v) BY <1>3 DEF AnswerInv, ReplyInv, SizeInv
  <1>10. \A x \in Queries : ReportInv(v, reports[x]) BY DEF Init, ReportInv
  <1> QED BY <1>4, <1>7, <1>8, <1>9, <1>10 DEF QueryInv

(* Every step keeps the invariant.                                         *)
LEMMA NextInv == TypeOK /\ QueryInv /\ [Next]_vars => TypeOK' /\ QueryInv'
  <1> SUFFICES ASSUME TypeOK, QueryInv, [Next]_vars PROVE TypeOK' /\ QueryInv' OBVIOUS
  <1>1. ASSUME NEW x \in Queries, Step(x) PROVE TypeOK' /\ QueryInv'
    BY <1>1, QueryNext, RefuseNext, PrepareNext, ReuseNext, DialNextStep, DialConfirmedNext,
       DialAllNext, DialNextNext, HandshakeNext, FailureNext, HeadersNext, AnswerNext, CleanupNext, JudgeNext, ReportNext
       DEF Step
  <1>2. CASE HangoverExpires \/ ConnectionLost \/ UNCHANGED vars
    <2>1. UNCHANGED <<sets, q, reports>> /\ conns' \subseteq conns /\ hangover' \in BOOLEAN
      BY <1>2 DEF HangoverExpires, ConnectionLost, vars, TypeOK
    <2>2. TypeOK' BY <2>1 DEF TypeOK
    <2>3. QueryInv' BY <2>1 DEF QueryInv
    <2> QED BY <2>2, <2>3
  <1> QED BY <1>1, <1>2 DEF Next

(* The inductive invariant.                                                *)
LEMMA QueryInvariance == Spec => [](TypeOK /\ QueryInv)
  BY InitInv, NextInv, PTL DEF Spec

(* Type correctness: no call of dial uses the set of a host that the map   *)
(* does not have, and OnQuery and OnResponse are called at most once       *)
(* (doh.go:108-149, 429-470).                                              *)
THEOREM TypeCorrect == Spec => []TypeOK
  BY QueryInvariance, PTL

(* The answer has the query's ID, and the caller's slice is restored, on   *)
(* every path through doQuery (doh.go:240-312).                            *)
THEOREM ResponseDoesMatch == Spec => []ResponseMatches
  <1>1. QueryInv => ResponseMatches BY DEF QueryInv, AnswerInv, ResponseMatches
  <1> QED BY <1>1, QueryInvariance, PTL

(* One dial never tries an address twice, though other queries confirm,    *)
(* disconfirm and add addresses between its steps (doh.go:108-149).        *)
THEOREM TriesNoIPTwice == Spec => []NoIPTwice
  <1>1. QueryInv => NoIPTwice BY DEF QueryInv, DialInv, NoIPTwice
  <1> QED BY <1>1, QueryInvariance, PTL

(* A query of any length leaves as the least number of whole blocks that   *)
(* holds it (padding.go:39-46, 50-118).                                    *)
THEOREM IsPaddedToBlock == Spec => []PaddedToBlock
  <1>1. TypeOK /\ QueryInv => PaddedToBlock
    <2> SUFFICES ASSUME TypeOK, QueryInv, NEW x \in Queries, q[x].size # 0
                 PROVE  IF q[x].kind = "padded" THEN q[x].size = q[x].len
                        ELSE LET least == CompressedLen(q[x].kind, q[x].len) + kOptPaddingHeaderLen
                             IN  /\ q[x].size % PaddingBlockSize = 0
                                 /\ q[x].size \in least..(least + PaddingBlockSize - 1)
      BY DEF PaddedToBlock
    <2>1. q[x].size = AddEdnsPadding(q[x].kind, q[x].len) BY DEF QueryInv, SizeInv
    <2>2. q[x].len \in Nat BY DoHAssumption DEF TypeOK, Locals
    <2> QED BY <2>1, <2>2, PaddingLength
  <1> QED BY <1>1, QueryInvariance, PTL

(* A query starts the hangover only if a server has sent it the headers of *)
(* a response and what followed was an error status, a bad response or a   *)
(* lost connection (doh.go:282-302, 398-421); no failure before the        *)
(* headers does, however many queries fail at once.                        *)
THEOREM HangoverNeedsReply == Spec => HangoverMeansReply
  <1> DEFINE A == ~hangover /\ hangover' =>
                    \E x \in Queries : q[x].pc = "judge" /\ q[x].headers
                                       /\ q'[x].status \in {"HTTPError", "BadResponse"}
  <1>1. TypeOK /\ QueryInv /\ [Next]_vars => [A]_vars
    <2> SUFFICES ASSUME TypeOK, QueryInv, Next, ~hangover, hangover'
                 PROVE  \E x \in Queries : q[x].pc = "judge" /\ q[x].headers
                                           /\ q'[x].status \in {"HTTPError", "BadResponse"}
      OBVIOUS
    <2>1. PICK x \in Queries : Judge(x)
      BY DEF Next, Step, HangoverExpires, ConnectionLost, Query, Refuse, Prepare, Reuse, Dial,
             DialConfirmed, DialAll, DialNext, DialFails, Handshake, SendFails, Headers,
             Redirect, BodyFails, BadStatus, Respond, Cleanup, ConfirmServer, Return
    <2> DEFINE st == IF q[x].status = "Complete" /\ q[x].response # 0 THEN "BadResponse"
                                                                      ELSE q[x].status
    <2>2. q[x] \in Locals /\ ReplyInv(q[x]) /\ q[x].pc = "judge"
      BY <2>1 DEF TypeOK, QueryInv, Judge
    <2>3. /\ Restored(x) \in Locals
          /\ Restored(x).wire = q[x].id /\ Restored(x).id = q[x].id
          /\ Restored(x).status = q[x].status /\ Restored(x).response = q[x].response
      BY <2>2 DEF Restored, Locals
    <2>4. /\ st # "Complete" /\ StartsHangover(st)
          /\ q' = [q EXCEPT ![x] = [Restored(x) EXCEPT !.status = st, !.response = q[x].id,
                                                       !.pc = "confirm"]]
      BY <2>1, <2>3 DEF Judge
    <2>5. st \in {"HTTPError", "BadResponse"} /\ q[x].status # "SendFailed"
      BY <2>2, <2>4 DEF ReplyInv, StartsHangover
    <2> HIDE DEF st
    <2>6. q'[x].status = st
      <3>1. q'[x] = [Restored(x) EXCEPT !.status = st, !.response = q[x].id, !.pc = "confirm"]
        BY <2>4 DEF TypeOK
      <3> QED BY <2>3, <3>1 DEF Locals
    <2> QED BY <2>2, <2>5, <2>6 DEF ReplyInv
  <1> QED BY <1>1, QueryInvariance, PTL DEF Spec, HangoverMeansReply

(* An address loses its confirmed mark to a query that failed on that      *)
(* address and host, whatever other queries do to the set in the meantime  *)
(* (doh.go:127-135, 318-334).                                              *)
THEOREM DisconfirmsOnlyOwn == Spec => OnlyOwnDisconfirm
  <1> DEFINE B(h, ip) == \E x \in Queries :
                \/ q[x].pc = "dialConfirmed" /\ q[x].host = h /\ q[x].confirmed = ip
                \/ q[x].pc = "cleanup" /\ q[x].hostname = h /\ q[x].server = ip
             A == \A h \in Hosts, ip \in IPs :
                    Map!Created(h) /\ sets[h].confirmed = ip /\ sets'[h].confirmed = None => B(h, ip)
  <1>1. TypeOK /\ QueryInv /\ [Next]_vars => [A]_vars
    <2> SUFFICES ASSUME TypeOK, Next, NEW h \in Hosts, NEW ip \in IPs, Map!Created(h),
                        sets[h].confirmed = ip, sets'[h].confirmed = None
                 PROVE  B(h, ip)
      OBVIOUS
    <2>1. ip # None /\ sets' # sets BY DoHAssumption
    <2>2. sets[h] \in Map!IPSets BY DEF TypeOK, Map!Created
    <2>3. ASSUME NEW g \in Hosts, NEW i, Map!Disconfirm(g, i) PROVE g = h /\ i = ip
      <3>1. CASE g # h
        <4>1. sets'[h] = sets[h] BY <2>3, <3>1 DEF Map!Disconfirm, TypeOK
        <4> QED BY <2>1, <4>1
      <3>2. CASE g = h
        <4>1. sets'[h] = [sets[h] EXCEPT !.confirmed = IF @ = i THEN None ELSE @]
          BY <2>3, <3>2 DEF Map!Disconfirm, TypeOK
        <4>2. sets'[h].confirmed = IF sets[h].confirmed = i THEN None ELSE sets[h].confirmed
          BY <2>2, <4>1 DEF Map!IPSets
        <4> QED BY <2>1, <3>2, <4>2
      <3> QED BY <3>1, <3>2
    <2>4. PICK x \in Queries : Dial(x) \/ DialConfirmed(x) \/ Cleanup(x) \/ ConfirmServer(x)
      BY <2>1 DEF Next, Step, HangoverExpires, ConnectionLost, Query, Refuse, Prepare, Reuse,
                  DialAll, DialNext, DialFails, Handshake, SendFails, Headers, Redirect,
                  BodyFails, Connected, BadStatus, Respond, Judge, Return
    <2>5. q[x].host \in Hosts /\ q[x].hostname \in Hosts BY DEF TypeOK, Locals
    <2>6. CASE Dial(x)
      <3>1. PICK r : Map!Get(q[x].host, r) BY <2>1, <2>6 DEF Dial
      <3>2. q[x].host # h BY <3>1 DEF Map!Get
      <3>3. sets'[h] = sets[h] BY <3>1, <3>2 DEF Map!Get, TypeOK
      <3> QED BY <2>1, <3>3
    <2>7. CASE DialConfirmed(x)
      <3>1. q[x].pc = "dialConfirmed" /\ Map!Disconfirm(q[x].host, q[x].confirmed)
        BY <2>1, <2>7 DEF DialConfirmed, Connected
      <3> QED BY <2>3, <2>5, <3>1
    <2>8. CASE Cleanup(x)
      <3>1. q[x].pc = "cleanup" /\ Map!Disconfirm(q[x].hostname, q[x].server)
        BY <2>1, <2>8 DEF Cleanup
      <3> QED BY <2>3, <2>5, <3>1
    <2>9. CASE ConfirmServer(x)
      <3>1. q[x].server # None /\ Map!Confirm(q[x].hostname, q[x].server)
        BY <2>1, <2>9 DEF ConfirmServer
      <3>2. CASE q[x].hostname = h
        <4>1. sets'[h] = [ips |-> sets[h].ips \cup {q[x].server}, confirmed |-> q[x].server]
          BY <3>1, <3>2 DEF Map!Confirm, TypeOK
        <4> QED BY <3>1, <4>1
      <3>3. CASE q[x].hostname # h
        <4>1. sets'[h] = sets[h] BY <2>5, <3>1, <3>3 DEF Map!Confirm, TypeOK
        <4> QED BY <2>1, <4>1
      <3> QED BY <3>2, <3>3
    <2> QED BY <2>4, <2>6, <2>7, <2>8, <2>9
  <1> QED BY <1>1, QueryInvariance, PTL DEF Spec, OnlyOwnDisconfirm
============================================================================
