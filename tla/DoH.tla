-------------------------------- MODULE DoH --------------------------------
(***************************************************************************)
(* intra/doh/doh.go: the DNS-over-HTTPS transport, queried by many         *)
(* goroutines at once.  They share the IPMap (used through the atomic      *)
(* operations that IPMap is shown to implement), the http.Client's         *)
(* connections and the hangover.                                           *)
(*                                                                         *)
(* The 16-bit query ID is a number of Ids; 0 is among them.  A message is  *)
(* represented by its ID and its length.                                   *)
(***************************************************************************)
EXTENDS Naturals, Sequences, SequencesExt, Padding

CONSTANTS
  Queries,      \* the goroutines, one Query call each
  Hosts, Home,  \* host names, and the one in the template URL
  IPs, Addr,    \* addresses, and those each host's name resolves to
  Ids,          \* query IDs
  Lengths,      \* lengths of queries
  MaxRedirects, \* bound: redirects followed by one request
  None,         \* nil
  Truncated     \* a response of less than two bytes

ASSUME DoHAssumption ==
  /\ Home \in Hosts /\ Addr \in [Hosts -> SUBSET IPs] /\ Addr[Home] # {}
  /\ 0 \in Ids /\ Ids \subseteq Nat /\ MaxRedirects \in Nat
  /\ Lengths # {} /\ Lengths \subseteq Nat
  /\ None \notin IPs /\ None \notin Hosts \X IPs /\ {None, Truncated} \cap Ids = {}
  /\ None \notin [ips : SUBSET IPs, confirmed : IPs \cup {None}]

VARIABLES
  sets,       \* t.ips
  hangover,   \* time.Now() is before t.hangoverExpiration
  conns,      \* connections in the http.Client: <<host, ip>>
  q,          \* the local variables of each Query call
  reports     \* OnQuery and OnResponse calls, for each Query call

vars == <<sets, hangover, conns, q, reports>>

Map == INSTANCE IPMapSpec

(* What the stub resolver may send: less than two bytes, bytes that are no *)
(* DNS message, a message with or without EDNS, or one that the stub has   *)
(* padded already.                                                         *)
Kinds == {"short", "garbage", "plain", "edns", "padded"}

Statuses == {"Complete", "SendFailed", "HTTPError", "BadQuery", "BadResponse",
             "InternalError"}

PCs == {"idle", "check", "connect", "dialConfirmed", "dialAll", "dialNext",
        "handshake", "exchange", "body", "cleanup", "judge", "confirm", "report",
        "done"}

(* The variables of Query, doQuery, sendRequest and dial: id is the ID of  *)
(* the query, wire the one now in doQuery's slice q (which is the caller's *)
(* slice if the query came padded), len and size the lengths of the query  *)
(* and of what is sent for it, host the host now asked, hostname, server   *)
(* and via (conn) those of sendRequest, confirmed and todo those of dial,  *)
(* tried the addresses dial has tried.  headers is a history variable: the *)
(* headers of the response that Do returned have arrived.                  *)
Locals ==
  [pc : PCs, kind : Kinds, id : Ids, wire : Ids, len : Lengths, size : Nat, status : Statuses,
   response : Ids \cup {None, Truncated}, host : Hosts, hostname : Hosts,
   server : IPs \cup {None}, via : (Hosts \X IPs) \cup {None},
   confirmed : IPs \cup {None}, todo : SUBSET IPs, tried : Seq(IPs),
   hops : 0..MaxRedirects, headers : BOOLEAN]

TypeOK ==
  /\ sets \in [Hosts -> Map!IPSets \cup {None}]
  /\ hangover \in BOOLEAN
  /\ conns \subseteq Hosts \X IPs
  /\ q \in [Queries -> Locals]
  /\ reports \in [Queries -> [OnQuery : 0..1, OnResponse : 0..1]]

Fresh(id, kind, len) ==
  [pc |-> "idle", kind |-> kind, id |-> id, wire |-> id, len |-> len, size |-> 0,
   status |-> "Complete",
   response |-> None, host |-> Home, hostname |-> Home, server |-> None,
   via |-> None, confirmed |-> None, todo |-> {}, tried |-> << >>, hops |-> 0,
   headers |-> FALSE]

(* NewTransport has resolved the host and added the fallback addresses.    *)
Init ==
  /\ \E known \in (SUBSET Addr[Home]) \ {{}} :
       sets = [h \in Hosts |-> IF h = Home THEN [ips |-> known, confirmed |-> None]
                                           ELSE None]
  /\ hangover = FALSE
  /\ conns = {}
  /\ \E len \in Lengths : q = [x \in Queries |-> Fresh(0, "plain", len)]
  /\ reports = [x \in Queries |-> [OnQuery |-> 0, OnResponse |-> 0]]

(* tryServfail: an answer to the slice q, unless it is no DNS message.     *)
tryServfail(x) == IF q[x].kind = "garbage" THEN None ELSE q[x].wire

----------------------------------------------------------------------------
(* Query and the first test of doQuery.                                    *)
Query(x) ==
  /\ q[x].pc = "idle"
  /\ \E id \in Ids, kind \in Kinds, len \in Lengths :
       q' = [q EXCEPT ![x] = IF kind = "short"
                             THEN [Fresh(id, kind, len) EXCEPT !.pc = "report",
                                                               !.status = "BadQuery"]
                             ELSE [Fresh(id, kind, len) EXCEPT !.pc = "check"]]
  /\ reports' = [reports EXCEPT ![x].OnQuery = @ + 1]
  /\ UNCHANGED <<sets, hangover, conns>>

(* doQuery in the hangover: refuse.                                        *)
Refuse(x) ==
  /\ q[x].pc = "check" /\ hangover
  /\ q' = [q EXCEPT ![x].status = "HTTPError", ![x].response = tryServfail(x),
                    ![x].pc = "report"]
  /\ UNCHANGED <<sets, hangover, conns, reports>>

(* doQuery pads the query, which fails unless it is a DNS message, and     *)
(* zeroes its ID.  http.NewRequest cannot fail here: the method is a       *)
(* constant, and NewTransport has parsed the same URL.                     *)
Prepare(x) ==
  /\ q[x].pc = "check" /\ ~hangover
  /\ q' = [q EXCEPT ![x] = IF @.kind = "garbage"
                           THEN [@ EXCEPT !.status = "InternalError", !.pc = "report"]
                           ELSE [@ EXCEPT !.wire = 0, !.size = AddEdnsPadding(q[x].kind, q[x].len),
                                           !.pc = "connect"]]
  /\ UNCHANGED <<sets, hangover, conns, reports>>

(* client.Do on a connection the client has: GotConn.                      *)
Reuse(x) ==
  /\ q[x].pc = "connect"
  /\ \E ip \in IPs :
       /\ <<q[x].host, ip>> \in conns
       /\ q' = [q EXCEPT ![x].server = ip, ![x].via = <<q[x].host, ip>>,
                         ![x].pc = "exchange"]
  /\ UNCHANGED <<sets, hangover, conns, reports>>

(* client.Do calls dial, which begins with Get(domain) and Confirmed().    *)
Dial(x) ==
  /\ q[x].pc = "connect"
  /\ LET h == q[x].host
     IN  IF Map!Created(h)
         THEN /\ UNCHANGED sets
              /\ q' = [q EXCEPT ![x].confirmed = sets[h].confirmed, ![x].tried = << >>,
                         ![x].pc = IF sets[h].confirmed = None THEN "dialAll"
                                                               ELSE "dialConfirmed"]
         ELSE /\ \E r \in SUBSET Addr[h] : Map!Get(h, r)
              /\ q' = [q EXCEPT ![x].confirmed = None, ![x].tried = << >>,
                                ![x].pc = "dialAll"]
  /\ UNCHANGED <<hangover, conns, reports>>

(* DialWithSplitRetry(ip) returns a connection, or the next address is    *)
(* tried.                                                                  *)
Connected(x, ip) ==
  /\ q' = [q EXCEPT ![x].tried = Append(@, ip), ![x].pc = "handshake"]
  /\ UNCHANGED sets

DialConfirmed(x) ==
  /\ q[x].pc = "dialConfirmed"
  /\ \/ Connected(x, q[x].confirmed)
     \/ /\ Map!Disconfirm(q[x].host, q[x].confirmed)
        /\ q' = [q EXCEPT ![x].tried = Append(@, q[x].confirmed), ![x].pc = "dialAll"]
  /\ UNCHANGED <<hangover, conns, reports>>

(* GetAll: "Don't try this IP twice."                                      *)
Candidates_All(x) == sets[q[x].host].ips

Candidates(x) == sets[q[x].host].ips \ {q[x].confirmed}

DialAll(x) ==
  /\ q[x].pc = "dialAll"
  /\ q' = [q EXCEPT ![x].todo = Candidates(x), ![x].pc = "dialNext"]
  /\ UNCHANGED <<sets, hangover, conns, reports>>

DialNext(x) ==
  /\ q[x].pc = "dialNext"
  /\ \E ip \in q[x].todo :
       \/ Connected(x, ip)
       \/ /\ q' = [q EXCEPT ![x].todo = @ \ {ip}, ![x].tried = Append(@, ip)]
          /\ UNCHANGED sets
  /\ UNCHANGED <<hangover, conns, reports>>

DialFails(x) ==
  /\ q[x].pc = "dialNext" /\ q[x].todo = {}
  /\ q' = [q EXCEPT ![x].status = "SendFailed", ![x].pc = "cleanup"]
  /\ UNCHANGED <<sets, hangover, conns, reports>>

(* The TLS handshake with the address dialled last: the client has a       *)
(* connection and calls GotConn, or Do fails.                              *)
Handshake(x) ==
  /\ q[x].pc = "handshake"
  /\ LET ip == Last(q[x].tried)
     IN  \/ /\ q' = [q EXCEPT ![x].server = ip, ![x].via = <<q[x].host, ip>>,
                              ![x].pc = "exchange"]
            /\ conns' = conns \cup {<<q[x].host, ip>>}
         \/ /\ q' = [q EXCEPT ![x].status = "SendFailed", ![x].pc = "cleanup"]
            /\ UNCHANGED conns
  /\ UNCHANGED <<sets, hangover, reports>>

----------------------------------------------------------------------------
(* The exchange with the server: no answer, or the headers of one.         *)
SendFails(x) ==
  /\ q[x].pc = "exchange"
  /\ q' = [q EXCEPT ![x].status = "SendFailed", ![x].pc = "cleanup"]
  /\ UNCHANGED <<sets, hangover, conns, reports>>

Headers(x) ==
  /\ q[x].pc = "exchange" /\ q[x].via \in conns
  /\ q' = [q EXCEPT ![x].headers = TRUE, ![x].pc = "body"]
  /\ UNCHANGED <<sets, hangover, conns, reports>>

(* Then the body, which may have arrived before the connection was lost.   *)
(* After a redirect Do skips it and goes on with the other host; otherwise *)
(* Do returns, and ReadAll fails, or the status is not 200, or there is a  *)
(* response.                                                               *)
Redirect(x) ==
  /\ q[x].pc = "body"
  /\ q[x].hops < MaxRedirects
  /\ \E h \in Hosts : q' = [q EXCEPT ![x].host = h, ![x].hops = @ + 1,
                                     ![x].headers = FALSE, ![x].pc = "connect"]
  /\ UNCHANGED <<sets, hangover, conns, reports>>

BodyFails(x) ==
  /\ q[x].pc = "body"
  /\ q' = [q EXCEPT ![x].status = "BadResponse", ![x].pc = "cleanup"]
  /\ UNCHANGED <<sets, hangover, conns, reports>>

BadStatus(x) ==
  /\ q[x].pc = "body"
  /\ q' = [q EXCEPT ![x].hostname = q[x].host, ![x].status = "HTTPError",
                    ![x].pc = "cleanup"]
  /\ UNCHANGED <<sets, hangover, conns, reports>>

Respond(x) ==
  /\ q[x].pc = "body"
  /\ \E r \in Ids \cup {Truncated} :
       q' = [q EXCEPT ![x].hostname = q[x].host, ![x].response = r, ![x].pc = "judge"]
  /\ UNCHANGED <<sets, hangover, conns, reports>>

(* sendRequest's deferred cleanup.                                         *)
Cleanup(x) ==
  /\ q[x].pc = "cleanup"
  /\ IF q[x].server = None THEN UNCHANGED sets
                           ELSE Map!Disconfirm(q[x].hostname, q[x].server)
  /\ conns' = conns \ {q[x].via}
  /\ q' = [q EXCEPT ![x].pc = "judge"]
  /\ UNCHANGED <<hangover, reports>>

----------------------------------------------------------------------------
(* The rest of doQuery: restore the ID, judge the response, start the      *)
(* hangover, make a SERVFAIL of a failure.                                 *)
Restored_Not(x) == q[x]

Restored(x) == [q[x] EXCEPT !.wire = q[x].id]

(* The hangover is for failures other than that of client.Do.              *)
StartsHangover_Always(status) == TRUE

StartsHangover(status) == status # "SendFailed"

Judge(x) ==
  /\ q[x].pc = "judge"
  /\ LET v == Restored(x)
         status == IF v.status = "Complete" /\ v.response # 0 THEN "BadResponse"
                                                             ELSE v.status
     IN  IF status = "Complete"
         THEN /\ q' = [q EXCEPT ![x] = [v EXCEPT !.response = v.id, !.pc = "confirm"]]
              /\ UNCHANGED hangover
         ELSE /\ q' = [q EXCEPT ![x] = [v EXCEPT !.status = status, !.response = v.wire,
                                                 !.pc = "confirm"]]
              /\ hangover' = (hangover \/ StartsHangover(status))
  /\ UNCHANGED <<sets, conns, reports>>

(* Record the address of the server as a working one.                      *)
ConfirmServer(x) ==
  /\ q[x].pc = "confirm"
  /\ IF q[x].server = None THEN UNCHANGED sets
                           ELSE Map!Confirm(q[x].hostname, q[x].server)
  /\ q' = [q EXCEPT ![x].pc = "report"]
  /\ UNCHANGED <<hangover, conns, reports>>

(* Query reports the summary and returns.                                  *)
Return_Twice(x) ==
  /\ q[x].pc = "report"
  /\ reports' = [reports EXCEPT ![x].OnResponse = @ + 1]
  /\ UNCHANGED <<sets, hangover, conns, q>>

Return_FailureUnreported(x) ==
  /\ q[x].pc = "report"
  /\ reports' = IF q[x].response = None THEN reports
                ELSE [reports EXCEPT ![x].OnResponse = @ + 1]
  /\ q' = [q EXCEPT ![x].pc = "done"]
  /\ UNCHANGED <<sets, hangover, conns>>

Return(x) ==
  /\ q[x].pc = "report"
  /\ reports' = [reports EXCEPT ![x].OnResponse = @ + 1]
  /\ q' = [q EXCEPT ![x].pc = "done"]
  /\ UNCHANGED <<sets, hangover, conns>>

----------------------------------------------------------------------------
HangoverExpires ==
  /\ hangover
  /\ hangover' = FALSE
  /\ UNCHANGED <<sets, conns, q, reports>>

(* The client drops a connection: idle for too long, or closed by the peer.*)
ConnectionLost ==
  /\ \E c \in conns : conns' = conns \ {c}
  /\ UNCHANGED <<sets, hangover, q, reports>>

Step(x) ==
  \/ Query(x) \/ Refuse(x) \/ Prepare(x) \/ Reuse(x) \/ Dial(x) \/ DialConfirmed(x)
  \/ DialAll(x) \/ DialNext(x) \/ DialFails(x) \/ Handshake(x) \/ SendFails(x)
  \/ Headers(x) \/ Redirect(x) \/ BodyFails(x) \/ BadStatus(x) \/ Respond(x) \/ Cleanup(x) \/ Judge(x)
  \/ ConfirmServer(x) \/ Return(x)

Next == HangoverExpires \/ ConnectionLost \/ \E x \in Queries : Step(x)

Spec == Init /\ [][Next]_vars

(* Every goroutine is scheduled, a dial ends by the system's timeout, and  *)
(* a request that was written gets headers or fails by the                 *)
(* ResponseHeaderTimeout.  Two waits may have no end: the                  *)
(* TLSHandshakeTimeout closes the retrier, and its Close waits for the     *)
(* lock that a retry holds while it reads (retrier.go:202, 306); and       *)
(* nothing limits the time that a body takes.                              *)
Unlimited == {"handshake", "body"}

FairSpec == Spec /\ \A x \in Queries : WF_vars(q[x].pc \notin Unlimited /\ Step(x))

----------------------------------------------------------------------------
(* Transport.Query's promise (doh.go:83-85, 240-243): the response has the *)
(* ID of the query although the server never saw it; success and every     *)
(* parseable query get a response; and a padded query, which doQuery       *)
(* edited in the caller's own slice, is as it was.                         *)
ResponseMatches ==
  \A x \in Queries : q[x].pc \in {"report", "done"} =>
    /\ q[x].response \in {q[x].id, None}
    /\ q[x].status = "Complete" \/ q[x].kind \in {"plain", "edns", "padded"}
         => q[x].response = q[x].id
    /\ q[x].wire = q[x].id

(* What the network can see of a query is its number of blocks, with no    *)
(* block more than the message and the option take, also when they fill    *)
(* the last one exactly; padding by the stub is left alone (padding.go:    *)
(* 39-46, 74-81, 106-117).                                                 *)
PaddedToBlock ==
  \A x \in Queries : q[x].size # 0 =>
    IF q[x].kind = "padded" THEN q[x].size = q[x].len
    ELSE LET least == CompressedLen(q[x].kind, q[x].len) + kOptPaddingHeaderLen
         IN  /\ q[x].size % PaddingBlockSize = 0
             /\ q[x].size \in least..(least + PaddingBlockSize - 1)

(* One dial never tries an address twice, though the set and its confirmed *)
(* address change under it (doh.go:139-142).                               *)
NoIPTwice == \A x \in Queries : IsInjective(q[x].tried)

(* The hangover turns away every query, so only a server that sent the     *)
(* headers of a response starts it (doh.go:55-58, 294-299), even if its    *)
(* connection was lost in the body (doh.go:404-407): no failure to dial,   *)
(* to make a handshake or to get headers does, and no query that was       *)
(* itself turned away.                                                     *)
HangoverMeansReply ==
  [][~hangover /\ hangover' =>
       \E x \in Queries : q[x].pc = "judge" /\ q[x].headers
                          /\ q'[x].status \in {"HTTPError", "BadResponse"}]_vars

(* An address loses its confirmed mark only to a query that failed on that *)
(* very address, not to a slow failure on another one (doh.go:318-328,     *)
(* ipmap.go:156-163).                                                      *)
OnlyOwnDisconfirm ==
  [][\A h \in Hosts, ip \in IPs :
       Map!Created(h) /\ sets[h].confirmed = ip /\ sets'[h].confirmed = None =>
         \E x \in Queries :
           \/ q[x].pc = "dialConfirmed" /\ q[x].host = h /\ q[x].confirmed = ip
           \/ q[x].pc = "cleanup" /\ q[x].hostname = h /\ q[x].server = ip]_vars

(* Every OnQuery is followed by its OnResponse (doh.go:431-459), on every  *)
(* path through dialling, redirects and failures, unless the query waits   *)
(* for ever in a handshake that is being retried or for a body.            *)
EveryQueryReported ==
  \A x \in Queries :
    reports[x].OnQuery = 1 ~> \/ reports[x].OnResponse = 1
                              \/ [](q[x].pc \in Unlimited)

----------------------------------------------------------------------------
(* doh.go:318: "If the query fails, this function will close the           *)
(* underlying socket and disconfirm the server IP."  Violated: doQuery     *)
(* confirms the address again.                                             *)
FailedIPDisconfirmed ==
  \A x \in Queries :
    q[x].pc = "done" /\ q[x].status = "SendFailed" /\ q[x].server # None
      => sets[q[x].hostname].confirmed # q[x].server
============================================================================
