------------------------------- MODULE Intra -------------------------------
(***************************************************************************)
(* The TCP side of an Intra session: tcpHandler of intra/tcp.go with its   *)
(* relays (TCPRelay), its DNS sockets (DNSStream) and its SNI reporter     *)
(* (sni_reporter.go), under an intratunnel (intra/tunnel.go), which sets   *)
(* the DNS transport of all of them.                                       *)
(***************************************************************************)
EXTENDS Integers, TCPRelay

CONSTANTS
  Transports,   \* DoH transports
  MaxQueries    \* bound: queries on one DNS socket

ASSUME IntraAssumption ==
  /\ {MaxBytes, MaxChunk, MaxQueries, MinSplit, MaxSplit} \subseteq Nat
  /\ 0 < MinSplit /\ MinSplit <= MaxSplit
  /\ Transports # {}
  /\ None \notin Modes \cup UploadPCs \cup DownloadPCs \cup TCPSocketSummary

VARIABLES
  stream,     \* the DNS sockets
  dns,        \* t.dns, the UDP handler's, h.dns, and r.dns of the SNI reporter
  setting,    \* SetDNS in progress: the next holder it tells
  alwaysSplitHTTPS,
  reporter,   \* EnableSNIReporter has been called: r.r is not nil
  asked,      \* the transport that each DNS socket was given
  outbox,     \* reports queued in Choir
  posted      \* reports sent, with the transport used

INSTANCE DNSStream

handlerVars == <<dns, setting, alwaysSplitHTTPS, reporter, asked, outbox, posted>>
vars == <<stream, relayVars, handlerVars>>

Holders == <<"tunnel", "udp", "tcp", "sni">>

Reports == [conn : Conns, result : {"success", "failed"}, response : {"timeout", "closed"}]

TypeOK ==
  /\ RelayTypeOK
  /\ stream \in [Conns -> Streams]
  /\ dns \in [{"tunnel", "udp", "tcp", "sni"} -> Transports]
  /\ setting \in {0, 2, 3, 4}
  /\ alwaysSplitHTTPS \in BOOLEAN /\ reporter \in BOOLEAN
  /\ asked \in [Conns -> Transports \cup {None}]
  /\ outbox \subseteq Reports
  /\ posted \in [Conns -> Transports \cup {None}]

(* NewTunnel has registered the handlers and called SetDNS.                *)
Init ==
  /\ RelayInit
  /\ stream = [c \in Conns |-> NoStream]
  /\ \E t \in Transports : dns = [h \in {"tunnel", "udp", "tcp", "sni"} |-> t]
  /\ setting = 0
  /\ alwaysSplitHTTPS = FALSE /\ reporter = FALSE
  /\ asked = [c \in Conns |-> None]
  /\ outbox = {} /\ posted = [c \in Conns |-> None]

----------------------------------------------------------------------------
(* The atomic transport, and the fields that others keep it in.            *)
Store(h, t) == dns' = [dns EXCEPT ![h] = t]

Load == dns.tcp

(* intratunnel.SetDNS: its own field, then the UDP handler, then h.dns and *)
(* the SNI reporter (tcpHandler.SetDNS).                                   *)
SetDNS ==
  /\ setting = 0
  /\ \E t \in Transports \ {dns.tunnel} : Store("tunnel", t)
  /\ setting' = 2
  /\ UNCHANGED <<stream, relayVars, alwaysSplitHTTPS, reporter, asked, outbox, posted>>

SetNext_Past ==
  /\ setting # 0
  /\ Store(Holders[setting], dns.tunnel)
  /\ setting' = setting + 1
  /\ UNCHANGED <<stream, relayVars, alwaysSplitHTTPS, reporter, asked, outbox, posted>>

SetNext_NotSNI ==
  /\ setting # 0
  /\ Store(Holders[setting], dns.tunnel)
  /\ setting' = IF setting = 3 THEN 0 ELSE setting + 1
  /\ UNCHANGED <<stream, relayVars, alwaysSplitHTTPS, reporter, asked, outbox, posted>>

SetNext ==
  /\ setting # 0
  /\ Store(Holders[setting], dns.tunnel)
  /\ setting' = IF setting = 4 THEN 0 ELSE setting + 1
  /\ UNCHANGED <<stream, relayVars, alwaysSplitHTTPS, reporter, asked, outbox, posted>>

SetAlwaysSplitHTTPS ==
  /\ alwaysSplitHTTPS' = ~alwaysSplitHTTPS
  /\ UNCHANGED <<stream, relayVars, dns, setting, reporter, asked, outbox, posted>>

(* Configure: a salt file that Choir cannot use leaves r.r nil.            *)
Configure == reporter' \in BOOLEAN

(* The salt file is opened, or that fails.                                 *)
EnableSNIReporter ==
  /\ Configure \/ UNCHANGED reporter
  /\ UNCHANGED <<stream, relayVars, dns, setting, alwaysSplitHTTPS, asked, outbox, posted>>

----------------------------------------------------------------------------
New(c) == mode[c] = None /\ asked[c] = None

(* Handle: the target is fakedns.                                          *)
HandleDNS(c) ==
  /\ New(c)
  /\ asked' = [asked EXCEPT ![c] = Load]
  /\ Accept(c)
  /\ UNCHANGED <<relayVars, dns, setting, alwaysSplitHTTPS, reporter, outbox, posted>>

(* Handle: filteredPort and the mode decide how to dial.                   *)
HandleOther(c) ==
  /\ New(c)
  /\ \E ServerPort \in {443, -1} :
       mode' = [mode EXCEPT ![c] = IF ServerPort # 443 THEN "plain"
                                   ELSE IF alwaysSplitHTTPS THEN "split" ELSE "retry"]
  /\ retry' = [retry EXCEPT ![c] = IF mode'[c] = "retry"
                 THEN [phase |-> "provisional", Split |-> 0, Timeout |-> FALSE] ELSE None]
  /\ UNCHANGED <<stream, local, remote, up, down, bytes, hello, summary, sent, delivered,
                 handlerVars>>

(* The dial succeeds: go h.forward.  If it fails, Handle returns the error *)
(* and the core drops the connection: nothing more happens to it.          *)
Dialed(c) ==
  /\ mode[c] # None /\ down[c] = None
  /\ StartForward(c)
  /\ UNCHANGED <<stream, handlerVars>>

----------------------------------------------------------------------------
(* tcpSNIReporter.Report, at the end of forward.                           *)
SNIReport_NoRetry(c) ==
  /\ down[c] = "sni"
  /\ outbox' = IF ~reporter THEN outbox
       ELSE outbox \cup {[conn |-> c,
                          result |-> IF summary[c].DownloadBytes > 0 THEN "success" ELSE "failed",
                          response |-> IF retry[c].Timeout THEN "timeout" ELSE "closed"]}
  /\ down' = [down EXCEPT ![c] = "done"]
  /\ UNCHANGED <<stream, mode, local, remote, up, bytes, retry, hello, summary, sent,
                 delivered, dns, setting, alwaysSplitHTTPS, reporter, asked, posted>>

SNIReport(c) ==
  /\ down[c] = "sni"
  /\ outbox' = IF retry[c].Split = 0 \/ ~reporter THEN outbox
       ELSE outbox \cup {[conn |-> c,
                          result |-> IF summary[c].DownloadBytes > 0 THEN "success" ELSE "failed",
                          response |-> IF retry[c].Timeout THEN "timeout" ELSE "closed"]}
  /\ down' = [down EXCEPT ![c] = "done"]
  /\ UNCHANGED <<stream, mode, local, remote, up, bytes, retry, hello, summary, sent,
                 delivered, dns, setting, alwaysSplitHTTPS, reporter, asked, posted>>

(* Choir calls Send for a report, later, or drops it.                      *)
Send(r) ==
  /\ r \in outbox
  /\ outbox' = outbox \ {r}
  /\ \/ posted' = [posted EXCEPT ![r.conn] = dns.sni]
     \/ UNCHANGED posted
  /\ UNCHANGED <<stream, relayVars, dns, setting, alwaysSplitHTTPS, reporter, asked>>

----------------------------------------------------------------------------
Relay(c) == (forward(c) \/ AppEnds(c) \/ ServerEnds(c)) /\ UNCHANGED <<stream, handlerVars>>

ServeDNS(c) == StreamStep(c) /\ UNCHANGED <<relayVars, handlerVars>>

Next ==
  \/ SetDNS \/ SetNext \/ SetAlwaysSplitHTTPS \/ EnableSNIReporter
  \/ \E c \in Conns : HandleDNS(c) \/ HandleOther(c) \/ Dialed(c) \/ SNIReport(c)
                      \/ Relay(c) \/ ServeDNS(c)
  \/ \E r \in outbox : Send(r)

Spec == Init /\ [][Next]_vars

(* Goroutines are scheduled and queries end; a silent app, server or stub  *)
(* need not move until it is told that the other side has finished.        *)
FairSpec ==
  /\ Spec
  /\ \A c \in Conns :
       /\ WF_relayVars(UploadGoesOn(c)) /\ WF_relayVars(DownloadGoesOn(c))
       /\ WF_relayVars(Join(c)) /\ WF_relayVars(OnTCPSocketClosed(c))
       /\ WF_relayVars(AppNotified(c)) /\ WF_relayVars(ServerNotified(c))
       /\ WF_stream(AcceptNotified(c))
       /\ \A k \in Numbers : WF_stream(forwardQueryAndCheck(c, k))

----------------------------------------------------------------------------
(* A report tells of a connection that was retried and has been reported   *)
(* to the listener, and "success" means that the app got something         *)
(* (sni_reporter.go:85-103).                                               *)
ReportsTrue ==
  \A r \in outbox :
    /\ mode[r.conn] = "retry" /\ retry[r.conn].Split > 0 /\ summary[r.conn] # None
    /\ r.result = "success" <=> delivered[r.conn] > 0

(* Once SetDNS has returned, no new DNS socket and no report uses the      *)
(* transport it has replaced; a socket accepted earlier keeps the one it   *)
(* has (tcp.go:128-129, 161-164; tunnel.go:111-115; sni_reporter.go:57-60).*)
NewTransportUsed ==
  [][\A c \in Conns :
       /\ asked'[c] # asked[c] /\ setting = 0 => asked'[c] = dns.tunnel
       /\ posted'[c] # posted[c] /\ setting = 0 => posted'[c] = dns.tunnel
       /\ asked[c] # None => asked'[c] = asked[c]]_vars
============================================================================
