----------------------------- MODULE UDPHandler -----------------------------
(***************************************************************************)
(* intra/udp.go: the UDP NAT.  An association is a core.UDPConn of the     *)
(* tun2socks core, the tracker that Connect makes for it, and the          *)
(* goroutine fetchUDPInput that copies incoming packets back.  Packets for *)
(* fakedns go to DoH, on a doDoh goroutine each.  fetchUDPInput and doDoh  *)
(* end with Close, so several of them may be in Close for one association. *)
(*                                                                         *)
(* Counters count packets rather than bytes.                               *)
(***************************************************************************)
EXTENDS Naturals, FiniteSets

CONSTANTS
  Conns,        \* the core.UDPConns that the core creates
  Queries,      \* the DNS queries that apps send: doDoh goroutines
  Transports,   \* DoH transports
  MaxPackets,   \* bound: non-DNS packets each way, for each association
  None

ASSUME UDPHandlerAssumption ==
  /\ MaxPackets \in Nat
  /\ Conns \cap Queries = {}
  /\ None \notin Conns \cup Transports

VARIABLES
  dns,       \* h.dns
  udpConns,  \* the keys of h.udpConns
  lwip,      \* the core's state of each core.UDPConn
  sock,      \* t.conn
  upload, download,  \* t.upload, t.download
  receive,   \* ReceiveTo on each core.UDPConn: where it is and the dns it read
  pc,        \* where each goroutine is, named by its Conn or its query
  query,     \* the arguments of each doDoh: its conn and its dns
  summary,   \* the argument of OnUDPSocketClosed, for each association
  sent, delivered    \* packets that left by t.conn; packets written to the TUN

tracker  == <<sock, upload, download>>
observed == <<sent, delivered>>
vars == <<dns, udpConns, lwip, tracker, receive, pc, query, summary, observed>>

Goroutines == Conns \cup Queries

(* The association that a goroutine works for.                             *)
ConnOf(g) == IF g \in Conns THEN g ELSE query[g].conn

Packets == 0..MaxPackets

TypeOK ==
  /\ dns \in Transports
  /\ udpConns \subseteq Conns
  /\ lwip \in [Conns -> {"new", "connected", "closed"}]
  /\ sock \in [Conns -> {"none", "open", "closed"}]
  /\ upload \in [Conns -> Packets] /\ download \in [Conns -> Packets]
  /\ receive \in [Conns -> [pc : {"idle", "found", "write"}, dns : Transports]]
  /\ pc \in [Goroutines -> {"none", "read", "write", "query", "test",
                            "close", "lock", "report", "done"}]
  /\ query \in [Queries -> [conn : Conns \cup {None}, dns : Transports \cup {None}]]
  /\ summary \in [Conns -> {None} \cup [upload : Packets, download : Packets]]
  /\ sent \in [Conns -> Packets] /\ delivered \in [Conns -> Packets]

Init ==
  /\ dns \in Transports
  /\ udpConns = {}
  /\ lwip = [c \in Conns |-> "new"]
  /\ sock = [c \in Conns |-> "none"]
  /\ upload = [c \in Conns |-> 0] /\ download = [c \in Conns |-> 0]
  /\ receive = [c \in Conns |-> [pc |-> "idle", dns |-> dns]]
  /\ pc = [g \in Goroutines |-> "none"]
  /\ query = [x \in Queries |-> [conn |-> None, dns |-> None]]
  /\ summary = [c \in Conns |-> None]
  /\ sent = [c \in Conns |-> 0] /\ delivered = [c \in Conns |-> 0]

(* Nobody is inside the locked part of Close.                              *)
Unlocked == \A g \in Goroutines : pc[g] # "report"

Goto(g, label) == pc' = [pc EXCEPT ![g] = label]

----------------------------------------------------------------------------
SetDNS ==
  /\ Unlocked
  /\ \E t \in Transports \ {dns} : dns' = t
  /\ UNCHANGED <<udpConns, lwip, tracker, receive, pc, query, summary, observed>>

(* The core creates a UDPConn and calls Connect, which binds a port.  When *)
(* that fails the core closes the UDPConn.                                 *)
Connect(c) ==
  /\ lwip[c] = "new" /\ Unlocked
  /\ \/ /\ sock' = [sock EXCEPT ![c] = "open"]
        /\ udpConns' = udpConns \cup {c}
        /\ Goto(c, "read")
        /\ lwip' = [lwip EXCEPT ![c] = "connected"]
     \/ /\ lwip' = [lwip EXCEPT ![c] = "closed"]
        /\ UNCHANGED <<sock, udpConns, pc>>
  /\ UNCHANGED <<dns, upload, download, receive, query, summary, observed>>

(* The core closes every UDPConn when the tunnel is disconnected.          *)
CoreCloses(c) ==
  /\ lwip[c] = "connected"
  /\ lwip' = [lwip EXCEPT ![c] = "closed"]
  /\ UNCHANGED <<dns, udpConns, tracker, receive, pc, query, summary, observed>>

----------------------------------------------------------------------------
(* ReceiveTo: the part under the read lock.  An association that is not in *)
(* the map makes it return an error.                                       *)
ReceiveTo(c) ==
  /\ lwip[c] = "connected" /\ receive[c].pc = "idle" /\ Unlocked
  /\ c \in udpConns
  /\ receive' = [receive EXCEPT ![c] = [pc |-> "found", dns |-> dns]]
  /\ UNCHANGED <<dns, udpConns, lwip, tracker, pc, query, summary, observed>>

(* The packet is for fakedns.                                              *)
ReceiveDNS_Counted(c) ==
  /\ receive[c].pc = "found"
  /\ upload' = [upload EXCEPT ![c] = @ + 1]
  /\ \E x \in Queries :
       /\ pc[x] = "none"
       /\ query' = [query EXCEPT ![x] = [conn |-> c, dns |-> receive[c].dns]]
       /\ Goto(x, "query")
  /\ receive' = [receive EXCEPT ![c].pc = "idle"]
  /\ UNCHANGED <<dns, udpConns, lwip, sock, download, summary, observed>>

ReceiveDNS(c) ==
  /\ receive[c].pc = "found"
  /\ \E x \in Queries :
       /\ pc[x] = "none"
       /\ query' = [query EXCEPT ![x] = [conn |-> c, dns |-> receive[c].dns]]
       /\ Goto(x, "query")
  /\ receive' = [receive EXCEPT ![c].pc = "idle"]
  /\ UNCHANGED <<dns, udpConns, lwip, tracker, summary, observed>>

(* The packet is for someone else: count it.                               *)
ReceiveOther(c) ==
  /\ receive[c].pc = "found"
  /\ upload[c] < MaxPackets
  /\ upload' = [upload EXCEPT ![c] = @ + 1]
  /\ receive' = [receive EXCEPT ![c].pc = "write"]
  /\ UNCHANGED <<dns, udpConns, lwip, sock, download, pc, query, summary, observed>>

(* t.conn.WriteTo, which may fail, and does if t.conn is closed.           *)
Forward(c) ==
  /\ receive[c].pc = "write"
  /\ receive' = [receive EXCEPT ![c].pc = "idle"]
  /\ \/ sock[c] = "open" /\ sent' = [sent EXCEPT ![c] = @ + 1]
     \/ UNCHANGED sent
  /\ UNCHANGED <<dns, udpConns, lwip, tracker, pc, query, summary, delivered>>

----------------------------------------------------------------------------
(* fetchUDPInput: a packet arrives on t.conn and is counted.               *)
FetchRead(c) ==
  /\ pc[c] = "read" /\ sock[c] = "open"
  /\ download[c] < MaxPackets
  /\ download' = [download EXCEPT ![c] = @ + 1]
  /\ Goto(c, "write")
  /\ UNCHANGED <<dns, udpConns, lwip, sock, upload, receive, query, summary, observed>>

(* ReadFrom fails: t.conn is closed, or nothing came before its deadline.  *)
FetchFails_Returns(c) ==
  /\ pc[c] = "read"
  /\ Goto(c, "done")
  /\ UNCHANGED <<dns, udpConns, lwip, tracker, receive, query, summary, observed>>

FetchFails(c) ==
  /\ pc[c] = "read"
  /\ Goto(c, "close")
  /\ UNCHANGED <<dns, udpConns, lwip, tracker, receive, query, summary, observed>>

(* conn.WriteFrom, which fails if the core has closed the UDPConn.         *)
FetchWrite(c) ==
  /\ pc[c] = "write"
  /\ IF lwip[c] = "connected"
     THEN delivered' = [delivered EXCEPT ![c] = @ + 1] /\ Goto(c, "read")
     ELSE UNCHANGED delivered /\ Goto(c, "close")
  /\ UNCHANGED <<dns, udpConns, lwip, tracker, receive, query, summary, sent>>

(* doDoh: Query returns; its response, if there is one, is written to the  *)
(* TUN.  No error of either has any effect.                                *)
Answer(x) ==
  /\ pc[x] = "query"
  /\ Goto(x, "test")
  /\ UNCHANGED <<dns, udpConns, lwip, tracker, receive, query, summary, observed>>

(* doDoh: was the association used for anything but DNS?                   *)
Test(x) ==
  /\ pc[x] = "test"
  /\ LET c == query[x].conn
     IN  Goto(x, IF upload[c] = 0 /\ download[c] = 0 THEN "close" ELSE "done")
  /\ UNCHANGED <<dns, udpConns, lwip, tracker, receive, query, summary, observed>>

----------------------------------------------------------------------------
(* Close: conn.Close().                                                    *)
CloseConn(g) ==
  /\ pc[g] = "close"
  /\ lwip' = [lwip EXCEPT ![ConnOf(g)] = "closed"]
  /\ Goto(g, "lock")
  /\ UNCHANGED <<dns, udpConns, tracker, receive, query, summary, observed>>

(* Close: h.Lock(), the lookup and t.conn.Close().                         *)
CloseSocket_Unchecked(g) ==
  /\ pc[g] = "lock" /\ Unlocked
  /\ sock' = [sock EXCEPT ![ConnOf(g)] = "closed"] /\ Goto(g, "report")
  /\ UNCHANGED <<dns, udpConns, lwip, upload, download, receive, query, summary, observed>>

CloseSocket_Leaks(g) ==
  /\ pc[g] = "lock" /\ Unlocked
  /\ Goto(g, IF ConnOf(g) \in udpConns THEN "report" ELSE "done")
  /\ UNCHANGED <<dns, udpConns, lwip, tracker, receive, query, summary, observed>>

CloseSocket(g) ==
  /\ pc[g] = "lock" /\ Unlocked
  /\ IF ConnOf(g) \in udpConns
     THEN sock' = [sock EXCEPT ![ConnOf(g)] = "closed"] /\ Goto(g, "report")
     ELSE UNCHANGED sock /\ Goto(g, "done")
  /\ UNCHANGED <<dns, udpConns, lwip, upload, download, receive, query, summary, observed>>

(* Close: OnUDPSocketClosed, delete and h.Unlock().                        *)
Report(g) ==
  /\ pc[g] = "report"
  /\ LET c == ConnOf(g)
     IN  /\ summary' = [summary EXCEPT ![c] = [upload |-> upload[c], download |-> download[c]]]
         /\ udpConns' = udpConns \ {c}
  /\ Goto(g, "done")
  /\ UNCHANGED <<dns, lwip, tracker, receive, query, observed>>

Close(g) == CloseConn(g) \/ CloseSocket(g) \/ Report(g)

----------------------------------------------------------------------------
fetchUDPInput(c) == FetchRead(c) \/ FetchFails(c) \/ FetchWrite(c) \/ Close(c)

doDoh(x) == Answer(x) \/ Test(x) \/ Close(x)

Core(c) == Connect(c) \/ CoreCloses(c) \/ ReceiveTo(c) \/ ReceiveDNS(c)
           \/ ReceiveOther(c) \/ Forward(c)

Next == \/ SetDNS
        \/ \E c \in Conns : Core(c) \/ fetchUDPInput(c)
        \/ \E x \in Queries : doDoh(x)

Spec == Init /\ [][Next]_vars

(* Goroutines are scheduled; a read of t.conn has a deadline, as has a DoH *)
(* query.  Strong fairness for h.Lock(): sync.RWMutex starves no writer.   *)
FairSpec ==
  /\ Spec
  /\ \A c \in Conns : WF_vars(fetchUDPInput(c)) /\ SF_vars(CloseSocket(c))
  /\ \A x \in Queries : WF_vars(doDoh(x)) /\ SF_vars(CloseSocket(x))

----------------------------------------------------------------------------
(* However many goroutines are in Close, an association is reported once,  *)
(* its socket is closed first and it leaves the map at the same time       *)
(* (udp.go:176-189).                                                       *)
DiscardedOnce ==
  [][\A c \in Conns : summary'[c] # summary[c] =>
       summary[c] = None /\ sock[c] = "closed" /\ c \in udpConns /\ c \notin udpConns']_vars

(* The summary of a discarded association leaves out no packet that passed *)
(* the NAT, although fetchUDPInput and ReceiveTo may be in the middle of   *)
(* one while another goroutine reports: both count before they write, and  *)
(* Close shuts both doors before it reads the counters (udp.go:104-105,    *)
(* 167-168, 177-186).                                                      *)
SummaryComplete ==
  \A c \in Conns : summary[c] # None =>
    summary[c].upload >= sent[c] /\ summary[c].download >= delivered[c]

(* The NAT keeps no socket for ever: every association is discarded and    *)
(* reported at last, also when the core closes the UDPConn on its own      *)
(* (udp.go:93-103).                                                        *)
Expires == \A c \in Conns : sock[c] = "open" ~> summary[c] # None
============================================================================
