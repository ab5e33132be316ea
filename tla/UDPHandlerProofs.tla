------------------------- MODULE UDPHandlerProofs -------------------------
(***************************************************************************)
(* What holds of UDPHandler for every number of associations, DNS queries, *)
(* transports and packets.                                                 *)
(***************************************************************************)
EXTENDS UDPHandler, TLAPS

(***************************************************************************)
(* The inductive invariant.                                                *)
(***************************************************************************)
(* Each goroutine is in its own function, and one that has started works   *)
(* for an association that exists.                                         *)
GoroutineInv ==
  /\ \A c \in Conns : pc[c] \notin {"query", "test"}
  /\ \A x \in Queries : pc[x] \notin {"read", "write"}
  /\ \A g \in Goroutines : pc[g] # "none" => ConnOf(g) \in Conns /\ lwip[ConnOf(g)] # "new"

(* An association is in the map from Connect to its report, not before and *)
(* not after.                                                              *)
MapInv ==
  \A c \in Conns :
    /\ c \in udpConns => lwip[c] # "new" /\ summary[c] = None
    /\ receive[c].pc # "idle" => lwip[c] # "new"

(* Close has shut the core's side before it takes the lock, and holds the  *)
(* lock alone, with the association still in the map and its socket closed.*)
LockInv ==
  /\ \A g \in Goroutines : pc[g] \in {"lock", "report"} => lwip[ConnOf(g)] = "closed"
  /\ \A g \in Goroutines : pc[g] = "report" => ConnOf(g) \in udpConns /\ sock[ConnOf(g)] = "closed"
  /\ \A g, h \in Goroutines : pc[g] = "report" /\ pc[h] = "report" => g = h

(* Both directions count a packet before they pass it on.                  *)
CountInv ==
  \A c \in Conns :
    /\ sent[c] <= upload[c] /\ (receive[c].pc = "write" => sent[c] + 1 <= upload[c])
    /\ delivered[c] <= download[c] /\ (pc[c] = "write" => delivered[c] + 1 <= download[c])

(* Nothing passes an association after its report: both doors are shut.    *)
SummaryInv ==
  \A c \in Conns : summary[c] # None =>
    /\ sock[c] = "closed" /\ lwip[c] = "closed"
    /\ summary[c].upload >= sent[c] /\ summary[c].download >= delivered[c]

NATInv == GoroutineInv /\ MapInv /\ LockInv /\ CountInv /\ SummaryInv

(***************************************************************************)
(* Frames: what the steps of a goroutine leave alone.                      *)
(***************************************************************************)
(* A goroutine that moves moves alone.                                     *)
LEMMA GotoMoves ==
  ASSUME TypeOK, NEW g \in Goroutines, NEW label, Goto(g, label)
  PROVE  pc'[g] = label /\ \A h \in Goroutines : h # g => pc'[h] = pc[h]
  BY DEF TypeOK, Goto

(* NewUDPHandler: an empty map.                                            *)
LEMMA NATInit == Init => TypeOK /\ NATInv
  <1> SUFFICES ASSUME Init PROVE TypeOK /\ NATInv OBVIOUS
  <1> USE UDPHandlerAssumption DEF Init
  <1>1. 0 \in Packets BY DEF Packets
  <1>2. TypeOK BY <1>1 DEF TypeOK
  <1>3. GoroutineInv /\ LockInv
    <2>1. Conns \subseteq Goroutines /\ Queries \subseteq Goroutines BY DEF Goroutines
    <2>2. \A g \in Goroutines : pc[g] = "none" OBVIOUS
    <2> QED BY <2>1, <2>2 DEF GoroutineInv, LockInv
  <1>4. MapInv BY DEF MapInv
  <1>5. SummaryInv BY DEF SummaryInv
  <1>6. CountInv
    <2>1. \A c \in Conns : pc[c] = "none" BY DEF Goroutines
    <2> QED BY <2>1 DEF CountInv
  <1> QED BY <1>2, <1>3, <1>4, <1>5, <1>6 DEF NATInv

(* Every step keeps the types; the counts are within their bound because   *)
(* what leaves was counted before.                                         *)
LEMMA TypeNext == TypeOK /\ NATInv /\ [Next]_vars => TypeOK'
  <1> SUFFICES ASSUME TypeOK, NATInv, [Next]_vars PROVE TypeOK' OBVIOUS
  <1> USE UDPHandlerAssumption DEF TypeOK, tracker, observed, Goto, Packets
  <1>i. CountInv BY DEF NATInv
  <1>g. Conns \subseteq Goroutines /\ Queries \subseteq Goroutines BY DEF Goroutines
  <1>1. CASE SetDNS BY <1>1 DEF SetDNS
  <1>2. ASSUME NEW c \in Conns, Core(c) PROVE TypeOK'
    <2>1. CASE Connect(c)
      <3>1. udpConns' \subseteq Conns BY <2>1 DEF Connect
      <3>2. /\ lwip' \in {[lwip EXCEPT ![c] = "connected"], [lwip EXCEPT ![c] = "closed"]}
            /\ sock' \in {sock, [sock EXCEPT ![c] = "open"]}
        BY <2>1 DEF Connect
      <3>3. pc' = pc \/ pc' = [pc EXCEPT ![c] = "read"] BY <2>1 DEF Connect
      <3> QED BY <2>1, <1>g, <3>1, <3>2, <3>3 DEF Connect
    <2>2. CASE CoreCloses(c) BY <2>2 DEF CoreCloses
    <2>3. CASE ReceiveTo(c) BY <2>3 DEF ReceiveTo
    <2>4. CASE ReceiveDNS(c) BY <2>4, <1>g DEF ReceiveDNS
    <2>5. CASE ReceiveOther(c) BY <2>5 DEF ReceiveOther
    <2>6. CASE Forward(c)
      <3>1. sent[c] + 1 \in Packets BY <1>i, <2>6 DEF Forward, CountInv
      <3> QED BY <2>6, <3>1 DEF Forward
    <2> QED BY <1>2, <2>1, <2>2, <2>3, <2>4, <2>5, <2>6 DEF Core
  <1>3. ASSUME NEW g \in Goroutines, Close(g) PROVE TypeOK'
    <2>1. CASE CloseConn(g) BY <2>1 DEF CloseConn
    <2>2. CASE CloseSocket(g) BY <2>2 DEF CloseSocket
    <2>3. CASE Report(g)
      <3>1. ConnOf(g) \in Conns BY <2>3 DEF Report, NATInv, GoroutineInv
      <3> QED BY <2>3, <3>1 DEF Report
    <2> QED BY <1>3, <2>1, <2>2, <2>3 DEF Close
  <1>4. ASSUME NEW c \in Conns, fetchUDPInput(c) PROVE TypeOK'
    <2>1. CASE FetchRead(c) BY <2>1, <1>g DEF FetchRead
    <2>2. CASE FetchFails(c) BY <2>2, <1>g DEF FetchFails
    <2>3. CASE FetchWrite(c)
      <3>1. delivered[c] + 1 \in Packets BY <1>i, <2>3 DEF FetchWrite, CountInv
      <3>2. delivered' \in [Conns -> Packets] BY <2>3, <3>1 DEF FetchWrite
      <3>3. PICK label \in {"read", "close"} : pc' = [pc EXCEPT ![c] = label]
        BY <2>3 DEF FetchWrite
      <3>4. UNCHANGED <<dns, udpConns, lwip, sock, upload, download, receive, query,
                        summary, sent>>
        BY <2>3 DEF FetchWrite
      <3> QED BY <1>g, <3>2, <3>3, <3>4
    <2> QED BY <1>4, <1>3, <1>g, <2>1, <2>2, <2>3 DEF fetchUDPInput
  <1>5. ASSUME NEW x \in Queries, doDoh(x) PROVE TypeOK'
    <2>1. CASE Answer(x) BY <2>1, <1>g DEF Answer
    <2>2. CASE Test(x) BY <2>2, <1>g DEF Test
    <2> QED BY <1>5, <1>3, <1>g, <2>1, <2>2 DEF doDoh
  <1>6. CASE UNCHANGED vars BY <1>6 DEF vars
  <1> QED BY <1>1, <1>2, <1>4, <1>5, <1>6 DEF Next

(***************************************************************************)
(* One lemma per part of the invariant.                                    *)
(***************************************************************************)
(* The association of a goroutine that has started never changes.          *)
LEMMA ConnOfKept ==
  ASSUME TypeOK, NATInv, Next
  PROVE  \A g \in Goroutines : pc[g] # "none" => ConnOf(g)' = ConnOf(g)
  <1>1. query' = query \/ \E c \in Conns : ReceiveDNS(c)
    BY DEF Next, SetDNS, Core, fetchUDPInput, doDoh, Close, Connect, CoreCloses, ReceiveTo,
           ReceiveOther, Forward, FetchRead, FetchFails, FetchWrite, Answer, Test, CloseConn,
           CloseSocket, Report
  <1>2. CASE query' = query BY <1>2 DEF ConnOf
  <1>3. ASSUME NEW c \in Conns, ReceiveDNS(c)
        PROVE  \A g \in Goroutines : pc[g] # "none" => ConnOf(g)' = ConnOf(g)
    <2>1. PICK x \in Queries : pc[x] = "none" /\ \A y \in Queries : y # x => query'[y] = query[y]
      BY <1>3 DEF ReceiveDNS, TypeOK
    <2> QED BY <2>1 DEF ConnOf, Goroutines
  <1> QED BY <1>1, <1>2, <1>3

(* The core never makes a closed UDPConn new, nor reopens it.              *)
LEMMA LwipAdvances ==
  ASSUME TypeOK, NATInv, Next
  PROVE  \A c \in Conns : /\ lwip[c] # "new" => lwip'[c] # "new"
                          /\ lwip[c] = "closed" => lwip'[c] = "closed"
  <1>1. \/ lwip' = lwip
        \/ \E c \in Conns : lwip[c] # "closed" /\ lwip' = [lwip EXCEPT ![c] = "connected"] /\ lwip[c] = "new"
        \/ \E c : lwip' = [lwip EXCEPT ![c] = "closed"]
    BY DEF Next, SetDNS, Core, fetchUDPInput, doDoh, Close, Connect, CoreCloses, ReceiveTo,
           ReceiveDNS, ReceiveOther, Forward, FetchRead, FetchFails, FetchWrite, Answer, Test,
           CloseConn, CloseSocket, Report
  <1> QED BY <1>1 DEF TypeOK

(* A goroutine starts with Connect, or for a packet that ReceiveTo found   *)
(* to be a DNS query.                                                      *)
LEMMA Starts ==
  ASSUME TypeOK, Next, NEW g \in Goroutines, pc[g] = "none", pc'[g] # "none"
  PROVE  \/ g \in Conns /\ lwip'[g] # "new" /\ pc'[g] = "read"
         \/ /\ g \in Queries /\ pc'[g] = "query" /\ query'[g].conn \in Conns
            /\ receive[query'[g].conn].pc = "found"
  <1>g. Conns \subseteq Goroutines /\ Queries \subseteq Goroutines BY DEF Goroutines
  <1>1. ASSUME NEW c \in Conns, Connect(c)
        PROVE  g = c /\ lwip'[g] # "new" /\ pc'[g] = "read"
    BY <1>1, <1>g DEF Connect, Goto, TypeOK
  <1>2. ASSUME NEW c \in Conns, ReceiveDNS(c)
        PROVE  /\ g \in Queries /\ pc'[g] = "query" /\ query'[g].conn = c
               /\ receive[c].pc = "found"
    <2>1. PICK x \in Queries :
            /\ query' = [query EXCEPT ![x] = [conn |-> c, dns |-> receive[c].dns]]
            /\ Goto(x, "query")
      BY <1>2 DEF ReceiveDNS
    <2>2. g = x /\ pc'[g] = "query" BY <1>g, <2>1, GotoMoves
    <2>3. query'[x].conn = c BY <2>1 DEF TypeOK
    <2> QED BY <1>2, <2>2, <2>3 DEF ReceiveDNS
  <1>3. ASSUME NEW c \in Conns, Core(c), ~Connect(c), ~ReceiveDNS(c) PROVE FALSE
    BY <1>3 DEF Core, CoreCloses, ReceiveTo, ReceiveOther, Forward
  <1>4. ASSUME NEW h \in Goroutines, Close(h) PROVE FALSE
    BY <1>4, GotoMoves DEF Close, CloseConn, CloseSocket, Report
  <1>5. ASSUME NEW c \in Conns, fetchUDPInput(c) PROVE FALSE
    <2>1. CASE FetchRead(c) \/ FetchFails(c) \/ FetchWrite(c)
      BY <2>1, <1>g, GotoMoves DEF FetchRead, FetchFails, FetchWrite
    <2> QED BY <1>4, <1>5, <1>g, <2>1 DEF fetchUDPInput
  <1>6. ASSUME NEW x \in Queries, doDoh(x) PROVE FALSE
    <2>1. CASE Answer(x) \/ Test(x) BY <2>1, <1>g, GotoMoves DEF Answer, Test
    <2> QED BY <1>4, <1>6, <1>g, <2>1 DEF doDoh
  <1>7. CASE SetDNS BY <1>7 DEF SetDNS
  <1> QED BY <1>1, <1>2, <1>3, <1>5, <1>6, <1>7 DEF Next

(* Where a goroutine that has started can go.                              *)
LEMMA Goes ==
  ASSUME TypeOK, NATInv, Next, NEW g \in Goroutines, pc[g] # "none", pc'[g] # pc[g]
  PROVE  \/ g \in Conns /\ pc'[g] \in {"read", "write", "close"}
         \/ g \in Queries /\ pc'[g] \in {"test", "close", "done"}
         \/ Close(g)
  <1>g. Conns \subseteq Goroutines /\ Queries \subseteq Goroutines BY DEF Goroutines
  <1>1. ASSUME NEW c \in Conns, Core(c) PROVE FALSE
    <2>1. CASE Connect(c)
      BY <1>g, <2>1, GotoMoves DEF Connect, NATInv, GoroutineInv, ConnOf
    <2>2. CASE ReceiveDNS(c) BY <1>g, <2>2, GotoMoves DEF ReceiveDNS
    <2> QED BY <1>1, <2>1, <2>2 DEF Core, CoreCloses, ReceiveTo, ReceiveOther, Forward
  <1>2. ASSUME NEW h \in Goroutines, Close(h) PROVE h = g
    BY <1>2, GotoMoves DEF Close, CloseConn, CloseSocket, Report
  <1>3. ASSUME NEW c \in Conns, fetchUDPInput(c)
        PROVE  (g = c /\ pc'[g] \in {"read", "write", "close"}) \/ Close(g)
    <2>1. CASE FetchRead(c) \/ FetchFails(c) \/ FetchWrite(c)
      BY <2>1, <1>g, GotoMoves DEF FetchRead, FetchFails, FetchWrite
    <2> QED BY <1>2, <1>3, <1>g, <2>1 DEF fetchUDPInput
  <1>4. ASSUME NEW x \in Queries, doDoh(x)
        PROVE  (g = x /\ pc'[g] \in {"test", "close", "done"}) \/ Close(g)
    <2>1. CASE Answer(x) \/ Test(x) BY <2>1, <1>g, GotoMoves DEF Answer, Test
    <2> QED BY <1>2, <1>4, <1>g, <2>1 DEF doDoh
  <1>5. CASE SetDNS BY <1>5 DEF SetDNS
  <1> QED BY <1>1, <1>3, <1>4, <1>5 DEF Next

(* Goroutines stay in their own function and on their association.         *)
LEMMA GoroutineNext == TypeOK /\ NATInv /\ Next => GoroutineInv'
  <1> SUFFICES ASSUME TypeOK, NATInv, Next PROVE GoroutineInv' OBVIOUS
  <1>i. GoroutineInv /\ MapInv BY DEF NATInv
  <1>g. Conns \subseteq Goroutines /\ Queries \subseteq Goroutines /\ Conns \cap Queries = {}
    BY UDPHandlerAssumption DEF Goroutines
  <1>c. ASSUME NEW g \in Goroutines, Close(g) PROVE pc'[g] \in {"lock", "report", "done"}
    BY <1>c, GotoMoves DEF Close, CloseConn, CloseSocket, Report
  <1>1. \A c \in Conns : pc'[c] \notin {"query", "test"}
    BY <1>i, <1>g, <1>c, Starts, Goes DEF GoroutineInv
  <1>2. \A x \in Queries : pc'[x] \notin {"read", "write"}
    BY <1>i, <1>g, <1>c, Starts, Goes DEF GoroutineInv
  <1>3. ASSUME NEW g \in Goroutines, pc'[g] # "none"
        PROVE  ConnOf(g)' \in Conns /\ lwip'[ConnOf(g)'] # "new"
    <2>1. CASE pc[g] # "none"
      BY <1>i, <2>1, ConnOfKept, LwipAdvances DEF GoroutineInv
    <2>2. CASE pc[g] = "none"
      <3>1. CASE g \in Conns BY <1>g, <1>3, <2>2, <3>1, Starts DEF ConnOf
      <3>2. CASE g \in Queries /\ query'[g].conn \in Conns /\ receive[query'[g].conn].pc = "found"
        BY <1>g, <1>i, <3>2, LwipAdvances DEF ConnOf, MapInv
      <3> QED BY <1>3, <2>2, <3>1, <3>2, Starts
    <2> QED BY <2>1, <2>2
  <1> QED BY <1>1, <1>2, <1>3 DEF GoroutineInv

(* Connect adds an association that is new and Report, which alone writes  *)
(* summaries, takes out the one it reports.                                *)
LEMMA MapChanges ==
  ASSUME TypeOK, Next
  PROVE  \/ udpConns' = udpConns /\ summary' = summary
         \/ \E c \in Conns : /\ lwip[c] = "new" /\ lwip'[c] # "new"
                             /\ udpConns' = udpConns \cup {c} /\ summary' = summary
         \/ \E g \in Goroutines : Report(g)
  <1>1. ASSUME NEW c \in Conns, Connect(c)
        PROVE  \/ udpConns' = udpConns /\ summary' = summary
               \/ /\ lwip[c] = "new" /\ lwip'[c] # "new"
                  /\ udpConns' = udpConns \cup {c} /\ summary' = summary
    BY <1>1 DEF Connect, TypeOK
  <1>2. ASSUME NEW c \in Conns, Core(c), ~Connect(c)
        PROVE  udpConns' = udpConns /\ summary' = summary
    BY <1>2 DEF Core, CoreCloses, ReceiveTo, ReceiveDNS, ReceiveOther, Forward
  <1>3. ASSUME NEW c \in Conns, fetchUDPInput(c), ~Report(c)
        PROVE  udpConns' = udpConns /\ summary' = summary
    BY <1>3 DEF fetchUDPInput, FetchRead, FetchFails, FetchWrite, Close, CloseConn, CloseSocket
  <1>4. ASSUME NEW x \in Queries, doDoh(x), ~Report(x)
        PROVE  udpConns' = udpConns /\ summary' = summary
    BY <1>4 DEF doDoh, Answer, Test, Close, CloseConn, CloseSocket
  <1>5. CASE SetDNS BY <1>5 DEF SetDNS
  <1>g. Conns \subseteq Goroutines /\ Queries \subseteq Goroutines BY DEF Goroutines
  <1> QED BY <1>1, <1>2, <1>3, <1>4, <1>5, <1>g DEF Next

(* Only Connect puts an association into the map, and only the report      *)
(* takes it out.                                                           *)
LEMMA MapNext == TypeOK /\ NATInv /\ Next => MapInv'
  <1> SUFFICES ASSUME TypeOK, NATInv, Next PROVE MapInv' OBVIOUS
  <1>i. MapInv /\ SummaryInv /\ GoroutineInv BY DEF NATInv
  <1>1. ASSUME NEW c \in Conns, c \in udpConns' PROVE lwip'[c] # "new" /\ summary'[c] = None
    <2>1. CASE udpConns' = udpConns /\ summary' = summary
      BY <1>i, <1>1, <2>1, LwipAdvances DEF MapInv
    <2>2. ASSUME NEW d \in Conns, lwip[d] = "new", lwip'[d] # "new",
                 udpConns' = udpConns \cup {d}, summary' = summary
          PROVE  lwip'[c] # "new" /\ summary'[c] = None
      <3>1. summary[d] = None BY <1>i, <2>2 DEF SummaryInv
      <3> QED BY <1>i, <1>1, <2>2, <3>1, LwipAdvances DEF MapInv
    <2>3. ASSUME NEW g \in Goroutines, Report(g)
          PROVE  lwip'[c] # "new" /\ summary'[c] = None
      <3>1. c \in udpConns /\ c # ConnOf(g) BY <1>1, <2>3 DEF Report
      <3>2. summary'[c] = summary[c] BY <2>3, <3>1 DEF Report, TypeOK
      <3> QED BY <1>i, <3>1, <3>2, LwipAdvances DEF MapInv
    <2> QED BY <2>1, <2>2, <2>3, MapChanges
  <1>2. ASSUME NEW c \in Conns, receive'[c].pc # "idle" PROVE lwip'[c] # "new"
    <2>1. receive[c].pc # "idle" \/ lwip[c] = "connected"
      <3>1. CASE receive' = receive BY <1>2, <3>1
      <3>2. CASE receive' # receive
        <4>1. PICK d \in Conns : ReceiveTo(d) \/ ReceiveDNS(d) \/ ReceiveOther(d) \/ Forward(d)
          BY <3>2 DEF Next, SetDNS, Core, fetchUDPInput, doDoh, Close, Connect, CoreCloses,
                      FetchRead, FetchFails, FetchWrite, Answer, Test, CloseConn,
                      CloseSocket, Report
        <4>2. \A e \in Conns : e # d => receive'[e] = receive[e]
          BY <4>1 DEF ReceiveTo, ReceiveDNS, ReceiveOther, Forward, TypeOK
        <4>3. receive[d].pc # "idle" \/ lwip[d] = "connected"
          BY <4>1 DEF ReceiveTo, ReceiveDNS, ReceiveOther, Forward
        <4> QED BY <1>2, <4>2, <4>3
      <3> QED BY <3>1, <3>2
    <2> QED BY <1>i, <2>1, LwipAdvances DEF MapInv
  <1> QED BY <1>1, <1>2 DEF MapInv

(* Close keeps to its lock.                                                *)
LEMMA LockNext == TypeOK /\ NATInv /\ Next => LockInv'
  <1> SUFFICES ASSUME TypeOK, NATInv, Next PROVE LockInv' OBVIOUS
  <1>i. LockInv /\ GoroutineInv BY DEF NATInv
  <1>1. ASSUME NEW g \in Goroutines, pc'[g] \in {"lock", "report"}
        PROVE  lwip'[ConnOf(g)'] = "closed"
    <2>1. pc[g] # "none" BY <1>1, Starts
    <2>2. ConnOf(g)' = ConnOf(g) /\ ConnOf(g) \in Conns
      BY <1>i, <2>1, ConnOfKept DEF GoroutineInv
    <2>3. CASE pc'[g] = pc[g] BY <1>i, <1>1, <2>2, <2>3, LwipAdvances DEF LockInv
    <2>4. CASE Close(g)
      <3>1. CASE CloseConn(g) BY <2>2, <3>1 DEF CloseConn, TypeOK
      <3>2. CASE CloseSocket(g) BY <1>i, <2>2, <3>2 DEF CloseSocket, LockInv
      <3>3. CASE Report(g) BY <1>1, <3>3, GotoMoves DEF Report
      <3> QED BY <2>4, <3>1, <3>2, <3>3 DEF Close
    <2> QED BY <1>1, <2>1, <2>3, <2>4, Goes
  <1>2. ASSUME NEW g \in Goroutines, pc'[g] = "report", pc[g] # "report"
        PROVE  CloseSocket(g) /\ Unlocked
    <2>1. pc[g] # "none" BY <1>2, Starts
    <2>2. Close(g) BY <1>2, <2>1, Goes
    <2>3. ~CloseConn(g) /\ ~Report(g) BY <1>2, GotoMoves DEF CloseConn, Report
    <2> QED BY <2>2, <2>3 DEF Close, CloseSocket
  <1>3. ASSUME NEW g \in Goroutines, NEW h \in Goroutines, pc'[g] = "report", pc'[h] = "report"
        PROVE  g = h
    <2>1. CASE pc[g] = "report" /\ pc[h] = "report" BY <1>i, <2>1 DEF LockInv
    <2>2. ASSUME NEW k \in Goroutines, pc'[k] = "report", pc[k] # "report",
                 NEW l \in Goroutines, pc'[l] = "report"
          PROVE  k = l
      <3>1. Goto(k, "report") /\ Unlocked BY <1>2, <2>2, GotoMoves DEF CloseSocket
      <3> QED BY <2>2, <3>1, GotoMoves DEF Unlocked
    <2> QED BY <1>3, <2>1, <2>2
  <1>4. ASSUME NEW g \in Goroutines, pc'[g] = "report"
        PROVE  ConnOf(g)' \in udpConns' /\ sock'[ConnOf(g)'] = "closed"
    <2>1. pc[g] # "none" BY <1>4, Starts
    <2>2. ConnOf(g)' = ConnOf(g) /\ ConnOf(g) \in Conns /\ lwip[ConnOf(g)] # "new"
      BY <1>i, <2>1, ConnOfKept DEF GoroutineInv
    <2>3. CASE pc[g] # "report"
      <3>1. CloseSocket(g) BY <1>2, <1>4, <2>3
      <3>2. ConnOf(g) \in udpConns BY <1>4, <3>1, GotoMoves DEF CloseSocket
      <3> QED BY <2>2, <3>1, <3>2 DEF CloseSocket, TypeOK
    <2>4. CASE pc[g] = "report"
      <3>1. ConnOf(g) \in udpConns /\ sock[ConnOf(g)] = "closed" BY <1>i, <2>4 DEF LockInv
      <3>2. \A h \in Goroutines : ~Report(h)
        <4> SUFFICES ASSUME NEW h \in Goroutines, Report(h) PROVE FALSE OBVIOUS
        <4>1. h = g BY <1>i, <2>4 DEF LockInv, Report
        <4> QED BY <1>4, <4>1, GotoMoves DEF Report
      <3>3. ConnOf(g) \in udpConns' BY <3>1, <3>2, MapChanges
      <3>4. sock'[ConnOf(g)] = "closed"
        <4>1. \/ sock' = sock
              \/ \E c \in Conns : Connect(c) /\ sock' = [sock EXCEPT ![c] = "open"]
              \/ \E c : sock' = [sock EXCEPT ![c] = "closed"]
          BY DEF Next, SetDNS, Core, fetchUDPInput, doDoh, Close, Connect, CoreCloses,
                 ReceiveTo, ReceiveDNS, ReceiveOther, Forward, FetchRead, FetchFails,
                 FetchWrite, Answer, Test, CloseConn, CloseSocket, Report, tracker
        <4> QED BY <2>2, <3>1, <4>1 DEF Connect, TypeOK
      <3> QED BY <2>2, <3>3, <3>4
    <2> QED BY <2>3, <2>4
  <1> QED BY <1>1, <1>3, <1>4 DEF LockInv

(* A packet that leaves was counted in an earlier step.                    *)
LEMMA CountNext == TypeOK /\ NATInv /\ Next => CountInv'
  <1> SUFFICES ASSUME TypeOK, NATInv, Next, NEW c \in Conns
               PROVE  /\ sent'[c] <= upload'[c]
                      /\ receive'[c].pc = "write" => sent'[c] + 1 <= upload'[c]
                      /\ delivered'[c] <= download'[c]
                      /\ pc'[c] = "write" => delivered'[c] + 1 <= download'[c]
    BY DEF CountInv
  <1>i. /\ sent[c] <= upload[c] /\ (receive[c].pc = "write" => sent[c] + 1 <= upload[c])
        /\ delivered[c] <= download[c] /\ (pc[c] = "write" => delivered[c] + 1 <= download[c])
    BY DEF NATInv, CountInv
  <1>n. upload[c] \in Nat /\ download[c] \in Nat /\ sent[c] \in Nat /\ delivered[c] \in Nat
    BY DEF TypeOK, Packets
  <1>g. Conns \subseteq Goroutines /\ Queries \subseteq Goroutines /\ Conns \cap Queries = {}
    BY UDPHandlerAssumption DEF Goroutines
  <1>k. ASSUME UNCHANGED <<sent, upload, delivered, download>>,
               receive'[c].pc = "write" => receive[c].pc = "write",
               pc'[c] = "write" => pc[c] = "write"
        PROVE  /\ sent'[c] <= upload'[c]
               /\ receive'[c].pc = "write" => sent'[c] + 1 <= upload'[c]
               /\ delivered'[c] <= download'[c]
               /\ pc'[c] = "write" => delivered'[c] + 1 <= download'[c]
    BY <1>i, <1>k
  <1>1. CASE SetDNS BY <1>1, <1>k DEF SetDNS, tracker, observed
  <1>2. ASSUME NEW d \in Conns, Connect(d) \/ CoreCloses(d) \/ ReceiveTo(d) \/ ReceiveDNS(d)
        PROVE  /\ UNCHANGED <<sent, upload, delivered, download>>
               /\ receive'[c].pc = "write" => receive[c].pc = "write"
               /\ pc'[c] = "write" => pc[c] = "write"
    <2>1. UNCHANGED <<sent, upload, delivered, download>>
      BY <1>2 DEF Connect, CoreCloses, ReceiveTo, ReceiveDNS, tracker, observed
    <2>2. receive'[c].pc = "write" => receive[c].pc = "write"
      BY <1>2 DEF Connect, CoreCloses, ReceiveTo, ReceiveDNS, TypeOK
    <2>3. pc'[c] = "write" => pc[c] = "write"
      <3>1. CASE pc' = pc BY <3>1
      <3>2. CASE Goto(d, "read") BY <1>g, <3>2, GotoMoves
      <3>3. ASSUME NEW x \in Queries, Goto(x, "query") PROVE pc'[c] = pc[c]
        BY <1>g, <3>3, GotoMoves
      <3> QED BY <1>2, <3>1, <3>2, <3>3 DEF Connect, CoreCloses, ReceiveTo, ReceiveDNS
    <2> QED BY <2>1, <2>2, <2>3
  <1>3. ASSUME NEW d \in Conns, ReceiveOther(d)
        PROVE  /\ sent'[c] <= upload'[c]
               /\ receive'[c].pc = "write" => sent'[c] + 1 <= upload'[c]
               /\ UNCHANGED <<delivered, download, pc>>
    <2>1. UNCHANGED <<sent, delivered, download, pc>> BY <1>3 DEF ReceiveOther, observed
    <2>2. CASE d = c
      <3>1. upload'[c] = upload[c] + 1 BY <1>3, <2>2 DEF ReceiveOther, TypeOK
      <3> QED BY <1>i, <1>n, <2>1, <3>1
    <2>3. CASE d # c
      <3>1. upload'[c] = upload[c] /\ receive'[c] = receive[c]
        BY <1>3, <2>3 DEF ReceiveOther, TypeOK
      <3> QED BY <1>i, <2>1, <3>1
    <2> QED BY <2>2, <2>3
  <1>4. ASSUME NEW d \in Conns, Forward(d)
        PROVE  /\ sent'[c] <= upload'[c]
               /\ receive'[c].pc = "write" => sent'[c] + 1 <= upload'[c]
               /\ UNCHANGED <<delivered, download, pc>>
    <2>1. UNCHANGED <<upload, delivered, download, pc>> BY <1>4 DEF Forward, tracker
    <2>2. CASE d = c
      <3>1. receive[c].pc = "write" /\ receive'[c].pc = "idle" BY <1>4, <2>2 DEF Forward, TypeOK
      <3>2. sent'[c] = sent[c] \/ sent'[c] = sent[c] + 1 BY <1>4, <2>2 DEF Forward, TypeOK
      <3> QED BY <1>i, <1>n, <2>1, <3>1, <3>2
    <2>3. CASE d # c
      <3>1. sent'[c] = sent[c] /\ receive'[c] = receive[c] BY <1>4, <2>3 DEF Forward, TypeOK
      <3> QED BY <1>i, <2>1, <3>1
    <2> QED BY <2>2, <2>3
  <1>5. ASSUME NEW d \in Conns, FetchRead(d)
        PROVE  /\ delivered'[c] <= download'[c]
               /\ pc'[c] = "write" => delivered'[c] + 1 <= download'[c]
               /\ UNCHANGED <<sent, upload, receive>>
    <2>1. UNCHANGED <<sent, upload, delivered, receive>> BY <1>5 DEF FetchRead, observed
    <2>2. CASE d = c
      <3>1. download'[c] = download[c] + 1 BY <1>5, <2>2 DEF FetchRead, TypeOK
      <3> QED BY <1>i, <1>n, <2>1, <3>1
    <2>3. CASE d # c
      <3>1. download'[c] = download[c] /\ pc'[c] = pc[c]
        BY <1>5, <1>g, <2>3, GotoMoves DEF FetchRead, TypeOK
      <3> QED BY <1>i, <2>1, <3>1
    <2> QED BY <2>2, <2>3
  <1>6. ASSUME NEW d \in Conns, FetchWrite(d)
        PROVE  /\ delivered'[c] <= download'[c]
               /\ pc'[c] = "write" => delivered'[c] + 1 <= download'[c]
               /\ UNCHANGED <<sent, upload, receive>>
    <2>1. UNCHANGED <<sent, upload, download, receive>> BY <1>6 DEF FetchWrite, tracker
    <2>2. CASE d = c
      <3>1. pc[c] = "write" /\ pc'[c] # "write"
        BY <1>6, <1>g, <2>2, GotoMoves DEF FetchWrite
      <3>2. delivered'[c] = delivered[c] \/ delivered'[c] = delivered[c] + 1
        BY <1>6, <2>2 DEF FetchWrite, TypeOK
      <3> QED BY <1>i, <1>n, <2>1, <3>1, <3>2
    <2>3. CASE d # c
      <3>1. delivered'[c] = delivered[c] /\ pc'[c] = pc[c]
        BY <1>6, <1>g, <2>3, GotoMoves DEF FetchWrite, TypeOK
      <3> QED BY <1>i, <2>1, <3>1
    <2> QED BY <2>2, <2>3
  <1>7. ASSUME NEW g \in Goroutines, FetchFails(g) \/ Answer(g) \/ Test(g) \/ Close(g)
        PROVE  /\ UNCHANGED <<sent, upload, delivered, download, receive>>
               /\ pc'[c] = "write" => pc[c] = "write"
    <2>1. UNCHANGED <<sent, upload, delivered, download, receive>>
      BY <1>7 DEF FetchFails, Answer, Test, Close, CloseConn, CloseSocket, Report, tracker, observed
    <2>2. PICK to \in {"close", "test", "done", "lock", "report"} : Goto(g, to)
      BY <1>7 DEF FetchFails, Answer, Test, Close, CloseConn, CloseSocket, Report
    <2> QED BY <1>g, <2>1, <2>2, GotoMoves
  <1> QED
    BY <1>i, <1>k, <1>1, <1>2, <1>3, <1>4, <1>5, <1>6, <1>7, <1>g
    DEF Next, Core, fetchUDPInput, doDoh

(* A summary is written once; afterwards neither side passes a packet.     *)
LEMMA SummaryNext == TypeOK /\ NATInv /\ Next => SummaryInv'
  <1> SUFFICES ASSUME TypeOK, NATInv, Next, NEW c \in Conns, summary'[c] # None
               PROVE  /\ sock'[c] = "closed" /\ lwip'[c] = "closed"
                      /\ summary'[c].upload >= sent'[c]
                      /\ summary'[c].download >= delivered'[c]
    BY DEF SummaryInv
  <1>i. CountInv /\ LockInv /\ SummaryInv /\ GoroutineInv BY DEF NATInv
  <1>n. upload[c] \in Nat /\ download[c] \in Nat /\ sent[c] \in Nat /\ delivered[c] \in Nat
    BY DEF TypeOK, Packets
  <1>1. CASE summary[c] # None
    <2>1. /\ sock[c] = "closed" /\ lwip[c] = "closed"
          /\ summary[c].upload >= sent[c] /\ summary[c].download >= delivered[c]
      BY <1>i, <1>1 DEF SummaryInv
    <2>2. summary'[c] = summary[c]
      <3>1. CASE summary' = summary BY <3>1
      <3>2. ASSUME NEW g \in Goroutines, Report(g) PROVE summary'[c] = summary[c]
        <4>1. ConnOf(g) \in udpConns BY <1>i, <3>2 DEF LockInv, Report
        <4>2. ConnOf(g) # c BY <1>1, <4>1 DEF NATInv, MapInv
        <4> QED BY <3>2, <4>2 DEF Report, TypeOK
      <3> QED BY <3>1, <3>2, MapChanges
    <2>3. lwip'[c] = "closed" BY <2>1, LwipAdvances
    <2>4. sock'[c] = "closed"
      <3>1. \/ sock' = sock
            \/ \E d \in Conns : lwip[d] = "new" /\ sock' = [sock EXCEPT ![d] = "open"]
            \/ \E d : sock' = [sock EXCEPT ![d] = "closed"]
        BY DEF Next, SetDNS, Core, fetchUDPInput, doDoh, Close, Connect, CoreCloses,
               ReceiveTo, ReceiveDNS, ReceiveOther, Forward, FetchRead, FetchFails,
               FetchWrite, Answer, Test, CloseConn, CloseSocket, Report, tracker
      <3> QED BY <2>1, <3>1 DEF TypeOK
    <2>5. sent'[c] = sent[c]
      <3>1. sent' = sent \/ \E d \in Conns : sock[d] = "open" /\ sent' = [sent EXCEPT ![d] = @ + 1]
        BY DEF Next, SetDNS, Core, fetchUDPInput, doDoh, Close, Connect, CoreCloses,
               ReceiveTo, ReceiveDNS, ReceiveOther, Forward, FetchRead, FetchFails,
               FetchWrite, Answer, Test, CloseConn, CloseSocket, Report, observed
      <3> QED BY <2>1, <3>1 DEF TypeOK
    <2>6. delivered'[c] = delivered[c]
      <3>1. \/ delivered' = delivered
            \/ \E d \in Conns : lwip[d] = "connected" /\ delivered' = [delivered EXCEPT ![d] = @ + 1]
        BY DEF Next, SetDNS, Core, fetchUDPInput, doDoh, Close, Connect, CoreCloses,
               ReceiveTo, ReceiveDNS, ReceiveOther, Forward, FetchRead, FetchFails,
               FetchWrite, Answer, Test, CloseConn, CloseSocket, Report, observed
      <3> QED BY <2>1, <3>1 DEF TypeOK
    <2> QED BY <2>1, <2>2, <2>3, <2>4, <2>5, <2>6
  <1>2. CASE summary[c] = None
    <2>1. PICK g \in Goroutines : Report(g) BY <1>2, MapChanges
    <2>2. ConnOf(g) = c BY <1>2, <2>1 DEF Report, TypeOK
    <2>3. sock[c] = "closed" /\ lwip[c] = "closed" BY <1>i, <2>1, <2>2 DEF LockInv, Report
    <2>4. UNCHANGED <<sock, lwip, sent, delivered>> BY <2>1 DEF Report, tracker, observed
    <2>5. summary'[c] = [upload |-> upload[c], download |-> download[c]]
      BY <2>1, <2>2 DEF Report, TypeOK
    <2> QED BY <1>i, <1>n, <2>3, <2>4, <2>5 DEF CountInv
  <1> QED BY <1>1, <1>2

----------------------------------------------------------------------------
(* The inductive invariant.                                                *)
LEMMA NATInvariance == Spec => [](TypeOK /\ NATInv)
  <1>1. Init => TypeOK /\ NATInv BY NATInit
  <1>2. TypeOK /\ NATInv /\ [Next]_vars => TypeOK' /\ NATInv'
    <2> SUFFICES ASSUME TypeOK, NATInv, [Next]_vars PROVE TypeOK' /\ NATInv' OBVIOUS
    <2>1. TypeOK' BY TypeNext
    <2>2. CASE Next
      BY <2>1, <2>2, GoroutineNext, MapNext, LockNext, CountNext, SummaryNext DEF NATInv
    <2>3. CASE UNCHANGED vars
      BY <2>1, <2>3 DEF vars, tracker, observed, NATInv, GoroutineInv, MapInv, LockInv, CountInv,
                  SummaryInv, ConnOf
    <2> QED BY <2>1, <2>2, <2>3
  <1> QED BY <1>1, <1>2, PTL DEF Spec

(* Type correctness; the counters of what left the NAT stay within what    *)
(* was counted (udp.go:104-105, 167-168).                                  *)
THEOREM TypeCorrect == Spec => []TypeOK
  BY NATInvariance, PTL

(* No packet that passed is missing from a summary, for any number of      *)
(* goroutines in the middle of one while another is in Close               *)
(* (udp.go:104-105, 167-168, 177-186).                                     *)
THEOREM SummaryIsComplete == Spec => []SummaryComplete
  <1>1. NATInv => SummaryComplete BY DEF NATInv, SummaryInv, SummaryComplete
  <1> QED BY <1>1, NATInvariance, PTL

(* However many goroutines are in Close for an association, it is reported *)
(* once, with its socket closed, and leaves the map with the report        *)
(* (udp.go:176-189).                                                       *)
THEOREM IsDiscardedOnce == Spec => DiscardedOnce
  <1> DEFINE Once == \A c \in Conns : summary'[c] # summary[c] =>
                       summary[c] = None /\ sock[c] = "closed" /\ c \in udpConns /\ c \notin udpConns'
  <1>1. TypeOK /\ NATInv /\ [Next]_vars => [Once]_vars
    <2> SUFFICES ASSUME TypeOK, NATInv, Next, NEW c \in Conns, summary'[c] # summary[c]
                 PROVE  summary[c] = None /\ sock[c] = "closed" /\ c \in udpConns /\ c \notin udpConns'
      OBVIOUS
    <2>1. PICK g \in Goroutines : Report(g) BY MapChanges
    <2>2. ConnOf(g) = c BY <2>1 DEF Report, TypeOK
    <2>3. sock[c] = "closed" /\ c \in udpConns BY <2>1, <2>2 DEF Report, NATInv, LockInv
    <2>4. summary[c] = None BY <2>3 DEF NATInv, MapInv
    <2> QED BY <2>1, <2>2, <2>3, <2>4 DEF Report
  <1> QED BY <1>1, NATInvariance, PTL DEF Spec, DiscardedOnce
============================================================================
