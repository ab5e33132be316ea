---------------------------- MODULE IntraProofs ----------------------------
(***************************************************************************)
(* What holds of Intra for any number of connections, queries, bytes and   *)
(* transports, and for any range of split points.                          *)
(***************************************************************************)
EXTENDS Intra, TLAPS

(***************************************************************************)
(* DNSStream: the frames on one DNS socket.                                *)
(***************************************************************************)
(* f is whole frames and perhaps the beginning of one more, no two of them *)
(* for the same query.                                                     *)
Whole(f) ==
  \A i \in DOMAIN f : /\ f[i][2] = "body" <=> i % 2 = 0
                      /\ i % 2 = 0 => f[i][1] = f[i - 1][1]
                      /\ \A j \in DOMAIN f : f[i] = f[j] => i = j

(* A goroutine that has not come to its write has written nothing, and a   *)
(* frame is broken off only on a socket that is no longer usable.          *)
SocketInv(s) ==
  /\ Whole(s.frames)
  /\ s.open => Len(s.frames) % 2 = 0
  /\ \A k \in Numbers, i \in DOMAIN s.frames :
       s.query[k] \in {"none", "query", "write", "writeError"} => s.frames[i][1] # k

FramesInv == \A c \in Conns : SocketInv(stream[c])

Frames == Seq(Numbers \X {"length", "body"})

(* The length of a frame goes after whole frames; then the body.           *)
LEMMA WriteLength ==
  ASSUME NEW f \in Frames, NEW k \in Numbers, Whole(f), Len(f) % 2 = 0,
         \A i \in DOMAIN f : f[i][1] # k
  PROVE  LET g == f \o << <<k, "length">> >>
         IN  /\ g \in Frames /\ Whole(g) /\ Len(g) = Len(f) + 1
             /\ \A j \in Numbers : j # k /\ (\A i \in DOMAIN f : f[i][1] # j)
                                     => \A i \in DOMAIN g : g[i][1] # j
  <1> DEFINE e == <<k, "length">>
             g == f \o << e >>
  <1>1. e \in Numbers \X {"length", "body"} /\ e[1] = k /\ e[2] = "length" OBVIOUS
  <1> HIDE DEF e
  <1>2. /\ g \in Frames /\ Len(f) \in Nat /\ Len(g) = Len(f) + 1
        /\ DOMAIN f = 1..Len(f) /\ DOMAIN g = 1..(Len(f) + 1)
        /\ \A i \in 1..Len(f) : g[i] = f[i]
        /\ g[Len(f) + 1] = e
    BY <1>1 DEF Frames
  <1> HIDE DEF g
  <1>3. \A i \in 1..Len(f) : g[i] # e BY <1>1, <1>2
  <1>4. (Len(f) + 1) % 2 # 0 BY <1>2
  <1>5. \A i \in 1..Len(f) : i % 2 = 0 => i - 1 \in 1..Len(f) BY <1>2
  <1>6. Whole(g)
    <2> SUFFICES ASSUME NEW i \in 1..(Len(f) + 1)
                 PROVE  /\ g[i][2] = "body" <=> i % 2 = 0
                        /\ i % 2 = 0 => g[i][1] = g[i - 1][1]
                        /\ \A j \in 1..(Len(f) + 1) : g[i] = g[j] => i = j
      BY <1>2 DEF Whole
    <2>1. CASE i = Len(f) + 1
      <3>1. g[i] = e /\ i % 2 # 0 BY <1>2, <1>4, <2>1
      <3>2. \A j \in 1..(Len(f) + 1) : j # i => j \in 1..Len(f) BY <1>2, <2>1
      <3> QED BY <1>1, <1>3, <3>1, <3>2
    <2>2. CASE i \in 1..Len(f)
      <3>1. g[i] = f[i] BY <1>2, <2>2
      <3>2. /\ f[i][2] = "body" <=> i % 2 = 0
            /\ i % 2 = 0 => f[i][1] = f[i - 1][1]
            /\ \A j \in 1..Len(f) : f[i] = f[j] => i = j
        BY <1>2, <2>2 DEF Whole
      <3>3. \A j \in 1..(Len(f) + 1) : j \in 1..Len(f) \/ j = Len(f) + 1 BY <1>2
      <3>4. i % 2 = 0 => g[i - 1] = f[i - 1] BY <1>2, <1>5, <2>2
      <3> QED BY <1>2, <1>3, <2>2, <3>1, <3>2, <3>3, <3>4
    <2> QED BY <1>2, <2>1, <2>2
  <1>7. \A j \in Numbers : j # k /\ (\A i \in DOMAIN f : f[i][1] # j)
                                  => \A i \in DOMAIN g : g[i][1] # j
    <2>1. \A i \in 1..(Len(f) + 1) : i \in 1..Len(f) \/ i = Len(f) + 1 BY <1>2
    <2> QED BY <1>1, <1>2, <2>1
  <1> QED BY <1>2, <1>6, <1>7 DEF g, e

(* The combined write of a whole frame.                                    *)
LEMMA WriteBoth ==
  ASSUME NEW f \in Frames, NEW k \in Numbers, Whole(f), Len(f) % 2 = 0,
         \A i \in DOMAIN f : f[i][1] # k
  PROVE  LET g == f \o << <<k, "length">>, <<k, "body">> >>
         IN  /\ g \in Frames /\ Whole(g) /\ Len(g) % 2 = 0
             /\ \A j \in Numbers : j # k /\ (\A i \in DOMAIN f : f[i][1] # j)
                                     => \A i \in DOMAIN g : g[i][1] # j
  <1> DEFINE a == <<k, "length">>
             b == <<k, "body">>
             n == Len(f)
             g == f \o << a, b >>
  <1>1. /\ a \in Numbers \X {"length", "body"} /\ a[1] = k /\ a[2] = "length"
        /\ b \in Numbers \X {"length", "body"} /\ b[1] = k /\ b[2] = "body" /\ a # b
    OBVIOUS
  <1> HIDE DEF a, b
  <1>2. /\ g \in Frames /\ n \in Nat /\ Len(g) = n + 2
        /\ DOMAIN f = 1..n /\ DOMAIN g = 1..(n + 2)
        /\ \A i \in 1..n : g[i] = f[i]
        /\ g[n + 1] = a /\ g[n + 2] = b
    BY <1>1 DEF Frames
  <1> HIDE DEF g
  <1>3. \A i \in 1..n : g[i] # a /\ g[i] # b BY <1>1, <1>2
  <1>4. (n + 1) % 2 # 0 /\ (n + 2) % 2 = 0 /\ (n + 2) - 1 = n + 1 BY <1>2
  <1>5. \A i \in 1..n : i % 2 = 0 => i - 1 \in 1..n BY <1>2
  <1> HIDE DEF n
  <1>6. \A i \in 1..(n + 2) : i \in 1..n \/ i = n + 1 \/ i = n + 2 BY <1>2
  <1>7. Whole(g)
    <2> SUFFICES ASSUME NEW i \in 1..(n + 2)
                 PROVE  /\ g[i][2] = "body" <=> i % 2 = 0
                        /\ i % 2 = 0 => g[i][1] = g[i - 1][1]
                        /\ \A j \in 1..(n + 2) : g[i] = g[j] => i = j
      BY <1>2 DEF Whole
    <2>1. CASE i = n + 1 BY <1>1, <1>2, <1>3, <1>4, <1>6, <2>1
    <2>2. CASE i = n + 2
      <3>1. i % 2 = 0 /\ g[i] = b /\ g[i - 1] = a BY <1>2, <1>4, <2>2
      <3> QED BY <1>1, <1>2, <1>3, <1>6, <2>2, <3>1
    <2>3. CASE i \in 1..n
      <3>1. g[i] = f[i] BY <1>2, <2>3
      <3>2. /\ f[i][2] = "body" <=> i % 2 = 0
            /\ i % 2 = 0 => f[i][1] = f[i - 1][1]
            /\ \A j \in 1..n : f[i] = f[j] => i = j
        BY <1>2, <2>3 DEF Whole
      <3>3. i % 2 = 0 => g[i - 1] = f[i - 1] BY <1>2, <1>5, <2>3
      <3>4. \A j \in 1..(n + 2) : g[i] = g[j] => i = j BY <1>2, <1>3, <1>6, <2>3, <3>1, <3>2
      <3> QED BY <3>1, <3>2, <3>3, <3>4
    <2> QED BY <1>6, <2>1, <2>2, <2>3
  <1>8. \A j \in Numbers : j # k /\ (\A i \in DOMAIN f : f[i][1] # j)
                                  => \A i \in DOMAIN g : g[i][1] # j
    BY <1>1, <1>2, <1>6
  <1> QED BY <1>2, <1>4, <1>7, <1>8 DEF g, a, b

(* A step that leaves s on the socket c.                                   *)
LEMMA SocketStep ==
  ASSUME stream \in [Conns -> Streams], FramesInv, NEW c \in Conns,
         NEW s \in Streams, SocketInv(s), stream' = [stream EXCEPT ![c] = s]
  PROVE  stream' \in [Conns -> Streams] /\ FramesInv'
  <1>1. stream'[c] = s /\ \A d \in Conns : d # c => stream'[d] = stream[d] OBVIOUS
  <1>2. stream' \in [Conns -> Streams] OBVIOUS
  <1> QED BY <1>1, <1>2 DEF FramesInv

(* Accept and its goroutines keep the frames whole.                        *)
LEMMA StreamNext ==
  ASSUME stream \in [Conns -> Streams], FramesInv, NEW c \in Conns, Accept(c) \/ StreamStep(c)
  PROVE  stream' \in [Conns -> Streams] /\ FramesInv'
  <1> DEFINE s == stream[c]
  <1>1. /\ s \in Streams /\ s.query \in [Numbers -> QueryPCs] /\ s.frames \in Frames
        /\ SocketInv(s)
    BY DEF Streams, FramesInv, Frames
  <1>2. CASE Accept(c)
    <2> DEFINE t == [NoStream EXCEPT !.accept = "length", !.open = TRUE]
    <2>1. << >> \in Frames /\ Len(<< >>) = 0 /\ DOMAIN << >> = {} BY DEF Frames
    <2>2. NoStream \in Streams BY <2>1 DEF NoStream, Streams, QueryPCs, Frames
    <2>3. t \in Streams /\ t.frames = << >> BY <2>2 DEF Streams, NoStream
    <2>4. stream' = [stream EXCEPT ![c] = t] BY <1>2 DEF Accept
    <2> HIDE DEF t
    <2>5. SocketInv(t) BY <2>1, <2>3 DEF SocketInv, Whole
    <2> QED BY <2>3, <2>4, <2>5, SocketStep
  <1>3. CASE ReadLength(c) \/ ReadFails(c) \/ AcceptCloses(c)
    <2>1. PICK a \in {"query", "close", "done"}, o \in BOOLEAN :
            stream' = [stream EXCEPT ![c] = [s EXCEPT !.accept = a, !.open = o]]
            /\ (o => s.open)
      <3>1. s.open \in BOOLEAN BY <1>1 DEF Streams
      <3>2. CASE ReadLength(c)
        <4>1. stream' = [stream EXCEPT ![c] = [s EXCEPT !.accept = "query", !.open = s.open]]
          BY <1>1, <3>2 DEF ReadLength, Streams
        <4> QED BY <3>1, <4>1
      <3>3. CASE ReadFails(c)
        <4>1. stream' = [stream EXCEPT ![c] = [s EXCEPT !.accept = "close", !.open = s.open]]
          BY <1>1, <3>3 DEF ReadFails, Streams
        <4> QED BY <3>1, <4>1
      <3>4. CASE AcceptCloses(c)
        <4>1. stream' = [stream EXCEPT ![c] = [s EXCEPT !.accept = "done", !.open = FALSE]]
          BY <3>4 DEF AcceptCloses
        <4> QED BY <4>1
      <3> QED BY <1>3, <3>2, <3>3, <3>4
    <2> DEFINE t == [s EXCEPT !.accept = a, !.open = o]
    <2>2. /\ t \in Streams /\ t.frames = s.frames /\ t.query = s.query /\ (t.open => s.open)
      BY <1>1, <2>1 DEF Streams
    <2>3. stream' = [stream EXCEPT ![c] = t] BY <2>1
    <2> HIDE DEF t
    <2>4. SocketInv(t) BY <1>1, <2>2 DEF SocketInv
    <2> QED BY <2>2, <2>3, <2>4, SocketStep
  <1>4. CASE ReadQuery(c)
    <2>1. PICK k \in Numbers :
            /\ s.query[k] = "none"
            /\ stream' = [stream EXCEPT ![c] = [s EXCEPT !.query[k] = "query",
                                                         !.accept = "length"]]
      BY <1>4 DEF ReadQuery
    <2> DEFINE t == [s EXCEPT !.query[k] = "query", !.accept = "length"]
    <2>2. /\ t \in Streams /\ t.frames = s.frames /\ t.open = s.open
          /\ t.query = [s.query EXCEPT ![k] = "query"]
      BY <1>1 DEF Streams, QueryPCs
    <2>3. stream' = [stream EXCEPT ![c] = t] BY <2>1
    <2> HIDE DEF t
    <2>4. SocketInv(t) BY <1>1, <2>1, <2>2 DEF SocketInv
    <2> QED BY <2>2, <2>3, <2>4, SocketStep
  <1>5. ASSUME NEW k \in Numbers, Query(c, k) \/ CloseOnError(c, k)
        PROVE  stream' \in [Conns -> Streams] /\ FramesInv'
    <2>1. PICK w \in {"write", "writeError", "close", "done"}, o \in BOOLEAN :
            /\ stream' = [stream EXCEPT ![c] = [s EXCEPT !.query[k] = w, !.open = o]]
            /\ (o => s.open) /\ (w \in {"write", "writeError"} => s.query[k] = "query")
      <3>1. CASE Query(c, k)
        <4>1. PICK w \in {"write", "writeError", "close"} :
                stream' = [stream EXCEPT ![c].query[k] = w]
          BY <3>1 DEF Query
        <4>2. stream' = [stream EXCEPT ![c] = [s EXCEPT !.query[k] = w, !.open = s.open]]
          BY <1>1, <4>1 DEF Streams
        <4>3. s.open \in BOOLEAN BY <1>1 DEF Streams
        <4> QED BY <3>1, <4>2, <4>3 DEF Query
      <3>2. CASE CloseOnError(c, k)
        <4>1. stream' = [stream EXCEPT ![c] = [s EXCEPT !.query[k] = "done", !.open = FALSE]]
          BY <3>2 DEF CloseOnError
        <4> QED BY <4>1
      <3> QED BY <1>5, <3>1, <3>2
    <2> DEFINE t == [s EXCEPT !.query[k] = w, !.open = o]
    <2>2. /\ t \in Streams /\ t.frames = s.frames /\ (t.open => s.open)
          /\ t.query = [s.query EXCEPT ![k] = w]
      BY <1>1, <2>1 DEF Streams, QueryPCs
    <2>3. stream' = [stream EXCEPT ![c] = t] BY <2>1
    <2> HIDE DEF t
    <2>4. SocketInv(t)
      <3>1. \A j \in Numbers : j # k => t.query[j] = s.query[j] BY <1>1, <2>2
      <3>2. t.query[k] = w BY <1>1, <2>2
      <3>3. ASSUME NEW j \in Numbers, NEW i \in DOMAIN s.frames,
                   t.query[j] \in {"none", "query", "write", "writeError"}
            PROVE  s.frames[i][1] # j
        <4>1. s.query[j] \in {"none", "query", "write", "writeError"}
          BY <2>1, <3>1, <3>2, <3>3
        <4> QED BY <1>1, <4>1 DEF SocketInv
      <3>4. Whole(t.frames) /\ (t.open => Len(t.frames) % 2 = 0) BY <1>1, <2>2 DEF SocketInv
      <3>5. \A j \in Numbers, i \in DOMAIN t.frames :
              t.query[j] \in {"none", "query", "write", "writeError"} => t.frames[i][1] # j
        BY <2>2, <3>3
      <3> QED BY <3>4, <3>5 DEF SocketInv
    <2> QED BY <2>2, <2>3, <2>4, SocketStep
  <1>6. ASSUME NEW k \in Numbers, WriteFrame(c, k) \/ WriteFails(c, k)
        PROVE  stream' \in [Conns -> Streams] /\ FramesInv'
    <2>1. PICK w \in {"close", "done"}, o \in BOOLEAN, g \in Frames :
            /\ stream' = [stream EXCEPT ![c] = [s EXCEPT !.frames = g, !.open = o,
                                                         !.query[k] = w]]
            /\ Whole(g) /\ (o => Len(g) % 2 = 0)
            /\ \A j \in Numbers : j # k /\ (\A i \in DOMAIN s.frames : s.frames[i][1] # j)
                                     => \A i \in DOMAIN g : g[i][1] # j
      <3>1. /\ s.query[k] \in {"write", "writeError"} /\ Whole(s.frames)
            /\ \A i \in DOMAIN s.frames : s.frames[i][1] # k
            /\ s.open => Len(s.frames) % 2 = 0
        BY <1>1, <1>6 DEF WriteFrame, WriteFails, SocketInv
      <3>2. CASE WriteFrame(c, k)
        <4> DEFINE g == s.frames \o << <<k, "length">>, <<k, "body">> >>
                   w == AfterWrite(s.query[k])
        <4>1. s.open /\ stream' = [stream EXCEPT ![c].frames = g, ![c].query[k] = w]
          BY <3>2 DEF WriteFrame
        <4>2. /\ g \in Frames /\ Whole(g) /\ Len(g) % 2 = 0
              /\ \A j \in Numbers : j # k /\ (\A i \in DOMAIN s.frames : s.frames[i][1] # j)
                                     => \A i \in DOMAIN g : g[i][1] # j
          BY <1>1, <3>1, <4>1, WriteBoth
        <4>3. w \in {"close", "done"} BY DEF AfterWrite
        <4> HIDE DEF g, w
        <4>4. stream' = [stream EXCEPT ![c] = [s EXCEPT !.frames = g, !.open = TRUE,
                                                        !.query[k] = w]]
          <5>1. s.open = TRUE BY <1>1, <4>1 DEF Streams
          <5> QED BY <1>1, <4>1, <5>1 DEF Streams
        <4> QED BY <4>2, <4>3, <4>4
      <3>3. CASE WriteFails(c, k)
        <4>1. PICK part \in IF s.open THEN {<< >>, << <<k, "length">> >>} ELSE {<< >>} :
                stream' = [stream EXCEPT ![c] = [s EXCEPT !.frames = s.frames \o part,
                                                          !.open = FALSE, !.query[k] = "close"]]
          BY <3>3 DEF WriteFails
        <4>2. CASE part = << >>
          <5>1. s.frames \o part = s.frames BY <1>1, <4>2 DEF Frames
          <5> QED BY <1>1, <3>1, <4>1, <5>1
        <4>3. CASE s.open /\ part = << <<k, "length">> >>
          <5> DEFINE g == s.frames \o << <<k, "length">> >>
          <5>1. /\ g \in Frames /\ Whole(g)
                /\ \A j \in Numbers : j # k /\ (\A i \in DOMAIN s.frames : s.frames[i][1] # j)
                                       => \A i \in DOMAIN g : g[i][1] # j
            BY <1>1, <3>1, <4>3, WriteLength
          <5>2. stream' = [stream EXCEPT ![c] = [s EXCEPT !.frames = g, !.open = FALSE,
                                                          !.query[k] = "close"]]
            BY <4>1, <4>3
          <5> HIDE DEF g
          <5> QED BY <5>1, <5>2
        <4> QED BY <4>1, <4>2, <4>3
      <3> QED BY <1>6, <3>2, <3>3
    <2> DEFINE t == [s EXCEPT !.frames = g, !.open = o, !.query[k] = w]
    <2>2. /\ t \in Streams /\ t.frames = g /\ t.open = o
          /\ t.query = [s.query EXCEPT ![k] = w]
      BY <1>1, <2>1 DEF Streams, QueryPCs, Frames
    <2>3. stream' = [stream EXCEPT ![c] = t] BY <2>1
    <2> HIDE DEF t
    <2>4. SocketInv(t)
      <3>1. \A j \in Numbers : j # k => t.query[j] = s.query[j] BY <1>1, <2>2
      <3>2. t.query[k] = w BY <1>1, <2>2
      <3> QED BY <1>1, <2>1, <2>2, <3>1, <3>2 DEF SocketInv
    <2> QED BY <2>2, <2>3, <2>4, SocketStep
  <1> QED BY <1>2, <1>3, <1>4, <1>5, <1>6 DEF StreamStep, AcceptStep, forwardQueryAndCheck

(***************************************************************************)
(* TCPRelay: the inductive invariant.                                      *)
(***************************************************************************)
(* Both goroutines start together; the loop of ReadFrom is the retrier's,  *)
(* which alone has Retry statistics; forward has received from the upload  *)
(* before it reports, and reports the SNI of a retrier only.               *)
OrderInv ==
  \A c \in Conns :
    /\ mode[c] = None => down[c] = None
    /\ down[c] = None => up[c] = None
    /\ up[c] = "loop" \/ retry[c] # None => mode[c] = "retry"
    /\ down[c] \in {"closed", "sni", "done"} => up[c] = "done"
    /\ down[c] = "sni" => retry[c] # None

(* Nothing is delivered that is not counted; what the upload has counted   *)
(* is what the server took, except that the retrier's chunks before the    *)
(* first reply overwrite each other; nothing is sent before the first one. *)
ByteInv ==
  \A c \in Conns :
    /\ bytes[c].down = delivered[c]
    /\ bytes[c].up <= sent[c]
    /\ mode[c] # "retry" => /\ bytes[c].up = sent[c]
                            /\ up[c] \in {None, "once"} => sent[c] = 0

(* What each goroutine has shut when it comes to each of its steps.        *)
ShutInv ==
  \A c \in Conns :
    /\ up[c] \in {"closeRemote", "send", "done"} => ~local[c].read
    /\ up[c] \in {"send", "done"} => ~remote[c].write
    /\ down[c] \in {"closeRemote", "receive", "closed", "sni", "done"} => ~local[c].write
    /\ down[c] \in {"receive", "closed", "sni", "done"} => ~remote[c].read

(* The summary is made at the end, from numbers that no longer change.     *)
SummaryInv ==
  \A c \in Conns :
    /\ summary[c] # None <=> down[c] \in {"sni", "done"}
    /\ summary[c] # None => summary[c] = [UploadBytes |-> bytes[c].up,
                                          DownloadBytes |-> bytes[c].down]

(* The splitter's first chunk is two writes, of one byte at least if it    *)
(* has two.                                                                *)
HelloInv ==
  \A c \in Conns : hello[c] # << >> =>
    /\ hello[c] \in Bytes \X Bytes
    /\ hello[c][1] + hello[c][2] > 1 => hello[c][1] > 0 /\ hello[c][2] > 0

RelayInv == OrderInv /\ ByteInv /\ ShutInv /\ SummaryInv /\ HelloInv

(***************************************************************************)
(* The handler: SetDNS and the SNI reporter.                               *)
(***************************************************************************)
(* A report is of a retried connection that is over, and says what the     *)
(* summary says.                                                           *)
ReportInv ==
  \A r \in outbox : /\ down[r.conn] = "done"
                    /\ mode[r.conn] = "retry" /\ retry[r.conn].Split > 0
                    /\ r.result = "success" <=> delivered[r.conn] > 0

(* SetDNS has told the holders before the next one.                        *)
HolderInv ==
  \A i \in 1..4 : setting = 0 \/ i < setting => dns[Holders[i]] = dns.tunnel

IntraInv == FramesInv /\ RelayInv /\ ReportInv /\ HolderInv

----------------------------------------------------------------------------
(* What CloseRead and CloseWrite do to a socket.                           *)
LEMMA EndSteps ==
  ASSUME NEW e \in Ends
  PROVE  /\ LET f == [e EXCEPT !.read = FALSE]
            IN  f \in Ends /\ ~f.read /\ f.write = e.write /\ f.peer = e.peer
         /\ LET f == [e EXCEPT !.write = FALSE]
            IN  f \in Ends /\ ~f.write /\ f.read = e.read /\ f.peer = e.peer
  BY DEF Ends

(* What the peer does to it.                                               *)
LEMMA PeerStep ==
  ASSUME NEW e \in Ends, NEW p \in {"open", "fin", "rst"}
  PROVE  LET f == [e EXCEPT !.peer = p]
         IN  f \in Ends /\ f.read = e.read /\ f.write = e.write /\ f.peer = p
  BY DEF Ends

(* The same, in the function of all sockets.                               *)
LEMMA EndsSteps ==
  ASSUME NEW ends \in [Conns -> Ends], NEW new, NEW c \in Conns, NEW f \in Ends,
         new = [ends EXCEPT ![c] = f]
  PROVE  new \in [Conns -> Ends] /\ new[c] = f /\ \A x \in Conns : x # c => new[x] = ends[x]
  OBVIOUS

(* The loop of retrier.ReadFrom.                                           *)
LEMMA UploadLoopNext ==
  ASSUME RelayTypeOK, RelayInv, NEW c \in Conns, UploadLoop(c)
  PROVE  RelayTypeOK' /\ RelayInv'
  <1>i. OrderInv /\ ByteInv /\ ShutInv /\ SummaryInv /\ HelloInv BY DEF RelayInv
  <1>1. /\ up[c] = "loop" /\ \E p \in {"copy", "once"} : up' = [up EXCEPT ![c] = p]
        /\ UNCHANGED <<mode, local, remote, down, bytes, retry, hello, summary, sent, delivered>>
    BY DEF UploadLoop
  <1>2. RelayTypeOK' BY <1>1 DEF RelayTypeOK, UploadPCs
  <1>3. OrderInv' BY <1>i, <1>1, IntraAssumption DEF OrderInv, RelayTypeOK, UploadPCs
  <1>4. ByteInv' BY <1>i, <1>1 DEF ByteInv, OrderInv, RelayTypeOK
  <1>5. ShutInv' BY <1>i, <1>1 DEF ShutInv, RelayTypeOK
  <1>6. SummaryInv' BY <1>i, <1>1 DEF SummaryInv
  <1>7. HelloInv' BY <1>i, <1>1 DEF HelloInv
  <1> QED BY <1>2, <1>3, <1>4, <1>5, <1>6, <1>7 DEF RelayInv

(* local.CloseRead(), remote.CloseWrite()                                  *)
LEMMA UploadCloseNext ==
  ASSUME RelayTypeOK, RelayInv, NEW c \in Conns, UploadCloseLocal(c) \/ UploadCloseRemote(c)
  PROVE  RelayTypeOK' /\ RelayInv'
  <1>i. OrderInv /\ ByteInv /\ ShutInv /\ SummaryInv /\ HelloInv BY DEF RelayInv
  <1>1. UNCHANGED <<mode, down, bytes, retry, hello, summary, sent, delivered>>
    BY DEF UploadCloseLocal, UploadCloseRemote
  <1>2. PICK p \in {"closeRemote", "send"} :
          /\ up' = [up EXCEPT ![c] = p] /\ up[c] \in {"closeLocal", "closeRemote"}
          /\ p = "closeRemote" => up[c] = "closeLocal" /\ UploadCloseLocal(c)
          /\ p = "send" => up[c] = "closeRemote" /\ UploadCloseRemote(c)
    BY DEF UploadCloseLocal, UploadCloseRemote
  <1>3. up' \in [Conns -> UploadPCs \cup {None}] BY <1>2 DEF RelayTypeOK, UploadPCs
  <1>4. /\ local' \in [Conns -> Ends] /\ remote' \in [Conns -> Ends]
        /\ \A x \in Conns : /\ local'[x].write = local[x].write
                            /\ remote'[x].read = remote[x].read
                            /\ ~local[x].read => ~local'[x].read
                            /\ ~remote[x].write => ~remote'[x].write
        /\ p = "closeRemote" => ~local'[c].read
        /\ p = "send" => ~remote'[c].write
    <2>1. /\ local \in [Conns -> Ends] /\ local[c] \in Ends
          /\ remote \in [Conns -> Ends] /\ remote[c] \in Ends
      BY DEF RelayTypeOK
    <2>2. CASE p = "closeRemote"
      <3> DEFINE f == [local[c] EXCEPT !.read = FALSE]
      <3>1. local' = [local EXCEPT ![c] = f] /\ remote' = remote
        BY <1>2, <2>2 DEF UploadCloseLocal
      <3>2. f \in Ends /\ ~f.read /\ f.write = local[c].write BY <2>1, EndSteps
      <3> HIDE DEF f
      <3>3. /\ local' \in [Conns -> Ends] /\ local'[c] = f
            /\ \A x \in Conns : x # c => local'[x] = local[x]
        BY <2>1, <3>1, <3>2, EndsSteps
      <3> QED BY <2>1, <2>2, <3>1, <3>2, <3>3
    <2>3. CASE p = "send"
      <3> DEFINE f == [remote[c] EXCEPT !.write = FALSE]
      <3>1. remote' = [remote EXCEPT ![c] = f] /\ local' = local
        BY <1>2, <2>3 DEF UploadCloseRemote
      <3>2. f \in Ends /\ ~f.write /\ f.read = remote[c].read BY <2>1, EndSteps
      <3> HIDE DEF f
      <3>3. /\ remote' \in [Conns -> Ends] /\ remote'[c] = f
            /\ \A x \in Conns : x # c => remote'[x] = remote[x]
        BY <2>1, <3>1, <3>2, EndsSteps
      <3> QED BY <2>1, <2>3, <3>1, <3>2, <3>3
    <2> QED BY <2>2, <2>3
  <1>5. RelayTypeOK' BY <1>1, <1>3, <1>4 DEF RelayTypeOK
  <1>6. OrderInv' BY <1>i, <1>1, <1>2, IntraAssumption DEF OrderInv, RelayTypeOK, UploadPCs
  <1>7. ByteInv' BY <1>i, <1>1, <1>2, IntraAssumption DEF ByteInv, RelayTypeOK, UploadPCs
  <1>8. ShutInv'
    <2>1. up'[c] = p /\ \A x \in Conns : x # c => up'[x] = up[x] BY <1>2 DEF RelayTypeOK
    <2> QED BY <1>i, <1>1, <1>2, <1>4, <2>1 DEF ShutInv
  <1>9. SummaryInv' BY <1>i, <1>1 DEF SummaryInv
  <1>10. HelloInv' BY <1>i, <1>1 DEF HelloInv
  <1> QED BY <1>5, <1>6, <1>7, <1>8, <1>9, <1>10 DEF RelayInv

(* The ends of the peers.                                                  *)
LEMMA PeersNext ==
  ASSUME RelayTypeOK, RelayInv, NEW c \in Conns, AppEnds(c) \/ ServerEnds(c)
  PROVE  RelayTypeOK' /\ RelayInv'
  <1>i. OrderInv /\ ByteInv /\ ShutInv /\ SummaryInv /\ HelloInv BY DEF RelayInv
  <1>1. UNCHANGED <<mode, up, down, bytes, retry, hello, summary, sent, delivered>>
    BY DEF AppEnds, ServerEnds
  <1>2. PICK how \in {"fin", "rst"} :
          \/ local' = [local EXCEPT ![c] = [local[c] EXCEPT !.peer = how]] /\ remote' = remote
          \/ remote' = [remote EXCEPT ![c] = [remote[c] EXCEPT !.peer = how]] /\ local' = local
    BY DEF AppEnds, ServerEnds
  <1>3. /\ local' \in [Conns -> Ends] /\ remote' \in [Conns -> Ends]
        /\ \A x \in Conns : /\ local'[x].read = local[x].read
                            /\ local'[x].write = local[x].write
                            /\ remote'[x].read = remote[x].read
                            /\ remote'[x].write = remote[x].write
    <2>1. /\ local \in [Conns -> Ends] /\ local[c] \in Ends
          /\ remote \in [Conns -> Ends] /\ remote[c] \in Ends
      BY DEF RelayTypeOK
    <2>h. how \in {"open", "fin", "rst"} OBVIOUS
    <2> DEFINE f == [local[c] EXCEPT !.peer = how]
               g == [remote[c] EXCEPT !.peer = how]
    <2>2. f \in Ends /\ f.read = local[c].read /\ f.write = local[c].write
      BY <2>1, <2>h, PeerStep
    <2>3. g \in Ends /\ g.read = remote[c].read /\ g.write = remote[c].write
      BY <2>1, <2>h, PeerStep
    <2>4. \/ local' = [local EXCEPT ![c] = f] /\ remote' = remote
          \/ remote' = [remote EXCEPT ![c] = g] /\ local' = local
      BY <1>2
    <2> HIDE DEF f, g
    <2> QED BY <2>1, <2>2, <2>3, <2>4
  <1>4. RelayTypeOK' BY <1>1, <1>3 DEF RelayTypeOK
  <1>5. OrderInv' BY <1>i, <1>1 DEF OrderInv
  <1>6. ByteInv' BY <1>i, <1>1 DEF ByteInv
  <1>7. ShutInv' BY <1>i, <1>1, <1>3 DEF ShutInv
  <1>8. SummaryInv' /\ HelloInv' BY <1>i, <1>1 DEF SummaryInv, HelloInv
  <1> QED BY <1>4, <1>5, <1>6, <1>7, <1>8 DEF RelayInv

(* A split point of a chunk of n bytes leaves a byte on each side, if      *)
(* there are two (splitHello).                                             *)
LEMMA SplitsInTwo ==
  ASSUME NEW n \in Nat, NEW s \in SplitPoints(n)
  PROVE  /\ s \in Nat /\ s <= n /\ n - s \in Nat
         /\ n > 1 => s > 0 /\ n - s > 0
  <1>1. PICK t \in MinSplit..MaxSplit : s = IF t > n \div 2 THEN n \div 2 ELSE t
    BY DEF SplitPoints
  <1>2. t \in Nat /\ t > 0 BY IntraAssumption
  <1>3. /\ n \div 2 \in Nat /\ n \div 2 <= n
        /\ n > 1 => n \div 2 > 0 /\ n - (n \div 2) > 0
    OBVIOUS
  <1> QED BY <1>1, <1>2, <1>3

(* What a Write of n bytes takes.                                          *)
LEMMA TakenBytes ==
  ASSUME NEW e \in Ends, NEW n \in 1..MaxChunk, NEW k \in Taken(e, n)
  PROVE  n \in Nat /\ k \in Nat /\ k <= n
  <1>1. n \in Nat /\ n >= 1 BY IntraAssumption
  <1>2. CASE e.peer = "rst" BY <1>1, <1>2 DEF Taken
  <1>3. CASE e.peer # "rst" BY <1>1, <1>3 DEF Taken
  <1> QED BY <1>2, <1>3

(* One chunk goes up, by copyOnce or in the loop of ReadFrom; or the Read  *)
(* of local fails.                                                         *)
LEMMA UploadNext ==
  ASSUME RelayTypeOK, RelayInv, NEW c \in Conns,
         UploadOnce(c) \/ UploadCopy(c) \/ UploadEnds(c)
  PROVE  RelayTypeOK' /\ RelayInv'
  <1>i. OrderInv /\ ByteInv /\ ShutInv /\ SummaryInv /\ HelloInv BY DEF RelayInv
  <1>t. /\ sent[c] \in 0..MaxBytes /\ bytes[c].up \in 0..MaxBytes /\ MaxBytes \in Nat
        /\ bytes \in [Conns -> [up : Bytes, down : Bytes]]
        /\ up \in [Conns -> UploadPCs \cup {None}]
        /\ sent \in [Conns -> Bytes] /\ hello \in [Conns -> Seq(Bytes)]
        /\ remote[c] \in Ends
    BY IntraAssumption DEF RelayTypeOK, Bytes
  <1>b. bytes[c].up <= sent[c] /\ (mode[c] # "retry" => bytes[c].up = sent[c])
    BY <1>i DEF ByteInv
  <1>1. UNCHANGED <<mode, local, remote, down, retry, summary, delivered>>
    BY DEF UploadOnce, UploadCopy, UploadEnds
  <1>2. up[c] \in {"once", "copy"} BY DEF UploadOnce, UploadCopy, UploadEnds
  <1>3. PICK p \in {"loop", "copy", "closeLocal"}, b \in Bytes, s \in Bytes :
          /\ up' = [up EXCEPT ![c] = p]
          /\ bytes' = [bytes EXCEPT ![c].up = b] /\ sent' = [sent EXCEPT ![c] = s]
          /\ b <= s
          /\ mode[c] # "retry" => b = s /\ p # "loop"
    <2>1. CASE UploadOnce(c)
      <3>a. PICK n \in 1..MaxChunk :
              /\ sent[c] + n <= MaxBytes
              /\ \E k \in Taken(remote[c], n) :
                   /\ sent' = [sent EXCEPT ![c] = sent[c] + k]
                   /\ bytes' = [bytes EXCEPT ![c].up = k]
                   /\ up' = [up EXCEPT ![c] = IF k < n THEN "closeLocal"
                                              ELSE IF mode[c] = "retry" THEN "loop" ELSE "copy"]
        BY <2>1 DEF UploadOnce
      <3>1. PICK k \in Taken(remote[c], n) :
              /\ sent' = [sent EXCEPT ![c] = sent[c] + k]
              /\ bytes' = [bytes EXCEPT ![c].up = k]
              /\ up' = [up EXCEPT ![c] = IF k < n THEN "closeLocal"
                                         ELSE IF mode[c] = "retry" THEN "loop" ELSE "copy"]
        BY <3>a
      <3>2. n \in Nat /\ k \in Nat /\ k <= n BY <1>t, TakenBytes
      <3>3. k \in Bytes /\ sent[c] + k \in Bytes /\ k <= sent[c] + k
        BY <1>t, <3>a, <3>2 DEF Bytes
      <3>4. mode[c] # "retry" => sent[c] + k = k
        <4>1. mode[c] # "retry" => sent[c] = 0 BY <1>i, <2>1 DEF ByteInv, UploadOnce
        <4> QED BY <3>2, <4>1
      <3>5. PICK p \in {"loop", "copy", "closeLocal"} :
              up' = [up EXCEPT ![c] = p] /\ (mode[c] # "retry" => p # "loop")
        BY <3>1
      <3> QED BY <3>1, <3>3, <3>4, <3>5
    <2>2. CASE UploadCopy(c)
      <3>a. PICK n \in 1..MaxChunk :
              /\ sent[c] + n <= MaxBytes
              /\ \E k \in Taken(remote[c], n) :
                   /\ sent' = [sent EXCEPT ![c] = sent[c] + k]
                   /\ bytes' = [bytes EXCEPT ![c].up = bytes[c].up + k]
                   /\ up' = [up EXCEPT ![c] = IF k < n THEN "closeLocal" ELSE "copy"]
        BY <2>2 DEF UploadCopy
      <3>1. PICK k \in Taken(remote[c], n) :
              /\ sent' = [sent EXCEPT ![c] = sent[c] + k]
              /\ bytes' = [bytes EXCEPT ![c].up = bytes[c].up + k]
              /\ up' = [up EXCEPT ![c] = IF k < n THEN "closeLocal" ELSE "copy"]
        BY <3>a
      <3>2. n \in Nat /\ k \in Nat /\ k <= n BY <1>t, TakenBytes
      <3>3. /\ bytes[c].up + k \in Bytes /\ sent[c] + k \in Bytes
            /\ bytes[c].up + k <= sent[c] + k
            /\ mode[c] # "retry" => bytes[c].up + k = sent[c] + k
        BY <1>t, <1>b, <3>a, <3>2 DEF Bytes
      <3> QED BY <3>1, <3>3
    <2>3. CASE UploadEnds(c)
      <3> DEFINE b == IF up[c] = "once" THEN 0 ELSE bytes[c].up
      <3>1. /\ bytes' = [bytes EXCEPT ![c].up = b] /\ up' = [up EXCEPT ![c] = "closeLocal"]
            /\ sent' = sent
        BY <2>3 DEF UploadEnds
      <3>2. b \in Bytes /\ sent[c] \in Bytes /\ b <= sent[c] BY <1>t, <1>b DEF Bytes
      <3>3. mode[c] # "retry" => b = sent[c] BY <1>i DEF ByteInv
      <3>4. sent' = [sent EXCEPT ![c] = sent[c]] BY <1>t, <3>1
      <3> HIDE DEF b
      <3> QED BY <3>1, <3>2, <3>3, <3>4
    <2> QED BY <2>1, <2>2, <2>3
  <1>4. /\ bytes' \in [Conns -> [up : Bytes, down : Bytes]]
        /\ bytes'[c].up = b /\ bytes'[c].down = bytes[c].down
        /\ \A x \in Conns : x # c => bytes'[x] = bytes[x]
    BY <1>t, <1>3
  <1>5. /\ sent' \in [Conns -> Bytes] /\ sent'[c] = s
        /\ \A x \in Conns : x # c => sent'[x] = sent[x]
    BY <1>t, <1>3
  <1>6. /\ up' \in [Conns -> UploadPCs \cup {None}] /\ up'[c] = p
        /\ \A x \in Conns : x # c => up'[x] = up[x]
    BY <1>t, <1>3 DEF UploadPCs
  <1>7. hello' \in [Conns -> Seq(Bytes)] /\ HelloInv'
    <2>1. CASE hello' = hello BY <1>i, <1>t, <2>1 DEF HelloInv
    <2>2. CASE hello' # hello
      <3>a. PICK n \in 1..MaxChunk :
              /\ sent[c] + n <= MaxBytes
              /\ \E a \in SplitPoints(n) : hello' = [hello EXCEPT ![c] = <<a, n - a>>]
        BY <2>2 DEF UploadOnce, UploadCopy, UploadEnds
      <3>1. PICK a \in SplitPoints(n) : hello' = [hello EXCEPT ![c] = <<a, n - a>>] BY <3>a
      <3>2. n \in Nat /\ n <= MaxBytes BY <1>t, <3>a, IntraAssumption
      <3>3. /\ a \in Nat /\ a <= n /\ n - a \in Nat
            /\ n > 1 => a > 0 /\ n - a > 0
        BY <3>1, <3>2, SplitsInTwo
      <3>4. a \in Bytes /\ n - a \in Bytes /\ a + (n - a) = n BY <1>t, <3>2, <3>3 DEF Bytes
      <3> DEFINE h == <<a, n - a>>
      <3>5. /\ h \in Seq(Bytes) /\ h \in Bytes \X Bytes /\ h[1] = a /\ h[2] = n - a
        BY <3>4
      <3> HIDE DEF h
      <3>6. /\ hello' \in [Conns -> Seq(Bytes)] /\ hello'[c] = h
            /\ \A x \in Conns : x # c => hello'[x] = hello[x]
        BY <1>t, <3>1, <3>5 DEF h
      <3>7. h[1] + h[2] > 1 => h[1] > 0 /\ h[2] > 0 BY <3>3, <3>4, <3>5
      <3> QED BY <1>i, <3>5, <3>6, <3>7 DEF HelloInv
    <2> QED BY <2>1, <2>2
  <1>8. RelayTypeOK' BY <1>1, <1>4, <1>5, <1>6, <1>7 DEF RelayTypeOK
  <1>n. None \notin UploadPCs /\ None \notin DownloadPCs BY IntraAssumption
  <1>9. OrderInv'
    <2>1. down[c] # None /\ down[c] \notin {"closed", "sni", "done"}
      BY <1>i, <1>2, <1>n DEF OrderInv, UploadPCs
    <2>2. up'[c] = "loop" => mode[c] = "retry" BY <1>3, <1>6
    <2> QED BY <1>i, <1>1, <1>6, <2>1, <2>2 DEF OrderInv
  <1>10. ByteInv'
    <2>1. up'[c] \notin {None, "once"} BY <1>3, <1>6, <1>n DEF UploadPCs
    <2> QED BY <1>i, <1>1, <1>3, <1>4, <1>5, <1>6, <2>1 DEF ByteInv
  <1>11. ShutInv' BY <1>i, <1>1, <1>3, <1>6 DEF ShutInv
  <1>12. SummaryInv'
    <2>1. summary[c] = None BY <1>i, <1>2, <1>n DEF OrderInv, SummaryInv, UploadPCs
    <2> QED BY <1>i, <1>1, <1>4, <2>1 DEF SummaryInv
  <1> QED BY <1>7, <1>8, <1>9, <1>10, <1>11, <1>12 DEF RelayInv

(* The first reply, or the end of the download, completes the retrier.     *)
LEMMA RetryCompletes ==
  ASSUME NEW t \in RetryStats \cup {None}
  PROVE  LET u == IF t = None THEN None ELSE [t EXCEPT !.phase = "completed"]
         IN  u \in RetryStats \cup {None} /\ (u # None => t # None)
  BY DEF RetryStats

(* A chunk comes down; or the download ends; or the retrier dials again.   *)
LEMMA DownloadNext ==
  ASSUME RelayTypeOK, RelayInv, NEW c \in Conns,
         DownloadChunk(c) \/ DownloadEnds(c) \/ Retry(c)
  PROVE  RelayTypeOK' /\ RelayInv'
  <1>i. OrderInv /\ ByteInv /\ ShutInv /\ SummaryInv /\ HelloInv BY DEF RelayInv
  <1>t. /\ delivered[c] \in 0..MaxBytes /\ bytes[c].down = delivered[c] /\ MaxBytes \in Nat
        /\ bytes \in [Conns -> [up : Bytes, down : Bytes]]
        /\ down \in [Conns -> DownloadPCs \cup {None}]
        /\ delivered \in [Conns -> Bytes] /\ sent[c] \in Nat
        /\ retry \in [Conns -> RetryStats \cup {None}]
        /\ local[c] \in Ends /\ remote \in [Conns -> Ends] /\ remote[c] \in Ends
    BY <1>i, IntraAssumption DEF RelayTypeOK, Bytes, ByteInv
  <1>n. None \notin UploadPCs /\ None \notin DownloadPCs BY IntraAssumption
  <1>1. UNCHANGED <<mode, local, up, hello, summary, sent>> /\ down[c] = "copy"
    BY DEF DownloadChunk, DownloadEnds, Retry
  <1>2. PICK p \in {"copy", "closeLocal"}, b \in Bytes :
          /\ down' = [down EXCEPT ![c] = p]
          /\ bytes' = [bytes EXCEPT ![c].down = b] /\ delivered' = [delivered EXCEPT ![c] = b]
    <2>1. CASE DownloadChunk(c)
      <3>1. PICK n \in 1..MaxChunk :
              /\ delivered[c] + n <= MaxBytes
              /\ \E k \in Taken(local[c], n) :
                   /\ delivered' = [delivered EXCEPT ![c] = delivered[c] + k]
                   /\ bytes' = [bytes EXCEPT ![c].down = bytes[c].down + k]
                   /\ down' = [down EXCEPT ![c] = IF k < n THEN "closeLocal" ELSE "copy"]
        BY <2>1 DEF DownloadChunk
      <3>2. PICK k \in Taken(local[c], n) :
              /\ delivered' = [delivered EXCEPT ![c] = delivered[c] + k]
              /\ bytes' = [bytes EXCEPT ![c].down = delivered[c] + k]
              /\ down' = [down EXCEPT ![c] = IF k < n THEN "closeLocal" ELSE "copy"]
        BY <1>t, <3>1
      <3>3. n \in Nat /\ k \in Nat /\ k <= n BY <1>t, TakenBytes
      <3>4. delivered[c] + k \in Bytes BY <1>t, <3>1, <3>3 DEF Bytes
      <3> QED BY <3>2, <3>4
    <2>2. CASE DownloadEnds(c) \/ Retry(c)
      <3>1. delivered' = delivered /\ bytes' = bytes BY <2>2 DEF DownloadEnds, Retry
      <3>2. /\ delivered' = [delivered EXCEPT ![c] = delivered[c]]
            /\ bytes' = [bytes EXCEPT ![c].down = delivered[c]] /\ delivered[c] \in Bytes
        BY <1>t, <3>1 DEF Bytes
      <3>3. PICK p \in {"copy", "closeLocal"} : down' = [down EXCEPT ![c] = p]
        <4>1. CASE down' = down
          <5>1. down' = [down EXCEPT ![c] = "copy"] BY <1>t, <1>1, <4>1
          <5> QED BY <5>1
        <4> QED BY <2>2, <4>1 DEF DownloadEnds, Retry
      <3> QED BY <3>2, <3>3
    <2> QED BY <2>1, <2>2
  <1>3. /\ bytes' \in [Conns -> [up : Bytes, down : Bytes]]
        /\ bytes'[c].down = b /\ bytes'[c].up = bytes[c].up
        /\ \A x \in Conns : x # c => bytes'[x] = bytes[x]
    BY <1>t, <1>2
  <1>4. /\ delivered' \in [Conns -> Bytes] /\ delivered'[c] = b
        /\ \A x \in Conns : x # c => delivered'[x] = delivered[x]
    BY <1>t, <1>2
  <1>5. /\ down' \in [Conns -> DownloadPCs \cup {None}] /\ down'[c] = p
        /\ \A x \in Conns : x # c => down'[x] = down[x]
    BY <1>t, <1>2 DEF DownloadPCs
  <1>6. PICK u \in RetryStats \cup {None} :
          retry' = [retry EXCEPT ![c] = u] /\ (u # None => retry[c] # None)
    <2>1. CASE DownloadChunk(c) \/ DownloadEnds(c)
      <3> DEFINE v == IF retry[c] = None THEN None ELSE [retry[c] EXCEPT !.phase = "completed"]
      <3>1. retry' = [retry EXCEPT ![c] = v] BY <2>1 DEF DownloadChunk, DownloadEnds
      <3>2. v \in RetryStats \cup {None} /\ (v # None => retry[c] # None)
        BY <1>t, RetryCompletes
      <3> HIDE DEF v
      <3> QED BY <3>1, <3>2
    <2>2. CASE Retry(c)
      <3>1. retry[c] # None /\ retry[c] \in RetryStats BY <1>t, <2>2 DEF Retry, Phase
      <3>2. PICK timeout \in BOOLEAN :
              \/ \E s \in SplitPoints(sent[c]) :
                   retry' = [retry EXCEPT ![c] = [phase |-> "retrying", Split |-> s,
                                                  Timeout |-> timeout]]
              \/ retry' = [retry EXCEPT ![c].phase = "completed", ![c].Timeout = timeout]
        BY <2>2 DEF Retry
      <3>3. CASE \E s \in SplitPoints(sent[c]) :
                   retry' = [retry EXCEPT ![c] = [phase |-> "retrying", Split |-> s,
                                                  Timeout |-> timeout]]
        <4>1. PICK s \in SplitPoints(sent[c]) :
                retry' = [retry EXCEPT ![c] = [phase |-> "retrying", Split |-> s,
                                               Timeout |-> timeout]]
          BY <3>3
        <4>2. s \in Nat BY <1>t, SplitsInTwo
        <4> DEFINE v == [phase |-> "retrying", Split |-> s, Timeout |-> timeout]
        <4>3. v \in RetryStats BY <4>2 DEF RetryStats
        <4>4. retry' = [retry EXCEPT ![c] = v] BY <4>1
        <4> HIDE DEF v
        <4> QED BY <3>1, <4>3, <4>4
      <3>4. CASE retry' = [retry EXCEPT ![c].phase = "completed", ![c].Timeout = timeout]
        <4> DEFINE v == [retry[c] EXCEPT !.phase = "completed", !.Timeout = timeout]
        <4>1. v \in RetryStats BY <3>1 DEF RetryStats
        <4>2. retry' = [retry EXCEPT ![c] = v] BY <1>t, <3>4
        <4> HIDE DEF v
        <4> QED BY <3>1, <4>1, <4>2
      <3> QED BY <3>2, <3>3, <3>4
    <2> QED BY <2>1, <2>2
  <1>7. /\ retry' \in [Conns -> RetryStats \cup {None}]
        /\ \A x \in Conns : retry'[x] # None => retry[x] # None
    BY <1>t, <1>6
  <1>8. /\ remote' \in [Conns -> Ends]
        /\ \A x \in Conns : remote'[x].read = remote[x].read /\ remote'[x].write = remote[x].write
    <2>1. CASE remote' = remote BY <1>t, <2>1
    <2>2. CASE remote' # remote
      <3>0. Retry(c) BY <2>2 DEF DownloadChunk, DownloadEnds
      <3>1. PICK q \in {"open", "fin", "rst"} : remote' = [remote EXCEPT ![c].peer = q]
        BY <3>0 DEF Retry
      <3> DEFINE f == [remote[c] EXCEPT !.peer = q]
      <3>2. f \in Ends /\ f.read = remote[c].read /\ f.write = remote[c].write
        <4>1. remote[c] \in Ends BY <1>t
        <4> QED BY <4>1, PeerStep
      <3>3. remote' = [remote EXCEPT ![c] = f] BY <3>1
      <3> HIDE DEF f
      <3> QED BY <1>t, <3>2, <3>3
    <2> QED BY <2>1, <2>2
  <1>9. RelayTypeOK' BY <1>1, <1>3, <1>4, <1>5, <1>7, <1>8 DEF RelayTypeOK
  <1>10. OrderInv'
    <2>1. down'[c] # None /\ down'[c] \notin {"closed", "sni", "done"} /\ down[c] # None
      BY <1>1, <1>2, <1>5, <1>n DEF DownloadPCs
    <2>2. \A x \in Conns : x # c => retry'[x] = retry[x] BY <1>t, <1>6
    <2> QED BY <1>i, <1>1, <1>5, <1>7, <2>1, <2>2 DEF OrderInv
  <1>11. ByteInv' BY <1>i, <1>1, <1>3, <1>4 DEF ByteInv
  <1>12. ShutInv' BY <1>i, <1>1, <1>2, <1>5, <1>8 DEF ShutInv
  <1>13. SummaryInv'
    <2>1. summary[c] = None BY <1>i, <1>1 DEF SummaryInv
    <2>2. down'[c] \notin {"sni", "done"} BY <1>2, <1>5
    <2> QED BY <1>i, <1>1, <1>3, <1>5, <2>1, <2>2 DEF SummaryInv
  <1>14. HelloInv' BY <1>i, <1>1 DEF HelloInv
  <1> QED BY <1>9, <1>10, <1>11, <1>12, <1>13, <1>14 DEF RelayInv

(* local.CloseWrite(), remote.CloseRead()                                  *)
LEMMA DownloadCloseNext ==
  ASSUME RelayTypeOK, RelayInv, NEW c \in Conns, DownloadCloseLocal(c) \/ DownloadCloseRemote(c)
  PROVE  RelayTypeOK' /\ RelayInv'
  <1>i. OrderInv /\ ByteInv /\ ShutInv /\ SummaryInv /\ HelloInv BY DEF RelayInv
  <1>n. None \notin DownloadPCs BY IntraAssumption
  <1>1. UNCHANGED <<mode, up, bytes, retry, hello, summary, sent, delivered>>
    BY DEF DownloadCloseLocal, DownloadCloseRemote
  <1>2. PICK p \in {"closeRemote", "receive"} :
          /\ down' = [down EXCEPT ![c] = p] /\ down[c] \in {"closeLocal", "closeRemote"}
          /\ p = "closeRemote" => down[c] = "closeLocal" /\ DownloadCloseLocal(c)
          /\ p = "receive" => down[c] = "closeRemote" /\ DownloadCloseRemote(c)
    BY DEF DownloadCloseLocal, DownloadCloseRemote
  <1>3. /\ down' \in [Conns -> DownloadPCs \cup {None}] /\ down'[c] = p
        /\ \A x \in Conns : x # c => down'[x] = down[x]
    BY <1>2 DEF RelayTypeOK, DownloadPCs
  <1>4. /\ local' \in [Conns -> Ends] /\ remote' \in [Conns -> Ends]
        /\ \A x \in Conns : /\ local'[x].read = local[x].read
                            /\ remote'[x].write = remote[x].write
                            /\ ~local[x].write => ~local'[x].write
                            /\ ~remote[x].read => ~remote'[x].read
        /\ p = "closeRemote" => ~local'[c].write
        /\ p = "receive" => ~remote'[c].read
    <2>1. /\ local \in [Conns -> Ends] /\ local[c] \in Ends
          /\ remote \in [Conns -> Ends] /\ remote[c] \in Ends
      BY DEF RelayTypeOK
    <2>2. CASE p = "closeRemote"
      <3> DEFINE f == [local[c] EXCEPT !.write = FALSE]
      <3>1. local' = [local EXCEPT ![c] = f] /\ remote' = remote
        BY <1>2, <2>2 DEF DownloadCloseLocal
      <3>2. f \in Ends /\ ~f.write /\ f.read = local[c].read BY <2>1, EndSteps
      <3> HIDE DEF f
      <3>3. /\ local' \in [Conns -> Ends] /\ local'[c] = f
            /\ \A x \in Conns : x # c => local'[x] = local[x]
        BY <2>1, <3>1, <3>2, EndsSteps
      <3> QED BY <2>1, <2>2, <3>1, <3>2, <3>3
    <2>3. CASE p = "receive"
      <3> DEFINE f == [remote[c] EXCEPT !.read = FALSE]
      <3>1. remote' = [remote EXCEPT ![c] = f] /\ local' = local
        BY <1>2, <2>3 DEF DownloadCloseRemote
      <3>2. f \in Ends /\ ~f.read /\ f.write = remote[c].write BY <2>1, EndSteps
      <3> HIDE DEF f
      <3>3. /\ remote' \in [Conns -> Ends] /\ remote'[c] = f
            /\ \A x \in Conns : x # c => remote'[x] = remote[x]
        BY <2>1, <3>1, <3>2, EndsSteps
      <3> QED BY <2>1, <2>3, <3>1, <3>2, <3>3
    <2> QED BY <2>2, <2>3
  <1>5. RelayTypeOK' BY <1>1, <1>3, <1>4 DEF RelayTypeOK
  <1>6. OrderInv' BY <1>i, <1>n, <1>1, <1>2, <1>3 DEF OrderInv, DownloadPCs
  <1>7. ByteInv' BY <1>i, <1>1 DEF ByteInv
  <1>8. ShutInv' BY <1>i, <1>1, <1>2, <1>3, <1>4 DEF ShutInv
  <1>9. SummaryInv' BY <1>i, <1>1, <1>2, <1>3 DEF SummaryInv
  <1>10. HelloInv' BY <1>i, <1>1 DEF HelloInv
  <1> QED BY <1>5, <1>6, <1>7, <1>8, <1>9, <1>10 DEF RelayInv

(* The two goroutines meet on the channel.                                 *)
LEMMA JoinNext ==
  ASSUME RelayTypeOK, RelayInv, NEW c \in Conns, Join(c)
  PROVE  RelayTypeOK' /\ RelayInv'
  <1>i. OrderInv /\ ByteInv /\ ShutInv /\ SummaryInv /\ HelloInv BY DEF RelayInv
  <1>n. None \notin UploadPCs /\ None \notin DownloadPCs BY IntraAssumption
  <1>1. /\ UNCHANGED <<mode, local, remote, bytes, retry, hello, summary, sent, delivered>>
        /\ up[c] = "send" /\ down[c] = "receive"
    BY DEF Join
  <1>2. /\ up' \in [Conns -> UploadPCs \cup {None}] /\ up'[c] = "done"
        /\ \A x \in Conns : x # c => up'[x] = up[x]
    BY DEF Join, RelayTypeOK, UploadPCs
  <1>3. /\ down' \in [Conns -> DownloadPCs \cup {None}] /\ down'[c] = "closed"
        /\ \A x \in Conns : x # c => down'[x] = down[x]
    BY DEF Join, RelayTypeOK, DownloadPCs
  <1>4. RelayTypeOK' BY <1>1, <1>2, <1>3 DEF RelayTypeOK
  <1>5. OrderInv' BY <1>i, <1>n, <1>1, <1>2, <1>3 DEF OrderInv, DownloadPCs
  <1>6. ByteInv' BY <1>i, <1>n, <1>1, <1>2 DEF ByteInv, UploadPCs
  <1>7. ShutInv' BY <1>i, <1>1, <1>2, <1>3 DEF ShutInv
  <1>8. SummaryInv' BY <1>i, <1>1, <1>3 DEF SummaryInv
  <1>9. HelloInv' BY <1>i, <1>1 DEF HelloInv
  <1> QED BY <1>4, <1>5, <1>6, <1>7, <1>8, <1>9 DEF RelayInv

(* The report, of numbers that are final.                                  *)
LEMMA ClosedNext ==
  ASSUME RelayTypeOK, RelayInv, NEW c \in Conns, OnTCPSocketClosed(c)
  PROVE  RelayTypeOK' /\ RelayInv'
  <1>i. OrderInv /\ ByteInv /\ ShutInv /\ SummaryInv /\ HelloInv BY DEF RelayInv
  <1>n. None \notin DownloadPCs /\ None \notin TCPSocketSummary BY IntraAssumption
  <1>1. /\ UNCHANGED <<mode, local, remote, up, bytes, retry, hello, sent, delivered>>
        /\ down[c] = "closed"
    BY DEF OnTCPSocketClosed
  <1>2. /\ down' \in [Conns -> DownloadPCs \cup {None}] /\ down'[c] \in {"sni", "done"}
        /\ down'[c] = "sni" => retry[c] # None
        /\ \A x \in Conns : x # c => down'[x] = down[x]
    BY DEF OnTCPSocketClosed, RelayTypeOK, DownloadPCs
  <1> DEFINE v == [UploadBytes |-> bytes[c].up, DownloadBytes |-> bytes[c].down]
  <1>3. v \in TCPSocketSummary BY DEF RelayTypeOK, TCPSocketSummary
  <1>4. summary' = [summary EXCEPT ![c] = v] BY DEF OnTCPSocketClosed
  <1>5. /\ summary' \in [Conns -> TCPSocketSummary \cup {None}]
        /\ summary'[c] = v /\ v # None
        /\ \A x \in Conns : x # c => summary'[x] = summary[x]
    <2> HIDE DEF v
    <2> QED BY <1>n, <1>3, <1>4 DEF RelayTypeOK
  <1>6. RelayTypeOK' BY <1>1, <1>2, <1>5 DEF RelayTypeOK
  <1>7. OrderInv' BY <1>i, <1>n, <1>1, <1>2 DEF OrderInv, DownloadPCs
  <1>8. ByteInv' BY <1>i, <1>1 DEF ByteInv
  <1>9. ShutInv' BY <1>i, <1>1, <1>2 DEF ShutInv
  <1>10. SummaryInv' BY <1>i, <1>1, <1>2, <1>5 DEF SummaryInv
  <1>11. HelloInv' BY <1>i, <1>1 DEF HelloInv
  <1> QED BY <1>6, <1>7, <1>8, <1>9, <1>10, <1>11 DEF RelayInv

(* The step of a relay.                                                    *)
LEMMA RelayNext ==
  ASSUME RelayTypeOK, RelayInv, NEW c \in Conns, forward(c) \/ AppEnds(c) \/ ServerEnds(c)
  PROVE  RelayTypeOK' /\ RelayInv'
  BY UploadLoopNext, UploadNext, UploadCloseNext, DownloadNext, DownloadCloseNext, JoinNext,
     ClosedNext, PeersNext DEF forward, handleUpload, handleDownload

(* ... and it leaves alone what a report tells of a connection that is     *)
(* over.                                                                   *)
LEMMA OverIsOver ==
  ASSUME RelayTypeOK, NEW c \in Conns, forward(c) \/ AppEnds(c) \/ ServerEnds(c),
         NEW x \in Conns, down[x] = "done"
  PROVE  /\ mode'[x] = mode[x] /\ retry'[x] = retry[x] /\ delivered'[x] = delivered[x]
         /\ down'[x] = "done"
  <1>1. CASE c = x
    <2>1. UNCHANGED <<mode, down, retry, delivered>>
      BY <1>1 DEF forward, handleUpload, handleDownload, UploadLoop, UploadOnce, UploadCopy,
                  UploadEnds, UploadCloseLocal, UploadCloseRemote, DownloadChunk, DownloadEnds,
                  Retry, DownloadCloseLocal, DownloadCloseRemote, Join, OnTCPSocketClosed,
                  AppEnds, ServerEnds
    <2> QED BY <2>1
  <1>2. CASE c # x
    <2>1. CASE UNCHANGED <<mode, down, retry, delivered>> BY <2>1
    <2>2. CASE \/ DownloadChunk(c) \/ DownloadEnds(c) \/ Retry(c) \/ DownloadCloseLocal(c)
               \/ DownloadCloseRemote(c) \/ Join(c) \/ OnTCPSocketClosed(c)
      <3>1. mode' = mode /\ down'[x] = down[x]
        BY <1>2, <2>2 DEF DownloadChunk, DownloadEnds, Retry, DownloadCloseLocal,
                          DownloadCloseRemote, Join, OnTCPSocketClosed, RelayTypeOK
      <3>2. retry'[x] = retry[x]
        BY <1>2, <2>2 DEF DownloadChunk, DownloadEnds, Retry, DownloadCloseLocal,
                          DownloadCloseRemote, Join, OnTCPSocketClosed, RelayTypeOK
      <3>3. delivered'[x] = delivered[x]
        BY <1>2, <2>2 DEF DownloadChunk, DownloadEnds, Retry, DownloadCloseLocal,
                          DownloadCloseRemote, Join, OnTCPSocketClosed, RelayTypeOK
      <3> QED BY <3>1, <3>2, <3>3
    <2> QED BY <2>1, <2>2 DEF forward, handleUpload, handleDownload, UploadLoop, UploadOnce,
                              UploadCopy, UploadEnds, UploadCloseLocal, UploadCloseRemote,
                              AppEnds, ServerEnds
  <1> QED BY <1>1, <1>2

(* Handle chooses how to dial.                                             *)
LEMMA HandleNext ==
  ASSUME RelayTypeOK, RelayInv, NEW c \in Conns, HandleOther(c)
  PROVE  RelayTypeOK' /\ RelayInv'
  <1>i. OrderInv /\ ByteInv /\ ShutInv /\ SummaryInv /\ HelloInv BY DEF RelayInv
  <1>n. None \notin Modes /\ None \notin UploadPCs /\ None \notin DownloadPCs
    BY IntraAssumption
  <1>1. /\ UNCHANGED <<local, remote, up, down, bytes, hello, summary, sent, delivered>>
        /\ mode[c] = None
    BY DEF HandleOther, New
  <1>2. PICK k \in Modes : mode' = [mode EXCEPT ![c] = k] BY DEF HandleOther, Modes
  <1>3. /\ mode' \in [Conns -> Modes \cup {None}] /\ mode'[c] = k
        /\ \A x \in Conns : x # c => mode'[x] = mode[x]
    BY <1>2 DEF RelayTypeOK
  <1> DEFINE t == [phase |-> "provisional", Split |-> 0, Timeout |-> FALSE]
  <1>4. t \in RetryStats BY DEF RetryStats
  <1>5. retry' = [retry EXCEPT ![c] = IF k = "retry" THEN t ELSE None]
    BY <1>3 DEF HandleOther
  <1> HIDE DEF t
  <1>6. /\ retry' \in [Conns -> RetryStats \cup {None}]
        /\ retry'[c] # None => k = "retry"
        /\ \A x \in Conns : x # c => retry'[x] = retry[x]
    BY <1>4, <1>5 DEF RelayTypeOK
  <1>7. RelayTypeOK' BY <1>1, <1>3, <1>6 DEF RelayTypeOK
  <1>8. OrderInv'
    <2>1. down[c] = None /\ up[c] = None BY <1>i, <1>1 DEF OrderInv
    <2>2. up[c] # "loop" /\ down[c] \notin {"closed", "sni", "done"}
      BY <1>n, <2>1 DEF UploadPCs, DownloadPCs
    <2> QED BY <1>i, <1>1, <1>3, <1>6, <2>1, <2>2 DEF OrderInv
  <1>9. ByteInv'
    <2>1. mode[c] # "retry" BY <1>n, <1>1 DEF Modes
    <2> QED BY <1>i, <1>1, <1>3, <2>1 DEF ByteInv
  <1>10. ShutInv' BY <1>i, <1>1 DEF ShutInv
  <1>11. SummaryInv' /\ HelloInv' BY <1>i, <1>1 DEF SummaryInv, HelloInv
  <1> QED BY <1>7, <1>8, <1>9, <1>10, <1>11 DEF RelayInv

(* forward starts.                                                         *)
LEMMA DialedNext ==
  ASSUME RelayTypeOK, RelayInv, NEW c \in Conns, Dialed(c)
  PROVE  RelayTypeOK' /\ RelayInv'
  <1>i. OrderInv /\ ByteInv /\ ShutInv /\ SummaryInv /\ HelloInv BY DEF RelayInv
  <1>n. None \notin Modes /\ None \notin UploadPCs /\ None \notin DownloadPCs
    BY IntraAssumption
  <1>1. /\ UNCHANGED <<mode, local, remote, bytes, retry, hello, summary, sent, delivered>>
        /\ mode[c] # None /\ down[c] = None
    BY DEF Dialed, StartForward
  <1>2. PICK p \in {"copy", "once", "loop"} :
          up' = [up EXCEPT ![c] = p] /\ (p = "loop" => mode[c] = "retry")
    <2>1. mode[c] \in Modes BY <1>1 DEF RelayTypeOK
    <2> QED BY <2>1 DEF Dialed, StartForward, Modes
  <1>3. /\ up' \in [Conns -> UploadPCs \cup {None}] /\ up'[c] = p
        /\ \A x \in Conns : x # c => up'[x] = up[x]
    BY <1>2 DEF RelayTypeOK, UploadPCs
  <1>4. /\ down' \in [Conns -> DownloadPCs \cup {None}] /\ down'[c] = "copy"
        /\ \A x \in Conns : x # c => down'[x] = down[x]
    BY DEF Dialed, StartForward, RelayTypeOK, DownloadPCs
  <1>5. RelayTypeOK' BY <1>1, <1>3, <1>4 DEF RelayTypeOK
  <1>6. up[c] = None /\ down'[c] # None BY <1>i, <1>n, <1>1, <1>4 DEF OrderInv, DownloadPCs
  <1>7. OrderInv' BY <1>i, <1>1, <1>2, <1>3, <1>4, <1>6 DEF OrderInv
  <1>8. ByteInv' BY <1>i, <1>1, <1>3, <1>6 DEF ByteInv
  <1>9. ShutInv' BY <1>i, <1>1, <1>2, <1>3, <1>4 DEF ShutInv
  <1>10. SummaryInv'
    <2>1. down[c] \notin {"sni", "done"} BY <1>n, <1>1 DEF DownloadPCs
    <2> QED BY <1>i, <1>1, <1>4, <2>1 DEF SummaryInv
  <1>11. HelloInv' BY <1>i, <1>1 DEF HelloInv
  <1> QED BY <1>5, <1>7, <1>8, <1>9, <1>10, <1>11 DEF RelayInv

(* forward ends with the SNI report.                                       *)
LEMMA SNINext ==
  ASSUME RelayTypeOK, RelayInv, NEW c \in Conns, SNIReport(c)
  PROVE  RelayTypeOK' /\ RelayInv'
  <1>i. OrderInv /\ ByteInv /\ ShutInv /\ SummaryInv /\ HelloInv BY DEF RelayInv
  <1>n. None \notin DownloadPCs BY IntraAssumption
  <1>1. /\ UNCHANGED <<mode, local, remote, up, bytes, retry, hello, summary, sent, delivered>>
        /\ down[c] = "sni"
    BY DEF SNIReport
  <1>2. /\ down' \in [Conns -> DownloadPCs \cup {None}] /\ down'[c] = "done"
        /\ \A x \in Conns : x # c => down'[x] = down[x]
    BY DEF SNIReport, RelayTypeOK, DownloadPCs
  <1>3. RelayTypeOK' BY <1>1, <1>2 DEF RelayTypeOK
  <1>4. OrderInv' BY <1>i, <1>n, <1>1, <1>2 DEF OrderInv, DownloadPCs
  <1>5. ByteInv' BY <1>i, <1>1 DEF ByteInv
  <1>6. ShutInv' BY <1>i, <1>1, <1>2 DEF ShutInv
  <1>7. SummaryInv' /\ HelloInv' BY <1>i, <1>1, <1>2 DEF SummaryInv, HelloInv
  <1> QED BY <1>3, <1>4, <1>5, <1>6, <1>7 DEF RelayInv

----------------------------------------------------------------------------
(* The rest of the type invariant.                                         *)
HandlerTypeOK ==
  /\ dns \in [{"tunnel", "udp", "tcp", "sni"} -> Transports]
  /\ setting \in {0, 2, 3, 4}
  /\ alwaysSplitHTTPS \in BOOLEAN /\ reporter \in BOOLEAN
  /\ asked \in [Conns -> Transports \cup {None}]
  /\ outbox \subseteq Reports
  /\ posted \in [Conns -> Transports \cup {None}]

(* SetDNS: holder after holder.                                            *)
LEMMA SetDNSNext ==
  ASSUME HandlerTypeOK, HolderInv, SetDNS \/ SetNext
  PROVE  HandlerTypeOK' /\ HolderInv'
  <1> USE DEF Holders
  <1>1. UNCHANGED <<alwaysSplitHTTPS, reporter, asked, outbox, posted>> BY DEF SetDNS, SetNext
  <1>2. CASE SetDNS
    <2>1. PICK t \in Transports : dns' = [dns EXCEPT !["tunnel"] = t] BY <1>2 DEF SetDNS, Store
    <2>2. setting' = 2 BY <1>2 DEF SetDNS
    <2>3. dns' \in [{"tunnel", "udp", "tcp", "sni"} -> Transports] BY <2>1 DEF HandlerTypeOK
    <2>4. HandlerTypeOK' BY <1>1, <2>2, <2>3 DEF HandlerTypeOK
    <2>5. \A i \in 1..4 : i < 2 => Holders[i] = "tunnel" OBVIOUS
    <2> QED BY <2>2, <2>4, <2>5 DEF HolderInv
  <1>3. CASE SetNext
    <2>1. setting \in {2, 3, 4} BY <1>3 DEF SetNext, HandlerTypeOK
    <2> DEFINE h == Holders[setting]
    <2>2. h \in {"udp", "tcp", "sni"} BY <2>1
    <2>3. dns' = [dns EXCEPT ![h] = dns["tunnel"]] BY <1>3 DEF SetNext, Store
    <2>4. setting' = IF setting = 4 THEN 0 ELSE setting + 1 BY <1>3 DEF SetNext
    <2>5. dns["tunnel"] \in Transports BY DEF HandlerTypeOK
    <2>6. /\ dns' \in [{"tunnel", "udp", "tcp", "sni"} -> Transports]
          /\ dns'["tunnel"] = dns["tunnel"] /\ dns'[h] = dns["tunnel"]
          /\ \A g \in {"tunnel", "udp", "tcp", "sni"} : g # h => dns'[g] = dns[g]
      <3> HIDE DEF h
      <3> QED BY <2>2, <2>3, <2>5 DEF HandlerTypeOK
    <2>7. HandlerTypeOK'
      <3>1. setting' \in {0, 2, 3, 4} BY <2>1, <2>4
      <3> QED BY <1>1, <2>6, <3>1 DEF HandlerTypeOK
    <2>8. \A i \in 1..4 : i < setting => dns[Holders[i]] = dns["tunnel"] BY DEF HolderInv
    <2>9. \A i \in 1..4 : i <= setting => dns'[Holders[i]] = dns["tunnel"]
      <3> SUFFICES ASSUME NEW i \in 1..4, i <= setting PROVE dns'[Holders[i]] = dns["tunnel"]
        OBVIOUS
      <3>1. CASE i = setting BY <2>6, <3>1
      <3>2. CASE i < setting
        <4>1. dns[Holders[i]] = dns["tunnel"] BY <2>8, <3>2
        <4>2. Holders[i] \in {"tunnel", "udp", "tcp", "sni"} OBVIOUS
        <4> QED BY <2>6, <4>1, <4>2
      <3> QED BY <2>1, <3>1, <3>2
    <2>10. \A i \in 1..4 : setting' = 0 \/ i < setting' => i <= setting BY <2>1, <2>4
    <2>11. HolderInv' BY <2>6, <2>9, <2>10 DEF HolderInv
    <2> QED BY <2>7, <2>11
  <1> QED BY <1>2, <1>3

(* The other steps of the handler and its reporter.                        *)
LEMMA HandlerNext ==
  ASSUME TypeOK, HandlerTypeOK, HolderInv, Next, ~SetDNS, ~SetNext
  PROVE  HandlerTypeOK' /\ UNCHANGED <<dns, setting>>
  <1>1. CASE SetAlwaysSplitHTTPS \/ EnableSNIReporter
    <2>1. UNCHANGED <<dns, setting, asked, outbox, posted>>
      BY <1>1 DEF SetAlwaysSplitHTTPS, EnableSNIReporter
    <2>2. alwaysSplitHTTPS' \in BOOLEAN /\ reporter' \in BOOLEAN
      BY <1>1 DEF SetAlwaysSplitHTTPS, EnableSNIReporter, Configure, HandlerTypeOK
    <2> QED BY <2>1, <2>2 DEF HandlerTypeOK
  <1>2. ASSUME NEW c \in Conns, HandleOther(c) \/ Dialed(c) \/ Relay(c) \/ ServeDNS(c)
        PROVE  HandlerTypeOK' /\ UNCHANGED <<dns, setting>>
    <2>1. UNCHANGED handlerVars BY <1>2 DEF HandleOther, Dialed, Relay, ServeDNS
    <2> QED BY <2>1 DEF handlerVars, HandlerTypeOK
  <1>3. ASSUME NEW c \in Conns, HandleDNS(c) PROVE HandlerTypeOK' /\ UNCHANGED <<dns, setting>>
    <2>1. /\ UNCHANGED <<dns, setting, alwaysSplitHTTPS, reporter, outbox, posted>>
          /\ asked' = [asked EXCEPT ![c] = dns["tcp"]]
      BY <1>3 DEF HandleDNS, Load
    <2>2. asked' \in [Conns -> Transports \cup {None}] BY <2>1 DEF HandlerTypeOK
    <2> QED BY <2>1, <2>2 DEF HandlerTypeOK
  <1>4. ASSUME NEW c \in Conns, SNIReport(c) PROVE HandlerTypeOK' /\ UNCHANGED <<dns, setting>>
    <2>1. UNCHANGED <<dns, setting, alwaysSplitHTTPS, reporter, asked, posted>>
      BY <1>4 DEF SNIReport
    <2>2. outbox' \subseteq Reports
      <3>1. \E res \in {"success", "failed"}, rsp \in {"timeout", "closed"} :
              outbox' \subseteq outbox \cup {[conn |-> c, result |-> res, response |-> rsp]}
        BY <1>4 DEF SNIReport
      <3> QED BY <3>1 DEF Reports, HandlerTypeOK
    <2> QED BY <2>1, <2>2 DEF HandlerTypeOK
  <1>5. ASSUME NEW r \in outbox, Send(r) PROVE HandlerTypeOK' /\ UNCHANGED <<dns, setting>>
    <2>1. /\ UNCHANGED <<dns, setting, alwaysSplitHTTPS, reporter, asked>> /\ outbox' \subseteq outbox
          /\ \/ posted' = [posted EXCEPT ![r.conn] = dns["sni"]]
             \/ posted' = posted
      BY <1>5 DEF Send
    <2>2. posted' \in [Conns -> Transports \cup {None}] BY <2>1 DEF HandlerTypeOK
    <2> QED BY <2>1, <2>2 DEF HandlerTypeOK
  <1> QED BY <1>1, <1>2, <1>3, <1>4, <1>5 DEF Next

(* A report is made of a connection that is over and stays true.           *)
LEMMA ReportNext ==
  ASSUME TypeOK, IntraInv, Next
  PROVE  ReportInv'
  <1>i. ReportInv /\ OrderInv /\ ByteInv /\ SummaryInv BY DEF IntraInv, RelayInv
  <1>t. /\ RelayTypeOK /\ outbox \subseteq Reports BY DEF TypeOK
  <1>n. None \notin Modes /\ None \notin DownloadPCs /\ None \notin UploadPCs BY IntraAssumption
  <1>c. \A r \in outbox : r.conn \in Conns BY <1>t DEF Reports
  <1>1. ASSUME \A r \in outbox : /\ mode'[r.conn] = mode[r.conn] /\ retry'[r.conn] = retry[r.conn]
                                 /\ delivered'[r.conn] = delivered[r.conn]
                                 /\ down'[r.conn] = "done",
               outbox' \subseteq outbox
        PROVE  ReportInv'
    BY <1>i, <1>1 DEF ReportInv
  <1>2. CASE \/ SetDNS \/ SetNext \/ SetAlwaysSplitHTTPS \/ EnableSNIReporter
             \/ (\E c \in Conns : HandleDNS(c) \/ ServeDNS(c)) \/ \E r \in outbox : Send(r)
    <2>1. UNCHANGED relayVars /\ outbox' \subseteq outbox
      BY <1>2 DEF SetDNS, SetNext, SetAlwaysSplitHTTPS, EnableSNIReporter, HandleDNS, ServeDNS,
                  Send, handlerVars
    <2> QED BY <1>i, <1>1, <2>1 DEF relayVars, ReportInv
  <1>3. ASSUME NEW c \in Conns, Relay(c) PROVE ReportInv'
    <2>1. (forward(c) \/ AppEnds(c) \/ ServerEnds(c)) /\ outbox' = outbox
      BY <1>3 DEF Relay, handlerVars
    <2> QED BY <1>i, <1>t, <1>c, <1>1, <2>1, OverIsOver DEF ReportInv
  <1>4. ASSUME NEW c \in Conns, HandleOther(c) PROVE ReportInv'
    <2>1. mode[c] = None /\ UNCHANGED <<down, delivered, outbox>>
      BY <1>4 DEF HandleOther, New, handlerVars
    <2>2. \A x \in Conns : x # c => mode'[x] = mode[x] /\ retry'[x] = retry[x]
      BY <1>4, <1>t DEF HandleOther, RelayTypeOK
    <2>3. \A r \in outbox : r.conn # c BY <1>i, <1>n, <2>1 DEF ReportInv, Modes
    <2> QED BY <1>i, <1>c, <1>1, <2>1, <2>2, <2>3 DEF ReportInv
  <1>5. ASSUME NEW c \in Conns, Dialed(c) PROVE ReportInv'
    <2>1. down[c] = None /\ UNCHANGED <<mode, retry, delivered, outbox>>
      BY <1>5 DEF Dialed, StartForward, handlerVars
    <2>2. \A x \in Conns : x # c => down'[x] = down[x]
      BY <1>5, <1>t DEF Dialed, StartForward, RelayTypeOK
    <2>3. \A r \in outbox : r.conn # c BY <1>i, <1>n, <2>1 DEF ReportInv, DownloadPCs
    <2> QED BY <1>i, <1>c, <1>1, <2>1, <2>2, <2>3 DEF ReportInv
  <1>6. ASSUME NEW c \in Conns, SNIReport(c) PROVE ReportInv'
    <2>1. down[c] = "sni" /\ UNCHANGED <<mode, retry, delivered>> BY <1>6 DEF SNIReport
    <2>2. down'[c] = "done" /\ \A x \in Conns : x # c => down'[x] = down[x]
      BY <1>6, <1>t DEF SNIReport, RelayTypeOK
    <2>3. retry[c] # None /\ mode[c] = "retry" BY <1>i, <2>1 DEF OrderInv
    <2>4. retry[c].Split \in Nat BY <1>t, <2>3 DEF RelayTypeOK, RetryStats
    <2>5. summary[c].DownloadBytes = delivered[c]
      <3>1. summary[c] = [UploadBytes |-> bytes[c].up, DownloadBytes |-> bytes[c].down]
        BY <1>i, <2>1 DEF SummaryInv
      <3>2. summary[c].DownloadBytes = bytes[c].down BY <3>1
      <3>3. bytes[c].down = delivered[c] BY <1>i DEF ByteInv
      <3> QED BY <3>2, <3>3
    <2> SUFFICES ASSUME NEW r \in outbox'
                 PROVE  /\ down'[r.conn] = "done"
                        /\ mode'[r.conn] = "retry" /\ retry'[r.conn].Split > 0
                        /\ r.result = "success" <=> delivered'[r.conn] > 0
      BY DEF ReportInv
    <2>6. CASE r \in outbox
      <3>1. /\ down[r.conn] = "done" /\ mode[r.conn] = "retry" /\ retry[r.conn].Split > 0
            /\ r.result = "success" <=> delivered[r.conn] > 0
        BY <1>i, <2>6 DEF ReportInv
      <3>2. down'[r.conn] = "done" BY <1>c, <2>2, <2>6, <3>1
      <3> QED BY <2>1, <3>1, <3>2
    <2>7. CASE r \notin outbox
      <3>1. /\ retry[c].Split # 0
            /\ r = [conn |-> c,
                    result |-> IF summary[c].DownloadBytes > 0 THEN "success" ELSE "failed",
                    response |-> IF retry[c].Timeout THEN "timeout" ELSE "closed"]
        BY <1>6, <2>7 DEF SNIReport
      <3>2. /\ r.conn = c
            /\ r.result = IF summary[c].DownloadBytes > 0 THEN "success" ELSE "failed"
        BY <3>1
      <3> QED BY <2>1, <2>2, <2>3, <2>4, <2>5, <3>1, <3>2
    <2> QED BY <2>6, <2>7
  <1> QED BY <1>2, <1>3, <1>4, <1>5, <1>6 DEF Next

(* The program starts with no connection, and every holder has the same    *)
(* transport.                                                              *)
LEMMA InitInv == Init => TypeOK /\ IntraInv
  <1> SUFFICES ASSUME Init PROVE TypeOK /\ IntraInv OBVIOUS
  <1>1. << >> \in Seq(Bytes) /\ << >> \in Frames /\ 0 \in Bytes /\ DOMAIN << >> = {}
        /\ Len(<< >>) = 0
    BY IntraAssumption DEF Bytes, Frames
  <1>2. RelayTypeOK BY <1>1 DEF Init, RelayInit, RelayTypeOK, Fresh, Ends
  <1>n. None \notin Modes /\ None \notin DownloadPCs /\ None \notin UploadPCs BY IntraAssumption
  <1>3. RelayInv
    <2>1. OrderInv BY <1>n DEF Init, RelayInit, OrderInv, UploadPCs, DownloadPCs
    <2>2. ByteInv
      <3> SUFFICES ASSUME NEW c \in Conns
                   PROVE  /\ bytes[c].down = delivered[c] /\ bytes[c].up <= sent[c]
                          /\ bytes[c].up = sent[c] /\ sent[c] = 0
        BY DEF ByteInv
      <3>1. bytes[c] = [up |-> 0, down |-> 0] /\ sent[c] = 0 /\ delivered[c] = 0
        BY DEF Init, RelayInit
      <3>2. bytes[c].up = 0 /\ bytes[c].down = 0 BY <3>1
      <3> QED BY <3>1, <3>2
    <2>3. ShutInv BY <1>n DEF Init, RelayInit, ShutInv, UploadPCs, DownloadPCs
    <2>4. SummaryInv BY <1>n DEF Init, RelayInit, SummaryInv, DownloadPCs
    <2>5. HelloInv BY DEF Init, RelayInit, HelloInv
    <2> QED BY <2>1, <2>2, <2>3, <2>4, <2>5 DEF RelayInv
  <1>4. NoStream \in Streams BY <1>1 DEF NoStream, Streams, QueryPCs, Frames
  <1>5. SocketInv(NoStream) BY <1>1 DEF NoStream, SocketInv, Whole
  <1>6. stream \in [Conns -> Streams] /\ FramesInv BY <1>4, <1>5 DEF Init, FramesInv
  <1>7. HandlerTypeOK BY DEF Init, HandlerTypeOK
  <1>8. HolderInv
    <2>1. \A i \in 1..4 : Holders[i] \in {"tunnel", "udp", "tcp", "sni"} BY DEF Holders
    <2> QED BY <2>1 DEF Init, HolderInv
  <1>9. ReportInv BY DEF Init, ReportInv
  <1> QED BY <1>2, <1>3, <1>6, <1>7, <1>8, <1>9 DEF TypeOK, HandlerTypeOK, IntraInv

(* Every step keeps the invariant.                                         *)
LEMMA NextInv == TypeOK /\ IntraInv /\ [Next]_vars => TypeOK' /\ IntraInv'
  <1> SUFFICES ASSUME TypeOK, IntraInv, [Next]_vars PROVE TypeOK' /\ IntraInv' OBVIOUS
  <1>i. /\ FramesInv /\ RelayInv /\ ReportInv /\ HolderInv
        /\ RelayTypeOK /\ stream \in [Conns -> Streams] /\ HandlerTypeOK
    BY DEF IntraInv, TypeOK, HandlerTypeOK
  <1>1. CASE UNCHANGED vars
    <2>1. UNCHANGED <<stream, relayVars, handlerVars>> BY <1>1 DEF vars
    <2>2. TypeOK' BY <2>1 DEF relayVars, handlerVars, TypeOK, RelayTypeOK
    <2>3. FramesInv' BY <1>i, <2>1 DEF FramesInv
    <2>4. OrderInv' /\ ByteInv' BY <1>i, <2>1 DEF relayVars, RelayInv, OrderInv, ByteInv
    <2>5. ShutInv' /\ SummaryInv' /\ HelloInv'
      BY <1>i, <2>1 DEF relayVars, RelayInv, ShutInv, SummaryInv, HelloInv
    <2>6. ReportInv' /\ HolderInv'
      BY <1>i, <2>1 DEF relayVars, handlerVars, ReportInv, HolderInv
    <2> QED BY <2>2, <2>3, <2>4, <2>5, <2>6 DEF IntraInv, RelayInv
  <1>2. CASE Next
    <2>1. RelayTypeOK' /\ RelayInv'
      <3>1. CASE \E c \in Conns : HandleOther(c) BY <1>i, <3>1, HandleNext
      <3>2. CASE \E c \in Conns : Dialed(c) BY <1>i, <3>2, DialedNext
      <3>3. CASE \E c \in Conns : SNIReport(c) BY <1>i, <3>3, SNINext
      <3>4. CASE \E c \in Conns : Relay(c) BY <1>i, <3>4, RelayNext DEF Relay
      <3>5. CASE UNCHANGED relayVars
        <4>1. RelayTypeOK' BY <1>i, <3>5 DEF relayVars, RelayTypeOK
        <4>2. OrderInv' /\ ByteInv' BY <1>i, <3>5 DEF relayVars, RelayInv, OrderInv, ByteInv
        <4>3. ShutInv' /\ SummaryInv' /\ HelloInv'
          BY <1>i, <3>5 DEF relayVars, RelayInv, ShutInv, SummaryInv, HelloInv
        <4> QED BY <4>1, <4>2, <4>3 DEF RelayInv
      <3> QED BY <1>2, <3>1, <3>2, <3>3, <3>4, <3>5
              DEF Next, SetDNS, SetNext, SetAlwaysSplitHTTPS, EnableSNIReporter, HandleDNS,
                  ServeDNS, Send
    <2>2. stream' \in [Conns -> Streams] /\ FramesInv'
      <3>1. CASE \E c \in Conns : HandleDNS(c) BY <1>i, <3>1, StreamNext DEF HandleDNS
      <3>2. CASE \E c \in Conns : ServeDNS(c) BY <1>i, <3>2, StreamNext DEF ServeDNS
      <3>3. CASE UNCHANGED stream BY <1>i, <3>3 DEF FramesInv
      <3> QED BY <1>2, <3>1, <3>2, <3>3
              DEF Next, SetDNS, SetNext, SetAlwaysSplitHTTPS, EnableSNIReporter, HandleOther,
                  Dialed, SNIReport, Relay, Send
    <2>3. HandlerTypeOK' /\ HolderInv'
      <3>1. CASE SetDNS \/ SetNext BY <1>i, <3>1, SetDNSNext
      <3>2. CASE ~SetDNS /\ ~SetNext
        <4>1. HandlerTypeOK' /\ UNCHANGED <<dns, setting>> BY <1>i, <1>2, <3>2, HandlerNext
        <4> QED BY <1>i, <4>1 DEF HolderInv
      <3> QED BY <3>1, <3>2
    <2>4. ReportInv' BY <1>2, ReportNext
    <2> QED BY <2>1, <2>2, <2>3, <2>4 DEF TypeOK, HandlerTypeOK, IntraInv
  <1> QED BY <1>1, <1>2

(* The inductive invariant.                                                *)
LEMMA IntraInvariance == Spec => [](TypeOK /\ IntraInv)
  BY InitInv, NextInv, PTL DEF Spec

(* Type correctness; the byte counts stay within the bytes that were       *)
(* moved, also those of the retrier (tcp.go:78-105).                       *)
THEOREM TypeCorrect == Spec => []TypeOK
  BY IntraInvariance, PTL

(* However many queries of one socket are answered at the same time, the   *)
(* stub reads whole frames (doh.go:477-508).                               *)
THEOREM FramesAreWhole == Spec => []FramesWhole
  <1>1. FramesInv => FramesWhole BY DEF FramesInv, SocketInv, Whole, FramesWhole
  <1> QED BY <1>1, IntraInvariance, PTL DEF IntraInv

(* OnTCPSocketClosed is told the bytes that were moved (tcp.go:98-105).    *)
THEOREM SummaryIsTrue == Spec => []SummaryTrue
  <1>1. IntraInv => SummaryTrue
    <2> SUFFICES ASSUME IntraInv, NEW c \in Conns, summary[c] # None
                 PROVE  /\ summary[c].DownloadBytes = delivered[c]
                        /\ mode[c] # "retry" => summary[c].UploadBytes = sent[c]
      BY DEF SummaryTrue
    <2>1. summary[c] = [UploadBytes |-> bytes[c].up, DownloadBytes |-> bytes[c].down]
      BY DEF IntraInv, RelayInv, SummaryInv
    <2>2. summary[c].UploadBytes = bytes[c].up /\ summary[c].DownloadBytes = bytes[c].down
      BY <2>1
    <2>3. bytes[c].down = delivered[c] /\ (mode[c] # "retry" => bytes[c].up = sent[c])
      BY DEF IntraInv, RelayInv, ByteInv
    <2> QED BY <2>2, <2>3
  <1> QED BY <1>1, IntraInvariance, PTL

(* The direct splitter splits every first chunk of two bytes or more, for  *)
(* every range of split points (direct_split.go:48-80, retrier.go:214-230).*)
THEOREM DoesAlwaysSplit == Spec => []AlwaysSplits
  <1>1. IntraInv => AlwaysSplits BY DEF IntraInv, RelayInv, HelloInv, AlwaysSplits
  <1> QED BY <1>1, IntraInvariance, PTL

(* What is queued for the SNI reporter is about a retry, and its result is *)
(* what the app has seen (sni_reporter.go:85-116).                         *)
THEOREM ReportsAreTrue == Spec => []ReportsTrue
  <1>1. TypeOK /\ IntraInv => ReportsTrue
    BY DEF TypeOK, Reports, IntraInv, RelayInv, SummaryInv, ReportInv, ReportsTrue
  <1> QED BY <1>1, IntraInvariance, PTL

(* A socket is reported once, and only when all four halves of its two     *)
(* sockets are shut (tcp.go:78-105).                                       *)
THEOREM IsReportedWhenOver == Spec => ReportedWhenOver
  <1> DEFINE A == \A c \in Conns : summary'[c] # summary[c] =>
                    /\ summary[c] = None
                    /\ ~local[c].read /\ ~local[c].write /\ ~remote[c].read /\ ~remote[c].write
  <1>1. TypeOK /\ IntraInv /\ [Next]_vars => [A]_relayVars
    <2> SUFFICES ASSUME TypeOK, IntraInv, [Next]_vars, NEW c \in Conns, summary'[c] # summary[c]
                 PROVE  /\ summary[c] = None
                        /\ ~local[c].read /\ ~local[c].write
                        /\ ~remote[c].read /\ ~remote[c].write
      OBVIOUS
    <2>i. OrderInv /\ ShutInv /\ SummaryInv BY DEF IntraInv, RelayInv
    <2>1. PICK x \in Conns : OnTCPSocketClosed(x)
      BY DEF Next, vars, relayVars, SetDNS, SetNext, SetAlwaysSplitHTTPS, EnableSNIReporter,
             HandleDNS, HandleOther, Dialed, StartForward, SNIReport, ServeDNS, Send, Relay,
             forward, handleUpload, handleDownload, UploadLoop, UploadOnce, UploadCopy,
             UploadEnds, UploadCloseLocal, UploadCloseRemote, DownloadChunk, DownloadEnds,
             Retry, DownloadCloseLocal, DownloadCloseRemote, Join, AppEnds, ServerEnds
    <2>2. x = c BY <2>1 DEF OnTCPSocketClosed, TypeOK, RelayTypeOK
    <2>3. down[c] = "closed" BY <2>1, <2>2 DEF OnTCPSocketClosed
    <2>4. up[c] = "done" BY <2>i, <2>3 DEF OrderInv
    <2> QED BY <2>i, <2>3, <2>4 DEF ShutInv, SummaryInv
  <1> QED BY <1>1, IntraInvariance, PTL DEF Spec, ReportedWhenOver

(* Once SetDNS has returned, new DNS sockets and reports use the new       *)
(* transport (intra/tunnel.go:111-115, tcp.go:161-164).                    *)
THEOREM IsNewTransportUsed == Spec => NewTransportUsed
  <1> DEFINE A == \A c \in Conns :
                    /\ asked'[c] # asked[c] /\ setting = 0 => asked'[c] = dns.tunnel
                    /\ posted'[c] # posted[c] /\ setting = 0 => posted'[c] = dns.tunnel
                    /\ asked[c] # None => asked'[c] = asked[c]
  <1>1. TypeOK /\ IntraInv /\ [Next]_vars => [A]_vars
    <2> SUFFICES ASSUME TypeOK, IntraInv, Next, NEW c \in Conns
                 PROVE  /\ asked'[c] # asked[c] /\ setting = 0 => asked'[c] = dns.tunnel
                        /\ posted'[c] # posted[c] /\ setting = 0 => posted'[c] = dns.tunnel
                        /\ asked[c] # None => asked'[c] = asked[c]
      OBVIOUS
    <2>1. setting = 0 => dns["tcp"] = dns["tunnel"] /\ dns["sni"] = dns["tunnel"]
      <3>1. Holders[3] = "tcp" /\ Holders[4] = "sni" /\ 3 \in 1..4 /\ 4 \in 1..4 BY DEF Holders
      <3> QED BY <3>1 DEF IntraInv, HolderInv
    <2>2. CASE \E x \in Conns : HandleDNS(x)
      <3>1. PICK x \in Conns : HandleDNS(x) BY <2>2
      <3>2. /\ posted' = posted /\ asked[x] = None /\ asked' = [asked EXCEPT ![x] = dns["tcp"]]
        BY <3>1 DEF HandleDNS, New, Load
      <3>3. CASE c = x BY <2>1, <3>2, <3>3 DEF TypeOK
      <3>4. CASE c # x
        <4>1. asked'[c] = asked[c] BY <3>2, <3>4 DEF TypeOK
        <4> QED BY <3>2, <4>1
      <3> QED BY <3>3, <3>4
    <2>3. CASE \E r \in outbox : Send(r)
      <3>1. PICK r \in outbox : Send(r) BY <2>3
      <3>2. /\ asked' = asked
            /\ posted' = [posted EXCEPT ![r.conn] = dns["sni"]] \/ posted' = posted
        BY <3>1 DEF Send
      <3>3. posted'[c] # posted[c] => posted'[c] = dns["sni"] BY <3>2 DEF TypeOK
      <3> QED BY <2>1, <3>2, <3>3
    <2>4. CASE UNCHANGED <<asked, posted>> BY <2>4
    <2> QED BY <2>2, <2>3, <2>4
            DEF Next, SetDNS, SetNext, SetAlwaysSplitHTTPS, EnableSNIReporter, HandleOther,
                Dialed, SNIReport, Relay, ServeDNS, handlerVars
  <1> QED BY <1>1, IntraInvariance, PTL DEF Spec, NewTransportUsed
============================================================================
