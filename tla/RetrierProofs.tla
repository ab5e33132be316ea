--------------------------- MODULE RetrierProofs ---------------------------
(***************************************************************************)
(* What holds of Retrier for every stream length, chunk size, split range  *)
(* and set of callers.                                                     *)
(***************************************************************************)
EXTENDS Retrier, SequenceTheorems, TLAPS

(* Every result of the stream operators has the type it should.            *)
LEMMA StreamType ==
  ASSUME NEW a \in Nat, NEW b \in Nat
  PROVE  /\ Stream(a, b) \in Seq(Nat) /\ Len(Stream(a, b)) \in Nat
         /\ a <= b => Len(Stream(a, b)) = b - a
  <1>1. ASSUME a <= b PROVE Stream(a, b) \in Seq(Nat) /\ Len(Stream(a, b)) = b - a
    <2>1. b - a \in Nat BY <1>1
    <2>2. \A i \in 1..(b - a) : a + i \in Nat OBVIOUS
    <2> QED BY <2>1, <2>2, IsASeq DEF Stream
  <1>2. ASSUME ~(a <= b) PROVE Stream(a, b) \in Seq(Nat)
    <2>1. 1..(b - a) = 1..0 BY <1>2
    <2>2. \A i \in 1..0 : a + i \in Nat OBVIOUS
    <2> QED BY <2>1, <2>2, IsASeq DEF Stream
  <1>3. Stream(a, b) \in Seq(Nat) BY <1>1, <1>2
  <1>4. Len(Stream(a, b)) \in Nat BY <1>3, LenProperties
  <1> QED BY <1>1, <1>3, <1>4

(* What one Write took of the buffer is a sequence of bytes.               *)
LEMMA PrefixType ==
  ASSUME NEW p \in Nat
  PROVE  /\ Stream(0, p) \in Seq(Nat) /\ Len(Stream(0, p)) = p
         /\ \A i \in 1..p : Stream(0, p)[i] = i
  <1>1. 0 \in Nat /\ 0 <= p /\ p - 0 = p OBVIOUS
  <1>2. Stream(0, p) \in Seq(Nat) /\ Len(Stream(0, p)) = p BY <1>1, StreamType
  <1>3. \A i \in 1..p : Stream(0, p)[i] = i BY DEF Stream
  <1> QED BY <1>2, <1>3

(* Every operation on a socket leaves a socket record behind.              *)
LEMMA SocketType ==
  ASSUME NEW s \in Sockets
  PROVE  /\ Unused \in Sockets /\ Dialed \in Sockets /\ Closed(s) \in Sockets
         /\ ShutRead(s) \in Sockets /\ ShutWrite(s) \in Sockets
         /\ PeerData(s) \in Sockets /\ PeerFin(s) \in Sockets /\ PeerRst(s) \in Sockets
         /\ \A e \in Errors : AfterRead(s, e) \in Sockets
         /\ \A d \in {"none", "response", "caller"} : ReadDeadline(s, d) \in Sockets
         /\ \A d \in {"none", "caller"} : WriteDeadline(s, d) \in Sockets
  <1>1. << >> \in Seq(Nat) OBVIOUS
  <1>2. Unused \in Sockets BY <1>1 DEF Unused, Sockets
  <1>3. Dialed \in Sockets BY <1>2 DEF Dialed, Sockets
  <1>4. Closed(s) \in Sockets BY <1>2 DEF Closed, Sockets
  <1>5. ShutRead(s) \in Sockets /\ ShutWrite(s) \in Sockets
    BY DEF ShutRead, ShutWrite, Sockets
  <1>6. PeerData(s) \in Sockets /\ PeerFin(s) \in Sockets /\ PeerRst(s) \in Sockets
    BY DEF PeerData, PeerFin, PeerRst, Sockets
  <1>7. \A e \in Errors : AfterRead(s, e) \in Sockets BY DEF AfterRead, Sockets
  <1>8. \A d \in {"none", "response", "caller"} : ReadDeadline(s, d) \in Sockets
    BY DEF ReadDeadline, Sockets
  <1>9. \A d \in {"none", "caller"} : WriteDeadline(s, d) \in Sockets
    BY DEF WriteDeadline, Sockets
  <1> QED BY <1>2, <1>3, <1>4, <1>5, <1>6, <1>7, <1>8, <1>9

(* So does a write of a prefix of b, and it returns a count and an error.  *)
LEMMA WriteType ==
  ASSUME NEW s \in Sockets, NEW b \in Seq(Nat), NEW m \in Nat, m <= Len(b),
         NEW r \in WriteResults(s, m)
  PROVE  /\ r[1] \in 0..m /\ r[2] \in Errors
         /\ SubSeq(b, 1, r[1]) \in Seq(Nat)
         /\ AfterWrite(s, b, r[1]) \in Sockets
  <1>1. r[1] \in 0..m /\ r[2] \in Errors BY DEF WriteResults
  <1>2. SubSeq(b, 1, r[1]) \in Seq(Nat) BY <1>1, SubSeqProperties
  <1>3. s.sent \o SubSeq(b, 1, r[1]) \in Seq(Nat) BY <1>2, ConcatProperties DEF Sockets
  <1> QED BY <1>1, <1>2, <1>3 DEF AfterWrite, Sockets

(***************************************************************************)
(* Type correctness.                                                       *)
(***************************************************************************)
(* A goroutine that goes to a program point leaves pc well typed.          *)
LEMMA GotoType ==
  ASSUME TypeOK, NEW t \in Threads, NEW to \in PCs, Goto(t, to)
  PROVE  pc' \in [Threads -> PCs]
  BY DEF TypeOK, Goto

(* Storing a socket record at the current connection.                      *)
LEMMA StoreType ==
  ASSUME TypeOK, NEW s \in Sockets
  PROVE  [sock EXCEPT ![conn] = s] \in [Conns -> Sockets]
  BY DEF TypeOK

(* Where a goroutine goes next is always a program point.                  *)
LEMMA ReturnType ==
  ASSUME NEW e \in Errors
  PROVE  AfterReturn(e) \subseteq PCs
  BY DEF AfterReturn, PCs, Critical, Unlocked

(* DialWithSplitRetry makes a well-typed retrier.                          *)
LEMMA TypeInit == Init => TypeOK
  <1> SUFFICES ASSUME Init PROVE TypeOK OBVIOUS
  <1>1. Unused \in Sockets /\ Dialed \in Sockets
    <2>1. << >> \in Seq(Nat) OBVIOUS
    <2>2. Unused \in Sockets BY <2>1 DEF Unused, Sockets
    <2> QED BY <2>2, SocketType
  <1>2. sock \in [Conns -> Sockets] BY <1>1 DEF Init
  <1>3. pc \in [Threads -> PCs] BY DEF Init, Threads, PCs
  <1>4. stats \in [Bytes : Nat, Chunks : Nat, Split : Nat, Timeout : BOOLEAN]
    BY DEF Init
  <1>5. hello \in Seq(Nat) BY DEF Init
  <1>6. conn \in Conns /\ err \in Errors BY DEF Init, Conns, Errors
  <1> QED BY <1>2, <1>3, <1>4, <1>5, <1>6 DEF Init, TypeOK

(* Between two calls, the handshake only changes which of reader and       *)
(* writer its goroutine is.                                                *)
LEMMA HandshakeTurns ==
  ASSUME pc \in [Threads -> PCs], Handshake
  PROVE  /\ pc' \in [Threads -> PCs]
         /\ {pc["reader"], pc'["reader"]} \subseteq {"idle", "read"}
         /\ {pc["writer"], pc'["writer"]} \subseteq {"idle", "source"}
         /\ pc'["closer"] = pc["closer"]
         /\ UNCHANGED <<usage, sock, conn, mutex, hello, flags, dlines, stats, err,
                        split, upload>>
  BY DEF Handshake, HandshakeReads, HandshakeWrites, Threads, PCs

(* The phases are needed: only because a retry starts from the first       *)
(* socket is there never a third.                                          *)
LEMMA TypeNext == TypeOK /\ StreamInv /\ [Next]_vars => TypeOK'
  <1> SUFFICES ASSUME TypeOK, StreamInv, [Next]_vars PROVE TypeOK' OBVIOUS
  <1>s. sock[conn] \in Sockets /\ \A c \in Conns : sock[c] \in Sockets BY DEF TypeOK
  <1>t. "reader" \in Threads /\ "writer" \in Threads /\ "closer" \in Threads BY DEF Threads
  <1>1. CASE Read
    <2>1. PICK e \in ReadResults(sock[conn]) :
            /\ sock' = [sock EXCEPT ![conn] = AfterRead(@, e)]
            /\ err' = e
            /\ \E to \in IF retryCompleted THEN AfterReturn(e) ELSE {"lock"} :
                 Goto("reader", to)
      BY <1>1 DEF Read
    <2>2. e \in Errors BY DEF ReadResults
    <2>3. sock' \in [Conns -> Sockets] BY <1>s, <2>1, <2>2, SocketType, StoreType
    <2>4. pc' \in [Threads -> PCs]
      BY <1>t, <2>1, <2>2, ReturnType, GotoType DEF PCs
    <2> QED BY <1>1, <2>1, <2>2, <2>3, <2>4 DEF Read, TypeOK, flags, dlines, upload
  <1>2. CASE ReadLock
    <2>1. stats' \in [Bytes : Nat, Chunks : Nat, Split : Nat, Timeout : BOOLEAN]
      BY <1>2 DEF ReadLock, TypeOK
    <2>2. pc' \in [Threads -> PCs]
      BY <1>2, <1>t, GotoType DEF ReadLock, PCs, Critical
    <2> QED BY <1>2, <2>1, <2>2 DEF ReadLock, TypeOK, flags, dlines, upload
  <1>3. CASE Redial
    <2>1. SplitPoints(Len(hello)) \subseteq Nat
      <3>1. Len(hello) \in Nat BY DEF TypeOK
      <3> QED BY <3>1, RetrierAssumption DEF SplitPoints
    <2>2. CASE /\ err' = "dial" /\ sock' = [sock EXCEPT ![conn] = Closed(@)]
               /\ Goto("reader", "complete") /\ UNCHANGED <<conn, stats, split>>
      <3>1. sock' \in [Conns -> Sockets] BY <2>2, <1>s, SocketType, StoreType
      <3>2. pc' \in [Threads -> PCs] BY <2>2, <1>t, GotoType DEF PCs, Critical
      <3>3. err' \in Errors BY <2>2 DEF Errors
      <3> QED BY <1>3, <2>2, <3>1, <3>2, <3>3 DEF Redial, TypeOK, flags, dlines, upload
    <2>3. CASE /\ conn' = conn + 1
               /\ sock' = [sock EXCEPT ![conn] = Closed(@), ![conn + 1] = Dialed]
               /\ split' \in SplitPoints(Len(hello))
               /\ stats' = [stats EXCEPT !.Split = split']
               /\ Goto("reader", "first") /\ UNCHANGED err
      <3>1. sock' \in [Conns -> Sockets] BY <2>3, <1>s, SocketType DEF TypeOK
      <3>2. pc' \in [Threads -> PCs] BY <2>3, <1>t, GotoType DEF PCs, Critical
      <3>3. split' \in Nat BY <2>1, <2>3
      <3>4. stats' \in [Bytes : Nat, Chunks : Nat, Split : Nat, Timeout : BOOLEAN]
        BY <2>3, <3>3 DEF TypeOK
      <3>5. conn' \in Conns BY <1>3, <2>3 DEF Redial, StreamInv, PhaseInv, Conns
      <3> QED BY <1>3, <2>3, <3>1, <3>2, <3>3, <3>4, <3>5
          DEF Redial, TypeOK, flags, dlines, upload
    <2> QED BY <1>3, <2>2, <2>3 DEF Redial
  <1>4. ASSUME NEW segment \in Seq(Nat), NEW next \in PCs, Replay(segment, next)
        PROVE  TypeOK'
    <2>1. Len(segment) \in Nat OBVIOUS
    <2>2. PICK r \in WriteResults(sock[conn], Len(segment)) :
            /\ sock' = [sock EXCEPT ![conn] = AfterWrite(@, segment, r[1])]
            /\ err' = r[2]
            /\ Goto("reader", IF r[2] = "nil" THEN next ELSE "complete")
      BY <1>4 DEF Replay
    <2>3. r[2] \in Errors /\ AfterWrite(sock[conn], segment, r[1]) \in Sockets
      BY <1>s, <2>1, WriteType
    <2>4. sock' \in [Conns -> Sockets] BY <2>2, <2>3, StoreType
    <2>5. pc' \in [Threads -> PCs] BY <1>t, <2>2, GotoType DEF PCs, Critical
    <2> QED BY <1>4, <2>2, <2>3, <2>4, <2>5 DEF Replay, TypeOK, flags, dlines, upload
  <1>5. CASE ReplayFirst \/ ReplaySecond
    <2>1. /\ SubSeq(hello, 1, split) \in Seq(Nat)
          /\ SubSeq(hello, split + 1, Len(hello)) \in Seq(Nat)
      <3>1. ~retryCompleted /\ split <= wpos
        BY <1>5 DEF ReplayFirst, ReplaySecond, StreamInv, PhaseInv, ReplayInv,
                    Replaying, Critical
      <3>a. hello \in Seq(Nat) /\ wpos \in Nat BY DEF TypeOK
      <3>b. hello = Stream(0, wpos) BY <3>1 DEF StreamInv, ReplayInv
      <3>c. 0 \in Nat /\ 0 <= wpos /\ wpos - 0 = wpos BY <3>a
      <3>d. Len(Stream(0, wpos)) = wpos BY <3>a, <3>c, StreamType
      <3>2. Len(hello) = wpos /\ hello \in Seq(Nat) /\ wpos \in Nat
        BY <3>a, <3>b, <3>d
      <3>3. \A i \in 1..wpos : hello[i] \in Nat BY <3>2
      <3>4. \A i \in 1..split : hello[i] \in Nat BY <3>1, <3>2, <3>3 DEF TypeOK
      <3>5. \A i \in (split + 1)..Len(hello) : hello[i] \in Nat
        BY <3>2, <3>3 DEF TypeOK
      <3>6. split \in Int /\ split + 1 \in Int /\ Len(hello) \in Int
        BY <3>2 DEF TypeOK
      <3>7. SubSeq(hello, 1, split) \in Seq(Nat) BY <3>4, <3>6, SubSeqProperties
      <3> QED BY <3>5, <3>6, <3>7, SubSeqProperties
    <2>2. "second" \in PCs /\ "copyRead" \in PCs BY DEF PCs, Critical
    <2> QED BY <1>4, <1>5, <2>1, <2>2 DEF ReplayFirst, ReplaySecond
  <1>6. CASE CopyReadClosed
    <2>1. sock' \in [Conns -> Sockets]
      BY <1>6, <1>s, SocketType, StoreType DEF CopyReadClosed, TypeOK
    <2>2. pc' \in [Threads -> PCs]
      BY <1>6, <1>t, GotoType DEF CopyReadClosed, PCs, Critical
    <2> QED BY <1>6, <2>1, <2>2 DEF CopyReadClosed, TypeOK, flags, dlines, upload
  <1>7. CASE CopyWriteClosed
    <2>1. CopyClose(sock[conn]) \in Sockets BY <1>s, SocketType DEF CopyClose
    <2>2. ReadDeadline(CopyClose(sock[conn]), readDeadline) \in Sockets
      BY <2>1, SocketType DEF TypeOK
    <2>3. Reapply(CopyClose(sock[conn])) \in Sockets
      BY <2>2, SocketType DEF Reapply, TypeOK
    <2>4. sock' \in [Conns -> Sockets] BY <1>7, <2>3, StoreType DEF CopyWriteClosed
    <2>5. pc' \in [Threads -> PCs]
      BY <1>7, <1>t, GotoType DEF CopyWriteClosed, PCs, Critical
    <2> QED BY <1>7, <2>4, <2>5 DEF CopyWriteClosed, TypeOK, flags, dlines, upload
  <1>8. CASE RetryRead
    <2>1. PICK e \in ReadResults(sock[conn]) :
            sock' = [sock EXCEPT ![conn] = AfterRead(@, e)] /\ err' = e
      BY <1>8 DEF RetryRead
    <2>2. e \in Errors BY DEF ReadResults
    <2>3. sock' \in [Conns -> Sockets] BY <1>s, <2>1, <2>2, SocketType, StoreType
    <2>4. pc' \in [Threads -> PCs] BY <1>8, <1>t, GotoType DEF RetryRead, PCs, Critical
    <2> QED BY <1>8, <2>1, <2>2, <2>3, <2>4 DEF RetryRead, TypeOK, flags, dlines, upload
  <1>9. CASE Complete
    <2>1. pc' \in [Threads -> PCs] BY <1>9, <1>t, GotoType DEF Complete, PCs, Critical
    <2> QED BY <1>9, <2>1 DEF Complete, TypeOK, dlines, upload
  <1>10. CASE Finish
    <2>1. sock' \in [Conns -> Sockets] BY <1>10, <1>s, SocketType, StoreType DEF Finish
    <2>2. err \in Errors BY DEF TypeOK
    <2>3. pc' \in [Threads -> PCs] BY <1>10, <1>t, <2>2, ReturnType, GotoType DEF Finish
    <2>4. hello' \in Seq(Nat) BY <1>10 DEF Finish
    <2> QED BY <1>10, <2>1, <2>3, <2>4 DEF Finish, TypeOK, flags, dlines, upload
  <1>11. CASE ReadFromLoop \/ WriteCheck \/ WriteLate \/ WriteAwait \/ WriteSync
              \/ CopyEOF \/ Close \/ NextBuffer \/ SourceEOF
    <2>1. pc' \in [Threads -> PCs]
      BY <1>11, <1>t, GotoType
      DEF ReadFromLoop, WriteCheck, WriteLate, WriteAwait, WriteSync, CopyEOF, Close,
          NextBuffer, SourceEOF, PCs, Critical, Unlocked
    <2>2. wend' \in Nat /\ wpos' \in Nat /\ bytes' \in Nat
      BY <1>11, RetrierAssumption
      DEF ReadFromLoop, WriteCheck, WriteLate, WriteAwait, WriteSync, CopyEOF, Close,
          NextBuffer, SourceEOF, TypeOK, upload
    <2> QED BY <1>11, <2>1, <2>2
        DEF ReadFromLoop, WriteCheck, WriteLate, WriteAwait, WriteSync, CopyEOF, Close,
            NextBuffer, SourceEOF, TypeOK, flags, dlines, upload
  <1>12. \A t \in Threads : Closing(t) => TypeOK'
    <2> SUFFICES ASSUME NEW t \in Threads, Closing(t) PROVE TypeOK' OBVIOUS
    <2>1. pc' \in [Threads -> PCs]
      BY GotoType DEF Closing, CloseReadFlag, CloseReadLock, CloseWriteFlag,
                      CloseWriteLock, PCs
    <2>2. sock' \in [Conns -> Sockets]
      BY <1>s, SocketType, StoreType
      DEF Closing, CloseReadFlag, CloseReadLock, CloseWriteFlag, CloseWriteLock, TypeOK
    <2> QED BY <2>1, <2>2 DEF Closing, CloseReadFlag, CloseReadLock, CloseWriteFlag,
                              CloseWriteLock, TypeOK, flags, dlines, upload
  <1>13. CASE WriteProvisional
    <2> DEFINE b == Stream(wpos, wend)
    <2>1. b \in Seq(Nat) /\ Len(b) \in Nat BY StreamType DEF TypeOK
    <2> HIDE DEF b
    <2>2. PICK r \in WriteResults(sock[conn], Len(b)) :
            /\ sock' = [sock EXCEPT ![conn] = Arm(AfterWrite(@, b, r[1]), r[2])]
            /\ hello' = hello \o SubSeq(b, 1, r[1])
            /\ stats' = [stats EXCEPT !.Chunks = @ + 1, !.Bytes = Len(hello')]
            /\ wpos' = wpos + r[1]
            /\ IF r[2] = "nil" THEN WriteReturns(r[1], "nil")
                               ELSE Goto("writer", "await") /\ bytes' = r[1]
      BY <1>13 DEF WriteProvisional, b
    <2>3. /\ r[1] \in Nat /\ r[2] \in Errors
          /\ SubSeq(b, 1, r[1]) \in Seq(Nat)
          /\ AfterWrite(sock[conn], b, r[1]) \in Sockets
      BY <1>s, <2>1, WriteType
    <2>4. sock' \in [Conns -> Sockets] BY <2>2, <2>3, SocketType, StoreType DEF Arm
    <2>5. hello' \in Seq(Nat) BY <2>2, <2>3, ConcatProperties DEF TypeOK
    <2>6. stats' \in [Bytes : Nat, Chunks : Nat, Split : Nat, Timeout : BOOLEAN]
      <3>1. Len(hello') \in Nat BY <2>5
      <3>2. stats.Chunks + 1 \in Nat BY DEF TypeOK
      <3> QED BY <2>2, <3>1, <3>2 DEF TypeOK
    <2>7. wpos' \in Nat /\ bytes' \in Nat BY <2>2, <2>3 DEF TypeOK, WriteReturns
    <2>8. pc' \in [Threads -> PCs] BY <2>2, <1>t, GotoType DEF WriteReturns, PCs
    <2> QED BY <1>13, <2>4, <2>5, <2>6, <2>7, <2>8
        DEF WriteProvisional, TypeOK, flags, dlines
  <1>14. CASE WriteFinal
    <2> DEFINE b == Stream(wpos, wend)
               n == IF pc["writer"] = "rest" /\ usage = "relay" THEN bytes ELSE 0
    <2>1. b \in Seq(Nat) /\ Len(b) \in Nat BY StreamType DEF TypeOK
    <2>2. n \in Nat BY DEF TypeOK
    <2> HIDE DEF b, n
    <2>3. PICK r \in WriteResults(sock[conn], Len(b)) :
            /\ sock' = [sock EXCEPT ![conn] = AfterWrite(@, b, r[1])]
            /\ wpos' = wpos + r[1]
            /\ WriteReturns(n + r[1], r[2])
      BY <1>14 DEF WriteFinal, b, n
    <2>4. r[1] \in Nat /\ AfterWrite(sock[conn], b, r[1]) \in Sockets
      BY <1>s, <2>1, WriteType
    <2>5. sock' \in [Conns -> Sockets] BY <2>3, <2>4, StoreType
    <2>6. wpos' \in Nat /\ bytes' \in Nat BY <2>2, <2>3, <2>4 DEF TypeOK, WriteReturns
    <2>7. pc' \in [Threads -> PCs] BY <2>3, <1>t, GotoType DEF WriteReturns, PCs
    <2> QED BY <1>14, <2>5, <2>6, <2>7 DEF WriteFinal, TypeOK, flags, dlines
  <1>15. CASE CopyFinal
    <2>1. PICK k \in 1..MaxChunk :
            /\ wend' = wend + k
            /\ \E r \in WriteResults(sock[conn], k) :
                 /\ sock' = [sock EXCEPT ![conn] = AfterWrite(@, Stream(wpos, wpos + k), r[1])]
                 /\ wpos' = wpos + r[1]
                 /\ bytes' = bytes + r[1]
                 /\ Goto("writer", IF r[2] = "nil" THEN "copy" ELSE "closeWriteFlag")
      BY <1>15 DEF CopyFinal
    <2>2. k \in Nat /\ wend' \in Nat BY <2>1 DEF TypeOK
    <2> DEFINE b == Stream(wpos, wpos + k)
    <2>3. b \in Seq(Nat) /\ Len(b) = k
      <3>1. wpos \in Nat /\ wpos + k \in Nat BY <2>2 DEF TypeOK
      <3>2. wpos <= wpos + k /\ (wpos + k) - wpos = k BY <2>2, <3>1
      <3> QED BY <3>1, <3>2, StreamType
    <2> HIDE DEF b
    <2>4. PICK r \in WriteResults(sock[conn], k) :
            /\ sock' = [sock EXCEPT ![conn] = AfterWrite(@, b, r[1])]
            /\ wpos' = wpos + r[1]
            /\ bytes' = bytes + r[1]
            /\ Goto("writer", IF r[2] = "nil" THEN "copy" ELSE "closeWriteFlag")
      BY <2>1 DEF b
    <2>5. r[1] \in Nat /\ AfterWrite(sock[conn], b, r[1]) \in Sockets
      BY <1>s, <2>2, <2>3, WriteType
    <2>6. sock' \in [Conns -> Sockets] BY <2>4, <2>5, StoreType
    <2>7. wpos' \in Nat /\ bytes' \in Nat BY <2>4, <2>5 DEF TypeOK
    <2>8. pc' \in [Threads -> PCs] BY <2>4, <1>t, GotoType DEF PCs, Unlocked
    <2> QED BY <1>15, <2>2, <2>6, <2>7, <2>8 DEF CopyFinal, TypeOK, flags, dlines
  <1>16. CASE Deadlines
    <2>1. PICK d \in {"none", "caller"} : SetReadDeadline(d) \/ SetWriteDeadline(d)
      BY <1>16 DEF Deadlines
    <2>2. sock' \in [Conns -> Sockets]
      BY <1>s, <2>1, SocketType, StoreType DEF SetReadDeadline, SetWriteDeadline, TypeOK
    <2> QED BY <2>1, <2>2 DEF SetReadDeadline, SetWriteDeadline, TypeOK, flags, upload
  <1>17. ASSUME NEW c \in Conns, Peer(c) PROVE TypeOK'
    <2>1. sock' \in [Conns -> Sockets] BY <1>s, <1>17, SocketType DEF Peer, TypeOK
    <2> QED BY <1>17, <2>1 DEF Peer, TypeOK, flags, dlines, upload
  <1>18. CASE UNCHANGED vars
    BY <1>18 DEF vars, TypeOK, flags, dlines, upload
  <1>19. CASE Handshake
    <2>1. pc \in [Threads -> PCs] BY DEF TypeOK
    <2> QED BY <1>19, <2>1, HandshakeTurns DEF TypeOK, flags, dlines, upload
  <1> QED
    BY <1>1, <1>2, <1>3, <1>5, <1>6, <1>7, <1>8, <1>9, <1>10, <1>11, <1>12, <1>13,
       <1>14, <1>15, <1>16, <1>17, <1>18, <1>19, <1>t
    DEF Next, Reader, Writer, Closer

(***************************************************************************)
(* The phases of the retry.                                                *)
(***************************************************************************)
(* DialWithSplitRetry leaves nobody in the retry.                          *)
LEMMA PhaseInit == Init => PhaseInv
  BY DEF Init, PhaseInv, Critical, Unlocked, Retrying, Replaying

(* One step per goroutine: the reader moves through its critical section,  *)
(* and the others move only where the flag or the lock lets them.          *)
LEMMA PhaseNext == TypeOK /\ PhaseInv /\ [Next]_vars => PhaseInv'
  <1> SUFFICES ASSUME TypeOK, PhaseInv, [Next]_vars PROVE PhaseInv' OBVIOUS
  <1>p. pc \in [Threads -> PCs] /\ conn \in {1, 2} BY DEF TypeOK, Conns
  <1>t. "reader" \in Threads /\ "writer" \in Threads /\ "closer" \in Threads BY DEF Threads
  <1> USE DEF PhaseInv, Critical, Unlocked, Retrying, Replaying
  <1>1. CASE Read
    <2>1. PICK e \in ReadResults(sock[conn]) :
            \E to \in IF retryCompleted THEN AfterReturn(e) ELSE {"lock"} :
              Goto("reader", to)
      BY <1>1 DEF Read
    <2> QED BY <1>1, <1>p, <1>t, <2>1 DEF Read, AfterReturn, Goto, flags
  <1>2. CASE ReadLock BY <1>2, <1>p, <1>t DEF ReadLock, Goto, flags
  <1>3. CASE Redial BY <1>3, <1>p, <1>t DEF Redial, Goto, flags
  <1>4. CASE ReplayFirst BY <1>4, <1>p, <1>t DEF ReplayFirst, Replay, Goto, flags
  <1>5. CASE ReplaySecond BY <1>5, <1>p, <1>t DEF ReplaySecond, Replay, Goto, flags
  <1>6. CASE CopyReadClosed BY <1>6, <1>p, <1>t DEF CopyReadClosed, Goto, flags
  <1>7. CASE CopyWriteClosed BY <1>7, <1>p, <1>t DEF CopyWriteClosed, Goto, flags
  <1>8. CASE RetryRead BY <1>8, <1>p, <1>t DEF RetryRead, Goto, flags
  <1>9. CASE Complete BY <1>9, <1>p, <1>t DEF Complete, Goto
  <1>10. CASE Finish BY <1>10, <1>p, <1>t DEF Finish, AfterReturn, Goto, flags
  <1>11. CASE ReadFromLoop \/ NextBuffer \/ SourceEOF \/ WriteCheck \/ WriteLate
    BY <1>11, <1>p, <1>t
    DEF ReadFromLoop, NextBuffer, SourceEOF, WriteCheck, WriteLate, Goto, flags
  <1>12. CASE WriteAwait \/ WriteSync \/ CopyEOF
    BY <1>12, <1>p, <1>t DEF WriteAwait, WriteSync, CopyEOF, Goto, flags
  <1>13. CASE WriteProvisional
    BY <1>13, <1>p, <1>t DEF WriteProvisional, WriteReturns, Goto, flags
  <1>14. CASE WriteFinal
    BY <1>14, <1>p, <1>t DEF WriteFinal, WriteReturns, Goto, flags
  <1>15. CASE CopyFinal BY <1>15, <1>p, <1>t DEF CopyFinal, Goto, flags
  <1>16. ASSUME NEW t \in Threads, Closing(t) PROVE PhaseInv'
    BY <1>16, <1>p, <1>t
    DEF Closing, CloseReadFlag, CloseReadLock, CloseWriteFlag, CloseWriteLock, Goto, flags
  <1>17. CASE Close BY <1>17, <1>p, <1>t DEF Close, Goto, flags
  <1>18. CASE Deadlines
    BY <1>18 DEF Deadlines, SetReadDeadline, SetWriteDeadline, flags
  <1>19. ASSUME NEW c \in Conns, Peer(c) PROVE PhaseInv' BY <1>19 DEF Peer, flags
  <1>20. CASE UNCHANGED vars BY <1>20 DEF vars, flags
  <1>21. CASE Handshake BY <1>21, <1>p, HandshakeTurns DEF flags
  <1> QED
    BY <1>1, <1>2, <1>3, <1>4, <1>5, <1>6, <1>7, <1>8, <1>9, <1>10, <1>11, <1>12,
       <1>13, <1>14, <1>15, <1>16, <1>17, <1>18, <1>19, <1>20, <1>21, <1>t
    DEF Next, Reader, Writer, Closer

(***************************************************************************)
(* The stream.                                                             *)
(***************************************************************************)

(* Appending the next n bytes to a prefix of the stream gives a prefix.    *)
LEMMA PrefixGrows ==
  ASSUME NEW p \in Nat, NEW q \in Nat, NEW n \in Nat, p + n <= q
  PROVE  Stream(0, p) \o SubSeq(Stream(p, q), 1, n) = Stream(0, p + n)
  <1> DEFINE u == Stream(0, p)  v == SubSeq(Stream(p, q), 1, n)  w == Stream(0, p + n)
  <1>1. u \in Seq(Nat) /\ Len(u) = p BY PrefixType
  <1>2. w \in Seq(Nat) /\ Len(w) = p + n
    <2>1. p + n \in Nat OBVIOUS
    <2> QED BY <2>1, PrefixType
  <1>3. \A i \in 1..n : Stream(p, q)[i] = p + i BY DEF Stream
  <1>4. v \in Seq(Nat) /\ Len(v) = n /\ \A i \in 1..n : v[i] = p + i
    <2>1. \A i \in 1..n : Stream(p, q)[i] \in Nat BY <1>3
    <2>2. /\ v \in Seq(Nat) /\ Len(v) = IF 1 <= n THEN n - 1 + 1 ELSE 0
          /\ \A i \in 1..(n - 1 + 1) : v[i] = Stream(p, q)[1 + i - 1]
      BY <2>1, SubSeqProperties
    <2>3. \A i \in 1..n : 1 + i - 1 = i /\ i \in 1..(n - 1 + 1) OBVIOUS
    <2> QED BY <1>3, <2>2, <2>3
  <1>5. u \o v \in Seq(Nat) /\ Len(u \o v) = p + n
    <2> HIDE DEF u, v
    <2> QED BY <1>1, <1>4, ConcatProperties
  <1>6. \A i \in 1..(p + n) : (u \o v)[i] = w[i]
    <2> SUFFICES ASSUME NEW i \in 1..(p + n) PROVE (u \o v)[i] = w[i] OBVIOUS
    <2>1. (u \o v)[i] = IF i <= p THEN u[i] ELSE v[i - p]
      BY <1>1, <1>4, ConcatProperties
    <2>2. w[i] = i BY DEF Stream
    <2>3. i <= p => u[i] = i BY DEF Stream
    <2>4. ~(i <= p) => i - p \in 1..n /\ p + (i - p) = i OBVIOUS
    <2> QED BY <1>4, <2>1, <2>2, <2>3, <2>4
  <1> HIDE DEF u, v, w
  <1>7. u \o v = w
    <2>1. Len(u \o v) = Len(w) /\ \A i \in 1..Len(u \o v) : (u \o v)[i] = w[i]
      BY <1>2, <1>5, <1>6
    <2> QED BY <1>2, <1>5, <2>1, SeqEqual
  <1> QED BY <1>7 DEF u, v, w

(* The two segments of the hello are prefixes too: the first alone, and    *)
(* the first followed by the second.                                       *)
LEMMA FirstSegment ==
  ASSUME NEW p \in Nat, NEW m \in Nat, m <= p
  PROVE  /\ SubSeq(Stream(0, p), 1, m) = Stream(0, m)
         /\ << >> \o SubSeq(Stream(0, p), 1, m) = Stream(0, m)
  <1> DEFINE v == SubSeq(Stream(0, p), 1, m)  w == Stream(0, m)
  <1>1. w \in Seq(Nat) /\ Len(w) = m /\ \A i \in 1..m : w[i] = i BY PrefixType
  <1>2. \A i \in 1..p : Stream(0, p)[i] = i BY PrefixType
  <1>3. \A i \in 1..m : Stream(0, p)[i] \in Nat BY <1>2
  <1>4. /\ v \in Seq(Nat) /\ Len(v) = IF 1 <= m THEN m - 1 + 1 ELSE 0
        /\ \A i \in 1..(m - 1 + 1) : v[i] = Stream(0, p)[1 + i - 1]
    BY <1>3, SubSeqProperties
  <1>5. \A i \in 1..m : 1 + i - 1 = i /\ i \in 1..(m - 1 + 1) /\ i \in 1..p OBVIOUS
  <1>6. Len(v) = m BY <1>4
  <1>7. \A i \in 1..m : v[i] = w[i] BY <1>1, <1>2, <1>4, <1>5
  <1> HIDE DEF v, w
  <1>8. v = w BY <1>1, <1>4, <1>6, <1>7, SeqEqual
  <1>9. << >> \o v = v BY <1>4, ConcatEmptySeq
  <1> QED BY <1>8, <1>9 DEF v, w

(* The rest of the hello, appended to its first segment, completes it.     *)
LEMMA SecondSegment ==
  ASSUME NEW p \in Nat, NEW m \in Nat, m <= p
  PROVE  Stream(0, m) \o SubSeq(Stream(0, p), m + 1, p) = Stream(0, p)
  <1> DEFINE u == Stream(0, m)  v == SubSeq(Stream(0, p), m + 1, p)  w == Stream(0, p)
  <1>1. u \in Seq(Nat) /\ Len(u) = m /\ \A i \in 1..m : u[i] = i BY PrefixType
  <1>2. w \in Seq(Nat) /\ Len(w) = p /\ \A i \in 1..p : w[i] = i BY PrefixType
  <1>3. v \in Seq(Nat) /\ Len(v) = p - m /\ \A i \in 1..(p - m) : v[i] = m + i
    <2>1. \A i \in (m + 1)..p : w[i] = i /\ i \in Nat BY <1>2
    <2>2. \A i \in (m + 1)..p : w[i] \in Nat BY <2>1
    <2>3. m + 1 \in Int /\ p \in Int OBVIOUS
    <2>4. /\ v \in Seq(Nat) /\ Len(v) = IF m + 1 <= p THEN p - (m + 1) + 1 ELSE 0
          /\ \A i \in 1..(p - (m + 1) + 1) : v[i] = w[m + 1 + i - 1]
      BY <2>2, <2>3, SubSeqProperties
    <2>5. \A i \in 1..(p - m) : /\ m + 1 + i - 1 = m + i
                                /\ i \in 1..(p - (m + 1) + 1) /\ m + i \in (m + 1)..p
      OBVIOUS
    <2>6. Len(v) = p - m BY <2>4
    <2> QED BY <2>1, <2>4, <2>5, <2>6
  <1> HIDE DEF u, v, w
  <1>4. u \o v \in Seq(Nat) /\ Len(u \o v) = p
    <2>1. u \o v \in Seq(Nat) /\ Len(u \o v) = Len(u) + Len(v)
      BY <1>1, <1>3, ConcatProperties
    <2> QED BY <1>1, <1>3, <2>1
  <1>5. \A i \in 1..p : (u \o v)[i] = w[i]
    <2> SUFFICES ASSUME NEW i \in 1..p PROVE (u \o v)[i] = w[i] OBVIOUS
    <2>1. i \in 1..(Len(u) + Len(v)) BY <1>1, <1>3
    <2>2. (u \o v)[i] = IF i <= m THEN u[i] ELSE v[i - m]
      BY <1>1, <1>3, <2>1, ConcatProperties
    <2>3. ~(i <= m) => i - m \in 1..(p - m) /\ m + (i - m) = i OBVIOUS
    <2> QED BY <1>1, <1>2, <1>3, <2>2, <2>3
  <1>6. u \o v = w BY <1>2, <1>4, <1>5, SeqEqual
  <1> QED BY <1>6 DEF u, v, w

(* Only writes add to what a socket has sent, and no operation revives a   *)
(* dead socket.                                                            *)
Keeps(s, t) == t.sent = s.sent /\ (Healthy(t) => Healthy(s))

(* The closes, deadlines and reads, and what the peer does, keep it.       *)
LEMMA OperationsKeep ==
  ASSUME NEW s \in Sockets
  PROVE  /\ Keeps(s, Closed(s)) /\ Keeps(s, ShutRead(s)) /\ Keeps(s, ShutWrite(s))
         /\ Keeps(s, PeerData(s)) /\ Keeps(s, PeerRst(s))
         /\ s.peer = "up" => Keeps(s, PeerFin(s))
         /\ \A e : Keeps(s, AfterRead(s, e))
         /\ \A d : Keeps(s, ReadDeadline(s, d)) /\ Keeps(s, WriteDeadline(s, d))
  <1>1. Keeps(s, Closed(s)) BY DEF Keeps, Closed, Unused, Healthy
  <1>2. Keeps(s, ShutRead(s)) /\ Keeps(s, ShutWrite(s))
    BY DEF Keeps, ShutRead, ShutWrite, Healthy, Sockets
  <1>3. Keeps(s, PeerData(s)) /\ Keeps(s, PeerRst(s))
    BY DEF Keeps, PeerData, PeerRst, Healthy, Sockets
  <1>4. s.peer = "up" => Keeps(s, PeerFin(s)) BY DEF Keeps, PeerFin, Healthy, Sockets
  <1>5. \A e : Keeps(s, AfterRead(s, e)) BY DEF Keeps, AfterRead, Healthy, Sockets
  <1>6. \A d : Keeps(s, ReadDeadline(s, d)) /\ Keeps(s, WriteDeadline(s, d))
    BY DEF Keeps, ReadDeadline, WriteDeadline, Healthy, Sockets
  <1> QED BY <1>1, <1>2, <1>3, <1>4, <1>5, <1>6

(* Writing the next n bytes of the stream to a socket that has all before  *)
(* them, or is dead.                                                       *)
LEMMA WriteKeepsPrefix ==
  ASSUME NEW s \in Sockets, s.sent = Stream(0, Len(s.sent)),
         NEW p \in Nat, Healthy(s) => Len(s.sent) = p,
         NEW q \in Nat, NEW n \in Nat, p + n <= q,
         NEW t, t = AfterWrite(s, Stream(p, q), n)
  PROVE  /\ t.sent = Stream(0, Len(t.sent))
         /\ Healthy(t) => Healthy(s) /\ Len(t.sent) = p + n
  <1>1. CASE Healthy(s)
    <2>1. t.sent = s.sent \o SubSeq(Stream(p, q), 1, n) BY <1>1 DEF AfterWrite, Sockets
    <2>2. s.sent = Stream(0, p) BY <1>1
    <2>3. t.sent = Stream(0, p + n) BY <2>1, <2>2, PrefixGrows
    <2>4. p + n \in Nat OBVIOUS
    <2>5. Len(t.sent) = p + n BY <2>3, <2>4, PrefixType
    <2> QED BY <1>1, <2>3, <2>5
  <1>2. CASE ~Healthy(s) BY <1>2 DEF AfterWrite
  <1> QED BY <1>1, <1>2

(* A step that changes sockets only by operations that keep what was sent, *)
(* and nothing else that SentInv speaks of.                                *)
LEMMA SentKept ==
  ASSUME TypeOK, SentInv, conn' = conn, wpos' = wpos, split' = split,
         sock' \in [Conns -> Sockets], \A c \in Conns : Keeps(sock[c], sock'[c]),
         /\ pc'["reader"] = "first" <=> pc["reader"] = "first"
         /\ pc'["reader"] = "second" <=> pc["reader"] = "second"
  PROVE  SentInv'
  BY DEF TypeOK, SentInv, Keeps

(* A retrier just dialled has sent nothing and replays nothing.            *)
LEMMA StreamInit == Init => StreamInv
  <1> SUFFICES ASSUME Init PROVE StreamInv OBVIOUS
  <1>1. PhaseInv BY PhaseInit
  <1>2. Stream(0, 0) = << >> /\ Len(<< >>) = 0
    <2>1. Stream(0, 0) \in Seq(Nat) /\ Len(Stream(0, 0)) = 0 BY PrefixType
    <2> QED BY <2>1
  <1>3. \A c \in Conns : sock[c].sent = << >> BY DEF Init, Dialed, Unused
  <1>4. ReplayInv BY <1>2 DEF Init, ReplayInv, Replaying, Conns
  <1>5. SentInv BY <1>2, <1>3 DEF Init, SentInv, Conns
  <1> QED BY <1>1, <1>4, <1>5 DEF StreamInv

(* splitHello cuts within the hello.                                       *)
LEMMA SplitWithin ==
  ASSUME NEW m \in Nat, NEW n \in SplitPoints(m)
  PROVE  n \in Nat /\ n <= m
  BY RetrierAssumption DEF SplitPoints

(* What the replay relies on survives every step.                          *)
LEMMA ReplayNext == TypeOK /\ StreamInv /\ [Next]_vars => ReplayInv'
  <1> SUFFICES ASSUME TypeOK, StreamInv, [Next]_vars PROVE ReplayInv' OBVIOUS
  <1>i. PhaseInv /\ ReplayInv BY DEF StreamInv
  <1>p. /\ pc \in [Threads -> PCs] /\ conn \in {1, 2} /\ 2 \in Conns /\ 1 \in Conns
        /\ sock \in [Conns -> Sockets] /\ wpos \in Nat /\ wend \in Nat
    BY DEF TypeOK, Conns
  <1>t. "reader" \in Threads /\ "writer" \in Threads /\ "closer" \in Threads BY DEF Threads
  <1>1. CASE Read
    <2>1. PICK e \in ReadResults(sock[conn]) :
            /\ sock' = [sock EXCEPT ![conn] = AfterRead(@, e)]
            /\ \E to \in IF retryCompleted THEN AfterReturn(e) ELSE {"lock"} :
                 Goto("reader", to)
      BY <1>1 DEF Read
    <2>2. pc'["reader"] \notin Replaying
      BY <1>p, <1>t, <2>1 DEF AfterReturn, Goto, Replaying
    <2> QED BY <1>1, <1>i, <1>p, <2>1, <2>2 DEF Read, ReplayInv, Replaying, flags, upload
  <1>2. CASE ReadLock
    BY <1>2, <1>i, <1>p, <1>t DEF ReadLock, ReplayInv, Replaying, Goto, flags, upload
  <1>3. CASE Redial
    <2>1. conn = 1 /\ hello = Stream(0, wpos)
      BY <1>3, <1>i DEF Redial, PhaseInv, ReplayInv, Critical
    <2>2. CASE conn' = conn
      BY <1>3, <1>i, <1>p, <1>t, <2>1, <2>2
      DEF Redial, ReplayInv, Replaying, Goto, flags, upload
    <2>3. CASE conn' = conn + 1
      <3>1. /\ sock' = [sock EXCEPT ![conn] = Closed(@), ![conn + 1] = Dialed]
            /\ split' \in SplitPoints(Len(hello))
        BY <1>3, <1>p, <2>1, <2>3 DEF Redial
      <3>2. split' <= wpos BY <1>p, <2>1, <3>1, PrefixType, SplitWithin
      <3>3. sock'[2] = Dialed BY <1>p, <2>1, <3>1
      <3> QED BY <1>3, <1>i, <2>1, <2>3, <3>2, <3>3
          DEF Redial, ReplayInv, Dialed, Unused, flags, upload
    <2> QED BY <1>3, <2>2, <2>3 DEF Redial
  <1>4. CASE ReplayFirst \/ ReplaySecond
    <2>1. conn = 2 BY <1>4, <1>i DEF ReplayFirst, ReplaySecond, PhaseInv, Retrying, Replaying
    <2>2. PICK b, n : sock' = [sock EXCEPT ![conn] = AfterWrite(@, b, n)]
      BY <1>4 DEF ReplayFirst, ReplaySecond, Replay
    <2>3. /\ sock'[2].state = sock[2].state /\ sock'[2].wrShut = sock[2].wrShut
          /\ sock'[2].wdl = sock[2].wdl
      BY <1>p, <2>1, <2>2 DEF AfterWrite, Sockets
    <2>4. pc'["reader"] # "first" /\ pc["reader"] \in Replaying
      BY <1>4, <1>p, <1>t DEF ReplayFirst, ReplaySecond, Replay, Goto, Replaying
    <2> QED BY <1>4, <1>i, <2>1, <2>3, <2>4
        DEF ReplayFirst, ReplaySecond, Replay, ReplayInv, flags, upload
  <1>5. CASE CopyReadClosed \/ CopyWriteClosed \/ RetryRead \/ Finish
    <2>1. pc'["reader"] \notin Replaying
      BY <1>5, <1>p, <1>t
      DEF CopyReadClosed, CopyWriteClosed, RetryRead, Finish, AfterReturn, Goto, Replaying
    <2>2. conn = 1 => sock'[2] = sock[2]
      BY <1>5, <1>p DEF CopyReadClosed, CopyWriteClosed, RetryRead, Finish
    <2>3. retryCompleted' = retryCompleted /\ (pc["reader"] = "finish" => retryCompleted)
      BY <1>5, <1>i
      DEF CopyReadClosed, CopyWriteClosed, RetryRead, Finish, PhaseInv, flags
    <2> QED BY <1>5, <1>i, <2>1, <2>2, <2>3
        DEF CopyReadClosed, CopyWriteClosed, RetryRead, Finish, ReplayInv, Replaying, upload
  <1>6. CASE Complete
    BY <1>6, <1>i, <1>p, <1>t DEF Complete, ReplayInv, Replaying, Goto, upload
  <1>7. CASE ReadFromLoop \/ SourceEOF \/ WriteCheck \/ WriteLate \/ WriteAwait
             \/ WriteSync \/ CopyEOF \/ Close
    BY <1>7, <1>i, <1>p, <1>t
    DEF ReadFromLoop, SourceEOF, WriteCheck, WriteLate, WriteAwait, WriteSync, CopyEOF,
        Close, ReplayInv, Replaying, Goto, flags, upload
  <1>8. CASE NextBuffer
    BY <1>8, <1>i, <1>p, <1>t DEF NextBuffer, ReplayInv, Replaying, Goto, flags
  <1>9. CASE WriteProvisional
    <2>1. pc["reader"] \notin Replaying /\ conn = 1
      BY <1>9, <1>i, <1>p DEF WriteProvisional, Provisional, PhaseInv, Critical, Retrying, Replaying
    <2>2. pc'["reader"] = pc["reader"]
      BY <1>9, <1>p, <1>t DEF WriteProvisional, WriteReturns, Goto
    <2>3. Len(Stream(wpos, wend)) = wend - wpos BY <1>i, <1>p, StreamType DEF ReplayInv
    <2>4. PICK r \in WriteResults(sock[conn], Len(Stream(wpos, wend))) :
            /\ sock' = [sock EXCEPT ![conn] = Arm(AfterWrite(@, Stream(wpos, wend), r[1]), r[2])]
            /\ hello' = hello \o SubSeq(Stream(wpos, wend), 1, r[1])
            /\ wpos' = wpos + r[1]
      BY <1>9 DEF WriteProvisional
    <2>5. r[1] \in Nat /\ wpos + r[1] <= wend BY <1>i, <1>p, <2>3 DEF WriteResults, ReplayInv
    <2>6. hello = Stream(0, wpos) BY <1>9, <1>i DEF WriteProvisional, Provisional, ReplayInv
    <2>7. hello' = Stream(0, wpos') BY <1>p, <2>4, <2>5, <2>6, PrefixGrows
    <2>8. sock'[2] = sock[2] BY <1>p, <2>1, <2>4
    <2> QED BY <1>9, <1>i, <2>1, <2>2, <2>4, <2>5, <2>7, <2>8
        DEF WriteProvisional, ReplayInv, Replaying, flags
  <1>10. CASE WriteFinal \/ CopyFinal
    <2>1. retryCompleted /\ pc["reader"] \notin Replaying
      BY <1>10, <1>i DEF WriteFinal, CopyFinal, PhaseInv, Unlocked, Critical, Replaying
    <2>2. pc'["reader"] = pc["reader"]
      BY <1>10, <1>p, <1>t DEF WriteFinal, CopyFinal, WriteReturns, Goto
    <2>3. conn = 1 => sock'[2] = sock[2] BY <1>10, <1>p DEF WriteFinal, CopyFinal
    <2>4. wpos' <= wend'
      <3>1. CASE WriteFinal
        <4>1. Len(Stream(wpos, wend)) = wend - wpos BY <1>i, <1>p, StreamType DEF ReplayInv
        <4>2. PICK r \in WriteResults(sock[conn], Len(Stream(wpos, wend))) :
                wpos' = wpos + r[1]
          BY <3>1 DEF WriteFinal
        <4>3. r[1] \in 0..Len(Stream(wpos, wend)) BY DEF WriteResults
        <4> QED BY <1>i, <1>p, <3>1, <4>1, <4>2, <4>3 DEF WriteFinal, ReplayInv
      <3>2. CASE CopyFinal
        <4>1. PICK k \in 1..MaxChunk :
                /\ wend' = wend + k
                /\ \E r \in WriteResults(sock[conn], k) : wpos' = wpos + r[1]
          BY <3>2 DEF CopyFinal
        <4>2. PICK r \in WriteResults(sock[conn], k) : wpos' = wpos + r[1] BY <4>1
        <4>3. r[1] \in 0..k BY DEF WriteResults
        <4> QED BY <1>i, <1>p, <4>1, <4>2, <4>3, RetrierAssumption DEF ReplayInv
      <3> QED BY <1>10, <3>1, <3>2
    <2> QED BY <1>10, <1>i, <2>1, <2>2, <2>3, <2>4
        DEF WriteFinal, CopyFinal, ReplayInv, Replaying, flags
  <1>11. ASSUME NEW t \in Threads, Closing(t) PROVE ReplayInv'
    <2>1. pc'["reader"] \notin Replaying \/ pc'["reader"] = pc["reader"]
      BY <1>11, <1>p, <1>t DEF Closing, CloseReadFlag, CloseReadLock, CloseWriteFlag,
                              CloseWriteLock, Goto, Replaying
    <2>2. sock' = sock \/ (mutex = "free" /\ (conn = 1 => sock'[2] = sock[2]))
      BY <1>11, <1>p
      DEF Closing, CloseReadFlag, CloseReadLock, CloseWriteFlag, CloseWriteLock
    <2>3. mutex = "free" => pc["reader"] \notin Replaying
      BY <1>i DEF PhaseInv, Critical, Replaying
    <2>4. /\ UNCHANGED <<conn, hello, retryCompleted, split, wpos, wend>>
      BY <1>11 DEF Closing, CloseReadFlag, CloseReadLock, CloseWriteFlag,
                   CloseWriteLock, flags, upload
    <2> QED BY <1>i, <2>1, <2>2, <2>3, <2>4 DEF ReplayInv, Replaying
  <1>12. CASE Deadlines
    <2>1. mutex = "free" /\ (conn = 1 => sock'[2] = sock[2])
      BY <1>12, <1>p DEF Deadlines, SetReadDeadline, SetWriteDeadline
    <2>2. pc["reader"] \notin Replaying BY <1>i, <2>1 DEF PhaseInv, Critical, Replaying
    <2> QED BY <1>12, <1>i, <2>1, <2>2
        DEF Deadlines, SetReadDeadline, SetWriteDeadline, ReplayInv, Replaying, flags, upload
  <1>13. ASSUME NEW c \in Conns, Peer(c) PROVE ReplayInv'
    <2>0. \/ sock' = [sock EXCEPT ![c] = PeerData(sock[c])]
          \/ sock' = [sock EXCEPT ![c] = PeerFin(sock[c])]
          \/ sock' = [sock EXCEPT ![c] = PeerRst(sock[c])]
      BY <1>13, <1>p DEF Peer
    <2>1. sock[2] = Unused => sock'[2] = sock[2]
      <3>1. sock[2] = Unused => c # 2 BY <1>13 DEF Peer, Unused
      <3> QED BY <1>p, <2>0, <3>1
    <2>2. /\ sock'[2].state = sock[2].state /\ sock'[2].wrShut = sock[2].wrShut
          /\ sock'[2].wdl = sock[2].wdl /\ sock'[2].sent = sock[2].sent
      <3>1. CASE c = 2 BY <1>p, <2>0, <3>1 DEF PeerData, PeerFin, PeerRst, Sockets
      <3>2. CASE c # 2 BY <1>p, <2>0, <3>2
      <3> QED BY <3>1, <3>2
    <2> QED BY <1>13, <1>i, <2>1, <2>2 DEF Peer, ReplayInv, flags, upload
  <1>14. CASE UNCHANGED vars BY <1>14, <1>i DEF vars, ReplayInv, flags, upload
  <1>15. CASE Handshake
    BY <1>15, <1>i, <1>p, HandshakeTurns DEF ReplayInv, Replaying, flags, upload
  <1> QED
    BY <1>1, <1>2, <1>3, <1>4, <1>5, <1>6, <1>7, <1>8, <1>9, <1>10, <1>11, <1>12,
       <1>13, <1>14, <1>15, <1>t
    DEF Next, Reader, Writer, Closer

(* A replay on a healthy new socket writes the whole segment: nothing can  *)
(* time out or be refused there.                                           *)
LEMMA WholeSegment ==
  ASSUME NEW s \in Sockets, Healthy(s), ~s.wrShut, s.wdl = "none",
         NEW b \in Seq(Nat), NEW r \in WriteResults(s, Len(b))
  PROVE  r[2] = "nil" /\ AfterWrite(s, b, r[1]).sent = s.sent \o b
  <1>1. r[1] = Len(b) /\ r[2] = "nil" BY DEF WriteResults, Healthy
  <1>2. SubSeq(b, 1, Len(b)) = b
    <2> DEFINE v == SubSeq(b, 1, Len(b))
    <2>1. Len(b) \in Nat /\ \A i \in 1..Len(b) : b[i] \in Nat BY LenProperties
    <2>2. /\ v \in Seq(Nat) /\ Len(v) = IF 1 <= Len(b) THEN Len(b) - 1 + 1 ELSE 0
          /\ \A i \in 1..(Len(b) - 1 + 1) : v[i] = b[1 + i - 1]
      BY <2>1, SubSeqProperties
    <2>3. Len(v) = Len(b) BY <2>1, <2>2
    <2>4. \A i \in 1..Len(v) : v[i] = b[i]
      <3>1. \A i \in 1..Len(b) : 1 + i - 1 = i /\ i \in 1..(Len(b) - 1 + 1) BY <2>1
      <3> QED BY <2>2, <2>3, <3>1
    <2> HIDE DEF v
    <2>5. v = b BY <2>2, <2>3, <2>4, SeqEqual
    <2> QED BY <2>5 DEF v
  <1>3. AfterWrite(s, b, Len(b)).sent = s.sent \o SubSeq(b, 1, Len(b))
    BY DEF AfterWrite, Sockets
  <1> QED BY <1>1, <1>2, <1>3

(* SentInv survives every step.                                            *)
LEMMA SentNext == TypeOK /\ TypeOK' /\ StreamInv /\ [Next]_vars => SentInv'
  <1> SUFFICES ASSUME TypeOK, TypeOK', StreamInv, [Next]_vars PROVE SentInv' OBVIOUS
  <1>i. PhaseInv /\ ReplayInv /\ SentInv BY DEF StreamInv
  <1>p. /\ pc \in [Threads -> PCs] /\ conn \in {1, 2} /\ 2 \in Conns /\ 1 \in Conns
        /\ sock \in [Conns -> Sockets] /\ wpos \in Nat /\ wend \in Nat
        /\ sock' \in [Conns -> Sockets] /\ split \in Nat /\ conn \in Conns
    BY DEF TypeOK, Conns
  <1>t. "reader" \in Threads /\ "writer" \in Threads /\ "closer" \in Threads BY DEF Threads
  <1>k. \A c \in Conns : Keeps(sock[c], sock[c]) BY DEF Keeps, Healthy
  <1>o. ASSUME NEW s \in Sockets, sock' = [sock EXCEPT ![conn] = s], Keeps(sock[conn], s)
        PROVE  \A c \in Conns : Keeps(sock[c], sock'[c])
    BY <1>o, <1>p, <1>k
  <1>1. CASE Read \/ RetryRead
    <2>1. PICK e \in Errors : sock' = [sock EXCEPT ![conn] = AfterRead(sock[conn], e)]
      BY <1>1, <1>p DEF Read, RetryRead, ReadResults
    <2>2. Keeps(sock[conn], AfterRead(sock[conn], e)) BY <1>p, OperationsKeep
    <2>3. AfterRead(sock[conn], e) \in Sockets BY <1>p, SocketType
    <2>4. \A c \in Conns : Keeps(sock[c], sock'[c]) BY <1>o, <2>1, <2>2, <2>3
    <2>5. /\ pc["reader"] \notin Replaying /\ pc'["reader"] \notin Replaying
      BY <1>1, <1>p, <1>t DEF Read, RetryRead, AfterReturn, Goto, Replaying
    <2> QED BY <1>1, <1>i, <1>p, <2>4, <2>5, SentKept DEF Read, RetryRead, Replaying, upload
  <1>2. CASE ReadLock \/ Complete
    BY <1>2, <1>i, <1>p, <1>t, <1>k, SentKept DEF ReadLock, Complete, Goto, upload
  <1>3. CASE Redial
    <2>1. conn = 1 /\ pc["reader"] = "redial" BY <1>3, <1>i DEF Redial, PhaseInv
    <2>2. Keeps(sock[1], Closed(sock[1])) /\ Closed(sock[1]) \in Sockets
      BY <1>p, OperationsKeep, SocketType
    <2>3. CASE conn' = conn
      <3>1. sock' = [sock EXCEPT ![conn] = Closed(sock[conn])]
        BY <1>3, <1>p, <2>1, <2>3 DEF Redial
      <3>2. \A c \in Conns : Keeps(sock[c], sock'[c]) BY <1>o, <2>1, <2>2, <3>1
      <3>3. pc'["reader"] = "complete" /\ split' = split
        BY <1>3, <1>p, <1>t, <2>1, <2>3 DEF Redial, Goto
      <3> QED BY <1>3, <1>i, <1>p, <2>1, <2>3, <3>2, <3>3, SentKept DEF Redial, upload
    <2>4. CASE conn' = conn + 1
      <3>1. /\ sock' = [sock EXCEPT ![conn] = Closed(@), ![conn + 1] = Dialed]
            /\ pc'["reader"] = "first"
        BY <1>3, <1>p, <1>t, <2>1, <2>4 DEF Redial, Goto
      <3>2. sock'[1].sent = sock[1].sent /\ sock'[2].sent = << >>
        BY <1>p, <2>1, <2>2, <3>1 DEF Keeps, Dialed, Unused
      <3>3. << >> = Stream(0, 0) /\ Len(<< >>) = 0
        <4>1. Stream(0, 0) \in Seq(Nat) /\ Len(Stream(0, 0)) = 0 BY PrefixType
        <4> QED BY <4>1
      <3>4. \A c \in Conns : c = 1 \/ c = 2 BY DEF Conns
      <3> QED BY <1>i, <1>p, <2>1, <2>4, <3>1, <3>2, <3>3, <3>4 DEF SentInv
    <2> QED BY <1>3, <2>3, <2>4 DEF Redial
  <1>4. CASE ReplayFirst \/ ReplaySecond
    <2>1. /\ conn = 2 /\ hello = Stream(0, wpos) /\ split <= wpos
          /\ ~sock[2].wrShut /\ sock[2].wdl = "none" /\ Len(hello) = wpos
      <3>1. conn = 2 /\ ~retryCompleted /\ pc["reader"] \in Replaying
        BY <1>4, <1>i
        DEF ReplayFirst, ReplaySecond, PhaseInv, Critical, Retrying, Replaying
      <3> QED BY <1>i, <1>p, <3>1, PrefixType DEF ReplayInv
    <2>2. CASE ~Healthy(sock[2])
      <3>1. sock'[2] = sock[2] /\ sock'[1] = sock[1]
        BY <1>4, <1>p, <2>1, <2>2 DEF ReplayFirst, ReplaySecond, Replay, AfterWrite
      <3>2. conn' = conn BY <1>4 DEF ReplayFirst, ReplaySecond, Replay
      <3>3. \A c \in Conns : c = 1 \/ c = 2 BY DEF Conns
      <3> QED BY <1>i, <2>1, <2>2, <3>1, <3>2, <3>3 DEF SentInv
    <2>3. ASSUME Healthy(sock[2]), NEW b \in Seq(Nat), NEW next, Replay(b, next),
                 NEW m \in Nat, sock[2].sent \o b = Stream(0, m),
                 next = "second" => m = split, next # "second" => m = wpos /\ next = "copyRead"
          PROVE  SentInv'
      <3>1. PICK r \in WriteResults(sock[conn], Len(b)) :
              /\ sock' = [sock EXCEPT ![conn] = AfterWrite(sock[conn], b, r[1])]
              /\ Goto("reader", IF r[2] = "nil" THEN next ELSE "complete")
        BY <2>3, <1>p DEF Replay
      <3>2. r[2] = "nil" /\ AfterWrite(sock[2], b, r[1]).sent = Stream(0, m)
        BY <1>p, <2>1, <2>3, WholeSegment
      <3>3. sock'[2].sent = Stream(0, m) /\ Len(sock'[2].sent) = m
        BY <1>p, <2>1, <3>1, <3>2, PrefixType
      <3>4. sock'[1] = sock[1] BY <1>p, <2>1, <3>1
      <3>5. pc'["reader"] = next BY <1>p, <1>t, <3>1, <3>2 DEF Goto
      <3>6. conn' = 2 /\ wpos' = wpos /\ split' = split BY <2>1, <2>3 DEF Replay, upload
      <3>7. \A c \in Conns : c = 1 \/ c = 2 BY DEF Conns
      <3> QED BY <1>i, <2>3, <3>3, <3>4, <3>5, <3>6, <3>7 DEF SentInv
    <2>4. CASE Healthy(sock[2]) /\ ReplayFirst
      <3>1. sock[2].sent = << >> BY <1>i, <2>4 DEF ReplayFirst, ReplayInv
      <3>2. /\ SubSeq(hello, 1, split) \in Seq(Nat)
            /\ sock[2].sent \o SubSeq(hello, 1, split) = Stream(0, split)
        BY <1>p, <2>1, <3>1, FirstSegment, PrefixType
      <3> QED BY <1>p, <2>3, <2>4, <3>2 DEF ReplayFirst
    <2>5. CASE Healthy(sock[2]) /\ ReplaySecond
      <3>1. sock[2].sent = Stream(0, split)
        BY <1>i, <1>p, <2>1, <2>5 DEF ReplaySecond, SentInv
      <3>2. sock[2].sent \o SubSeq(hello, split + 1, Len(hello)) = Stream(0, wpos)
        BY <1>p, <2>1, <3>1, SecondSegment
      <3>3. SubSeq(hello, split + 1, Len(hello)) \in Seq(Nat)
        <4>1. \A i \in 1..wpos : hello[i] \in Nat
          <5>1. \A i \in 1..wpos : Stream(0, wpos)[i] = i BY <1>p, PrefixType
          <5> QED BY <1>p, <2>1, <5>1
        <4>2. \A i \in (split + 1)..wpos : i \in 1..wpos BY <1>p
        <4>3. \A i \in (split + 1)..wpos : hello[i] \in Nat BY <4>1, <4>2
        <4>4. split + 1 \in Int /\ wpos \in Int BY <1>p
        <4>5. SubSeq(hello, split + 1, wpos) \in Seq(Nat) BY <4>3, <4>4, SubSeqProperties
        <4> QED BY <2>1, <4>5
      <3> DEFINE b == SubSeq(hello, split + 1, Len(hello))
      <3>4. Replay(b, "copyRead") BY <2>5 DEF ReplaySecond
      <3> HIDE DEF b
      <3>5. b \in Seq(Nat) /\ sock[2].sent \o b = Stream(0, wpos) BY <3>2, <3>3 DEF b
      <3> QED BY <1>p, <2>3, <2>5, <3>4, <3>5
    <2> QED BY <1>4, <2>2, <2>4, <2>5
  <1>5. CASE CopyReadClosed \/ CopyWriteClosed \/ Finish
    <2>1. PICK s \in Sockets : sock' = [sock EXCEPT ![conn] = s] /\ Keeps(sock[conn], s)
      <3>1. CASE CopyReadClosed
        BY <1>p, <1>k, <3>1, OperationsKeep, SocketType DEF CopyReadClosed
      <3>2. CASE Finish BY <1>p, <3>2, OperationsKeep, SocketType DEF Finish
      <3>3. CASE CopyWriteClosed
        <4> DEFINE s1 == CopyClose(sock[conn])
                   s2 == ReadDeadline(s1, readDeadline)
                   s3 == WriteDeadline(s2, writeDeadline)
        <4>1. s1 \in Sockets /\ Keeps(sock[conn], s1)
          BY <1>p, <1>k, OperationsKeep, SocketType DEF CopyClose
        <4> HIDE DEF s1
        <4>2. s2 \in Sockets /\ Keeps(s1, s2)
          BY <4>1, OperationsKeep, SocketType DEF TypeOK
        <4> HIDE DEF s2
        <4>3. s3 \in Sockets /\ Keeps(s2, s3)
          BY <4>2, OperationsKeep, SocketType DEF TypeOK
        <4>4. sock' = [sock EXCEPT ![conn] = s3]
          BY <1>p, <3>3 DEF CopyWriteClosed, Reapply, s1, s2
        <4> HIDE DEF s3
        <4>5. Keeps(sock[conn], s3) BY <4>1, <4>2, <4>3 DEF Keeps
        <4> QED BY <4>3, <4>4, <4>5
      <3> QED BY <1>5, <3>1, <3>2, <3>3
    <2>2. \A c \in Conns : Keeps(sock[c], sock'[c]) BY <1>o, <2>1
    <2>3. pc["reader"] \notin Replaying /\ pc'["reader"] \notin Replaying
      BY <1>5, <1>p, <1>t
      DEF CopyReadClosed, CopyWriteClosed, Finish, AfterReturn, Goto, Replaying
    <2> QED BY <1>5, <1>i, <1>p, <2>2, <2>3, SentKept
        DEF CopyReadClosed, CopyWriteClosed, Finish, Replaying, upload
  <1>6. CASE ReadFromLoop \/ NextBuffer \/ SourceEOF \/ WriteCheck \/ WriteLate
             \/ WriteAwait \/ WriteSync \/ CopyEOF \/ Close
    <2>1. sock' = sock /\ conn' = conn /\ wpos' = wpos /\ split' = split
      BY <1>6 DEF ReadFromLoop, NextBuffer, SourceEOF, WriteCheck, WriteLate, WriteAwait,
                  WriteSync, CopyEOF, Close, upload
    <2>2. pc'["reader"] = pc["reader"]
      BY <1>6, <1>p, <1>t
      DEF ReadFromLoop, NextBuffer, SourceEOF, WriteCheck, WriteLate, WriteAwait,
          WriteSync, CopyEOF, Close, Goto
    <2> QED BY <1>i, <1>p, <1>k, <2>1, <2>2, SentKept
  <1>7. ASSUME NEW q \in Nat, NEW n \in Nat, wpos + n <= q,
               pc["reader"] \notin Replaying, pc'["reader"] = pc["reader"],
               NEW t \in Sockets, Keeps(AfterWrite(sock[conn], Stream(wpos, q), n), t),
               sock' = [sock EXCEPT ![conn] = t], conn' = conn, wpos' = wpos + n
        PROVE  SentInv'
    <2> DEFINE u == AfterWrite(sock[conn], Stream(wpos, q), n)
    <2>1. Healthy(sock[conn]) => Len(sock[conn].sent) = wpos
      BY <1>i, <1>7 DEF SentInv, Replaying
    <2>2. sock[conn].sent = Stream(0, Len(sock[conn].sent)) BY <1>i, <1>p DEF SentInv
    <2>3. /\ u.sent = Stream(0, Len(u.sent))
          /\ Healthy(u) => Healthy(sock[conn]) /\ Len(u.sent) = wpos + n
      BY <1>p, <1>7, <2>1, <2>2, WriteKeepsPrefix
    <2> HIDE DEF u
    <2>4. /\ t.sent = Stream(0, Len(t.sent))
          /\ Healthy(t) => Len(t.sent) = wpos + n
      BY <1>7, <2>3 DEF Keeps, u
    <2>5. sock'[conn] = t /\ \A c \in Conns : c # conn => sock'[c] = sock[c]
      BY <1>p, <1>7
    <2> QED BY <1>i, <1>p, <1>7, <2>4, <2>5 DEF SentInv, Replaying
  <1>8. CASE WriteProvisional
    <2>1. pc["reader"] \notin Replaying
      BY <1>8, <1>i DEF WriteProvisional, PhaseInv, Critical, Replaying
    <2>2. pc'["reader"] = pc["reader"]
      BY <1>8, <1>p, <1>t DEF WriteProvisional, WriteReturns, Goto
    <2> DEFINE b == Stream(wpos, wend)
    <2>3. b \in Seq(Nat) /\ Len(b) = wend - wpos /\ Len(b) \in Nat
      BY <1>i, <1>p, StreamType DEF ReplayInv
    <2>4. PICK r \in WriteResults(sock[conn], Len(b)) :
            /\ sock' = [sock EXCEPT ![conn] = Arm(AfterWrite(sock[conn], b, r[1]), r[2])]
            /\ wpos' = wpos + r[1]
      BY <1>8, <1>p DEF WriteProvisional
    <2>5. r[1] \in Nat /\ wpos + r[1] <= wend BY <1>i, <1>p, <2>3 DEF WriteResults, ReplayInv
    <2>6. AfterWrite(sock[conn], b, r[1]) \in Sockets
      <3> HIDE DEF b
      <3> QED BY <1>p, <2>3, WriteType
    <2>7. /\ Arm(AfterWrite(sock[conn], b, r[1]), r[2]) \in Sockets
          /\ Keeps(AfterWrite(sock[conn], b, r[1]), Arm(AfterWrite(sock[conn], b, r[1]), r[2]))
      <3> HIDE DEF b
      <3> QED BY <2>6, OperationsKeep, SocketType DEF Arm
    <2>8. conn' = conn BY <1>8 DEF WriteProvisional
    <2> QED BY <1>7, <1>p, <2>1, <2>2, <2>4, <2>5, <2>7, <2>8
  <1>9. CASE WriteFinal \/ CopyFinal
    <2>1. pc["reader"] \notin Replaying
      BY <1>9, <1>i DEF WriteFinal, CopyFinal, PhaseInv, Unlocked, Critical, Replaying
    <2>2. pc'["reader"] = pc["reader"] /\ conn' = conn
      BY <1>9, <1>p, <1>t DEF WriteFinal, CopyFinal, WriteReturns, Goto
    <2>3. \E q \in Nat, m \in Nat : \E r \in WriteResults(sock[conn], m) :
            /\ m = q - wpos
            /\ sock' = [sock EXCEPT ![conn] = AfterWrite(sock[conn], Stream(wpos, q), r[1])]
            /\ wpos' = wpos + r[1]
      <3>1. CASE WriteFinal
        <4>1. Len(Stream(wpos, wend)) = wend - wpos /\ wend - wpos \in Nat
          BY <1>i, <1>p, StreamType DEF ReplayInv
        <4> QED BY <1>p, <3>1, <4>1 DEF WriteFinal
      <3>2. CASE CopyFinal
        <4>1. PICK k \in 1..MaxChunk : \E r \in WriteResults(sock[conn], k) :
                /\ sock' = [sock EXCEPT ![conn] = AfterWrite(sock[conn], Stream(wpos, wpos + k), r[1])]
                /\ wpos' = wpos + r[1]
          BY <1>p, <3>2 DEF CopyFinal
        <4>2. k \in Nat /\ wpos + k \in Nat /\ k = (wpos + k) - wpos BY <1>p
        <4> QED BY <4>1, <4>2
      <3> QED BY <1>9, <3>1, <3>2
    <2>4. PICK q \in Nat, m \in Nat : \E r \in WriteResults(sock[conn], m) :
            /\ m = q - wpos
            /\ sock' = [sock EXCEPT ![conn] = AfterWrite(sock[conn], Stream(wpos, q), r[1])]
            /\ wpos' = wpos + r[1]
      BY <2>3
    <2>5. PICK r \in WriteResults(sock[conn], m) :
            /\ m = q - wpos
            /\ sock' = [sock EXCEPT ![conn] = AfterWrite(sock[conn], Stream(wpos, q), r[1])]
            /\ wpos' = wpos + r[1]
      BY <2>4
    <2> DEFINE t == AfterWrite(sock[conn], Stream(wpos, q), r[1])
    <2>6. r[1] \in Nat /\ wpos + r[1] <= q BY <1>p, <2>5 DEF WriteResults
    <2>7. t \in Sockets /\ Keeps(t, t)
      <3>1. t = sock'[conn] BY <1>p, <2>5
      <3> QED BY <1>p, <3>1 DEF Keeps, Healthy
    <2> QED BY <1>7, <2>1, <2>2, <2>5, <2>6, <2>7
  <1>10. ASSUME NEW t \in Threads, Closing(t) PROVE SentInv'
    <2>1. \/ sock' = sock
          \/ sock' = [sock EXCEPT ![conn] = ShutRead(sock[conn])]
          \/ sock' = [sock EXCEPT ![conn] = ShutWrite(sock[conn])]
      BY <1>10, <1>p
      DEF Closing, CloseReadFlag, CloseReadLock, CloseWriteFlag, CloseWriteLock
    <2>2. \A c \in Conns : Keeps(sock[c], sock'[c])
      BY <1>p, <1>k, <1>o, <2>1, OperationsKeep, SocketType
    <2>3. \/ pc'["reader"] = pc["reader"]
          \/ pc["reader"] \notin Replaying /\ pc'["reader"] \notin Replaying
      BY <1>10, <1>p, <1>t DEF Closing, CloseReadFlag, CloseReadLock, CloseWriteFlag,
                              CloseWriteLock, Goto, Replaying
    <2>4. conn' = conn /\ wpos' = wpos /\ split' = split
      BY <1>10 DEF Closing, CloseReadFlag, CloseReadLock, CloseWriteFlag,
                   CloseWriteLock, upload
    <2> QED BY <1>i, <1>p, <2>2, <2>3, <2>4, SentKept DEF Replaying
  <1>11. CASE Deadlines
    <2>1. PICK d \in {"none", "caller"} :
            \/ sock' = sock
            \/ sock' = [sock EXCEPT ![conn] = ReadDeadline(sock[conn], d)]
            \/ sock' = [sock EXCEPT ![conn] = WriteDeadline(sock[conn], d)]
      BY <1>11, <1>p DEF Deadlines, SetReadDeadline, SetWriteDeadline
    <2>2. \A c \in Conns : Keeps(sock[c], sock'[c])
      BY <1>p, <1>k, <1>o, <2>1, OperationsKeep, SocketType
    <2> QED BY <1>11, <1>i, <1>p, <2>2, SentKept
        DEF Deadlines, SetReadDeadline, SetWriteDeadline, upload
  <1>12. ASSUME NEW c \in Conns, Peer(c) PROVE SentInv'
    <2>1. \/ sock' = [sock EXCEPT ![c] = PeerData(sock[c])]
          \/ sock' = [sock EXCEPT ![c] = PeerFin(sock[c])] /\ sock[c].peer = "up"
          \/ sock' = [sock EXCEPT ![c] = PeerRst(sock[c])]
      BY <1>12, <1>p DEF Peer
    <2>2. Keeps(sock[c], sock'[c]) BY <1>p, <2>1, OperationsKeep
    <2>3. \A d \in Conns : d # c => sock'[d] = sock[d] BY <1>p, <2>1
    <2>4. \A d \in Conns : Keeps(sock[d], sock'[d]) BY <1>k, <2>2, <2>3
    <2> QED BY <1>12, <1>i, <1>p, <2>4, SentKept DEF Peer, upload
  <1>13. CASE UNCHANGED vars
    BY <1>13, <1>i, <1>p, <1>k, SentKept DEF vars, upload
  <1>14. CASE Handshake
    BY <1>14, <1>i, <1>p, <1>k, HandshakeTurns, SentKept DEF Replaying, upload
  <1> QED
    BY <1>1, <1>2, <1>3, <1>4, <1>5, <1>6, <1>8, <1>9, <1>10, <1>11, <1>12, <1>13, <1>14,
       <1>t
    DEF Next, Reader, Writer, Closer

----------------------------------------------------------------------------
(* The inductive invariant.                                                *)
LEMMA Invariance == Spec => [](TypeOK /\ StreamInv)
  <1>1. Init => TypeOK /\ StreamInv BY TypeInit, StreamInit
  <1>2. TypeOK /\ StreamInv /\ [Next]_vars => (TypeOK /\ StreamInv)'
    BY TypeNext, PhaseNext, ReplayNext, SentNext DEF StreamInv
  <1> QED BY <1>1, <1>2, PTL DEF Spec

(* Type correctness of every reachable state; in particular r.conn is      *)
(* replaced at most once (retrier.go:155, 174-180).                        *)
THEOREM TypeCorrect == Spec => []TypeOK
  BY Invariance, PTL

(* For every stream and every way of cutting it, whatever fails and        *)
(* wherever the retry strikes, each socket carries a prefix of what the    *)
(* application wrote, and outside the retry the live socket has it all.    *)
THEOREM StreamIsIntact == Spec => []StreamIntact
  <1>1. TypeOK /\ StreamInv => StreamIntact
    BY DEF StreamInv, PhaseInv, SentInv, StreamIntact, Critical
  <1> QED BY <1>1, Invariance, PTL

(* r.conn changes at most once, under the lock, before the retry completes *)
(* and never while a writer uses it without the lock.                      *)
THEOREM ConnIsFinal == Spec => ConnFinal
  <1> DEFINE Final == conn' # conn => /\ mutex = "reader" /\ ~retryCompleted
                                      /\ conn = 1 /\ pc["writer"] \notin Unlocked
  <1>1. PhaseInv /\ [Next]_vars => [Final]_vars
    <2> SUFFICES ASSUME PhaseInv, Next, conn' # conn PROVE Final OBVIOUS
    <2>1. Redial
      BY DEF Next, Reader, Writer, Handshake, HandshakeReads, HandshakeWrites, Closer,
             Closing, Deadlines, Read, ReadLock, ReplayFirst,
             ReplaySecond, Replay, CopyReadClosed, CopyWriteClosed, RetryRead, Complete,
             Finish, ReadFromLoop, NextBuffer, SourceEOF, WriteCheck, WriteLate,
             WriteProvisional, WriteAwait, WriteSync, WriteFinal, CopyFinal, CopyEOF,
             CloseReadFlag, CloseReadLock, CloseWriteFlag, CloseWriteLock, Close,
             SetReadDeadline, SetWriteDeadline, Peer
    <2> QED BY <2>1 DEF Redial, PhaseInv, Critical, Unlocked
  <1>2. Spec => []PhaseInv BY Invariance, PTL DEF StreamInv
  <1> QED BY <1>1, <1>2, PTL DEF Spec, ConnFinal
============================================================================
