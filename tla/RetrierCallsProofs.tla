------------------------ MODULE RetrierCallsProofs ------------------------
(***************************************************************************)
(* What Retrier owes to CloseRead, CloseWrite and the deadlines: for every *)
(* stream and every caller, the retry that replaces the socket loses none  *)
(* of these calls, and the response timeout does not outlive the retry.    *)
(***************************************************************************)
EXTENDS RetrierProofs

(* The reader, while the socket it has dialled lacks what earlier calls    *)
(* asked for: the closed write side and the deadlines, and before that     *)
(* also the closed read side.                                              *)
LacksRead  == Replaying \cup {"copyRead"}

LacksWrite == LacksRead \cup {"copyWrite"}

(* The response timeout is armed on open sockets only, and while a retry   *)
(* is possible.                                                            *)
TimeoutInv ==
  /\ \A c \in Conns : sock[c].state # "open" => sock[c].rdl = "none"
  /\ SteadyState

(* The calls in force on the current socket, also inside the critical      *)
(* section: a failed replay leaves it only with a socket that was reset.   *)
CallsInv ==
  Healthy(sock[conn]) =>
    /\ pc["reader"] \notin LacksWrite =>
         /\ sock[conn].wdl = writeDeadline
         /\ writeClosed /\ (\A t \in Threads : pc[t] # "closeWriteLock") => sock[conn].wrShut
    /\ pc["reader"] \notin LacksRead =>
         (readClosed /\ (\A t \in Threads : pc[t] # "closeReadLock") => sock[conn].rdShut)

(***************************************************************************)
(* The operations on a socket.                                             *)
(***************************************************************************)
(* t has the write deadline of s and is shut where s was, unless dead.     *)
Carries(s, t) ==
  Healthy(t) => /\ Healthy(s) /\ t.wdl = s.wdl
                /\ s.wrShut => t.wrShut
                /\ s.rdShut => t.rdShut

(* No operation but a new dial reopens a side, and none but WriteDeadline  *)
(* moves the write deadline.                                               *)
LEMMA OperationsCarry ==
  ASSUME NEW s \in Sockets
  PROVE  /\ Carries(s, s) /\ Carries(s, Closed(s))
         /\ Carries(s, ShutRead(s)) /\ Carries(s, ShutWrite(s))
         /\ Carries(s, PeerData(s)) /\ Carries(s, PeerRst(s))
         /\ s.peer = "up" => Carries(s, PeerFin(s))
         /\ \A e : Carries(s, AfterRead(s, e))
         /\ \A b, n : Carries(s, AfterWrite(s, b, n))
         /\ \A d : Carries(s, ReadDeadline(s, d))
  <1>1. Carries(s, s) /\ Carries(s, Closed(s)) BY DEF Carries, Closed, Unused, Healthy
  <1>2. Carries(s, ShutRead(s)) /\ Carries(s, ShutWrite(s))
    BY DEF Carries, ShutRead, ShutWrite, Healthy, Sockets
  <1>3. Carries(s, PeerData(s)) /\ Carries(s, PeerRst(s))
    BY DEF Carries, PeerData, PeerRst, Healthy, Sockets
  <1>4. s.peer = "up" => Carries(s, PeerFin(s))
    BY DEF Carries, PeerFin, Healthy, Sockets
  <1>5. \A e : Carries(s, AfterRead(s, e)) BY DEF Carries, AfterRead, Healthy, Sockets
  <1>6. \A b, n : Carries(s, AfterWrite(s, b, n))
    BY DEF Carries, AfterWrite, Healthy, Sockets
  <1>7. \A d : Carries(s, ReadDeadline(s, d))
    BY DEF Carries, ReadDeadline, Healthy, Sockets
  <1> QED BY <1>1, <1>2, <1>3, <1>4, <1>5, <1>6, <1>7

(* A step that neither closes a flag nor leaves the wait for the lock in   *)
(* CloseRead or CloseWrite, and keeps the socket with what it carries.     *)
LEMMA CallsKept ==
  ASSUME CallsInv, conn' = conn, Carries(sock[conn], sock'[conn]),
         UNCHANGED <<readClosed, writeClosed, writeDeadline>>,
         pc'["reader"] \notin LacksWrite => pc["reader"] \notin LacksWrite,
         pc'["reader"] \notin LacksRead => pc["reader"] \notin LacksRead,
         \A t \in Threads : pc[t] \in {"closeReadLock", "closeWriteLock"} => pc'[t] = pc[t]
  PROVE  CallsInv'
  BY DEF CallsInv, Carries

(* A goroutine that goes anywhere from elsewhere leaves alone those that   *)
(* wait in CloseRead and CloseWrite.                                       *)
LEMMA OthersWait ==
  ASSUME pc \in [Threads -> PCs], NEW u \in Threads, NEW to, Goto(u, to),
         pc[u] \notin {"closeReadLock", "closeWriteLock"}
  PROVE  \A t \in Threads : pc[t] \in {"closeReadLock", "closeWriteLock"} => pc'[t] = pc[t]
  BY DEF Goto

(***************************************************************************)
(* The response timeout.                                                   *)
(***************************************************************************)
(* A new retrier has no deadline armed.                                    *)
LEMMA TimeoutInit == Init => TimeoutInv
  BY DEF Init, TimeoutInv, SteadyState, Dialed, Unused, Conns

(* Every operation leaves a socket that is not open without a deadline.    *)
LEMMA OperationsDisarm ==
  ASSUME NEW s \in Sockets, s.state # "open" => s.rdl = "none"
  PROVE  /\ \A t \in {Unused, Dialed, Closed(s), ShutRead(s), ShutWrite(s),
                      PeerData(s), PeerFin(s), PeerRst(s)} : t.state # "open" => t.rdl = "none"
         /\ \A e : AfterRead(s, e).state # "open" => AfterRead(s, e).rdl = "none"
         /\ \A b, n : AfterWrite(s, b, n).state # "open" => AfterWrite(s, b, n).rdl = "none"
         /\ \A d : ReadDeadline(s, d).state # "open" => ReadDeadline(s, d).rdl = "none"
         /\ \A d : WriteDeadline(s, d).state # "open" => WriteDeadline(s, d).rdl = "none"
  <1>1. Unused.rdl = "none" /\ Dialed.rdl = "none" /\ Closed(s).rdl = "none"
    BY DEF Unused, Dialed, Closed
  <1>2. /\ \A d : ReadDeadline(s, d).state = s.state /\ WriteDeadline(s, d).state = s.state
        /\ \A d : s.state # "open" => ReadDeadline(s, d).rdl = s.rdl /\ WriteDeadline(s, d).rdl = s.rdl
    BY DEF ReadDeadline, WriteDeadline, Sockets
  <1>3. /\ \A t \in {ShutRead(s), ShutWrite(s), PeerData(s), PeerFin(s), PeerRst(s)} :
             t.state = s.state /\ t.rdl = s.rdl
        /\ \A e : AfterRead(s, e).state = s.state /\ AfterRead(s, e).rdl = s.rdl
        /\ \A b, n : AfterWrite(s, b, n).state = s.state /\ AfterWrite(s, b, n).rdl = s.rdl
    BY DEF ShutRead, ShutWrite, PeerData, PeerFin, PeerRst, AfterRead, AfterWrite, Sockets
  <1> QED BY <1>1, <1>2, <1>3

(* Only a Write on the provisional socket arms the response timeout, and   *)
(* the reader, which completes the retry, disarms it before it unlocks.    *)
LEMMA TimeoutNext == TypeOK /\ StreamInv /\ TimeoutInv /\ [Next]_vars => TimeoutInv'
  <1> SUFFICES ASSUME TypeOK, StreamInv, TimeoutInv, [Next]_vars PROVE TimeoutInv' OBVIOUS
  <1>i. PhaseInv BY DEF StreamInv
  <1>p. /\ pc \in [Threads -> PCs] /\ conn \in Conns /\ conn \in {1, 2}
        /\ sock \in [Conns -> Sockets] /\ readDeadline \in {"none", "caller"}
        /\ 1 \in Conns /\ 2 \in Conns
    BY DEF TypeOK, Conns
  <1>t. "reader" \in Threads /\ "writer" \in Threads /\ "closer" \in Threads BY DEF Threads
  <1>d. \A c \in Conns : sock[c].state # "open" => sock[c].rdl = "none" BY DEF TimeoutInv
  <1>o. ASSUME NEW s, sock' = [sock EXCEPT ![conn] = s], s.state # "open" => s.rdl = "none"
        PROVE  \A c \in Conns : sock'[c].state # "open" => sock'[c].rdl = "none"
    BY <1>o, <1>p, <1>d
  <1>1. CASE Read \/ RetryRead
    <2>1. PICK e : sock' = [sock EXCEPT ![conn] = AfterRead(sock[conn], e)]
      BY <1>1, <1>p DEF Read, RetryRead
    <2>2. AfterRead(sock[conn], e).state # "open" => AfterRead(sock[conn], e).rdl = "none"
      BY <1>p, <1>d, OperationsDisarm
    <2>3. sock'[conn].rdl = sock[conn].rdl BY <1>p, <2>1 DEF AfterRead, Sockets
    <2> QED BY <1>1, <1>o, <2>1, <2>2, <2>3 DEF Read, RetryRead, TimeoutInv, SteadyState, flags
  <1>2. CASE ReadLock BY <1>2, <1>d DEF ReadLock, TimeoutInv, SteadyState, flags
  <1>3. CASE Redial
    <2>1. conn = 1 /\ mutex' = "reader"
      BY <1>3, <1>i, <1>p DEF Redial, PhaseInv, Critical
    <2>2. \A c \in Conns : sock'[c] = sock[c] \/ sock'[c] = Closed(sock[c]) \/ sock'[c] = Dialed
      BY <1>3, <1>p, <2>1 DEF Redial, Conns
    <2>3. \A c \in Conns : sock'[c].state # "open" => sock'[c].rdl = "none"
      BY <1>p, <1>d, <2>2, OperationsDisarm
    <2> QED BY <2>1, <2>3 DEF TimeoutInv, SteadyState
  <1>4. CASE ReplayFirst \/ ReplaySecond
    <2>1. PICK b, n : sock' = [sock EXCEPT ![conn] = AfterWrite(sock[conn], b, n)]
      BY <1>4, <1>p DEF ReplayFirst, ReplaySecond, Replay
    <2>2. AfterWrite(sock[conn], b, n).state # "open" => AfterWrite(sock[conn], b, n).rdl = "none"
      BY <1>p, <1>d, OperationsDisarm
    <2>3. mutex' = "reader"
      BY <1>4, <1>i, <1>p DEF ReplayFirst, ReplaySecond, Replay, PhaseInv, Critical
    <2> QED BY <1>o, <2>1, <2>2, <2>3 DEF TimeoutInv, SteadyState
  <1>5. CASE CopyReadClosed
    <2>1. PICK s \in {sock[conn], ShutRead(sock[conn])} : sock' = [sock EXCEPT ![conn] = s]
      BY <1>5, <1>p DEF CopyReadClosed
    <2>2. s.state # "open" => s.rdl = "none" BY <1>p, <1>d, OperationsDisarm
    <2>3. mutex' = "reader" BY <1>5, <1>i, <1>p DEF CopyReadClosed, PhaseInv, Critical
    <2> QED BY <1>o, <2>1, <2>2, <2>3 DEF TimeoutInv, SteadyState
  <1>6. CASE CopyWriteClosed
    <2> DEFINE s1 == CopyClose(sock[conn])
               s2 == ReadDeadline(s1, readDeadline)
               s3 == WriteDeadline(s2, writeDeadline)
    <2>1. s1 \in Sockets /\ (s1.state # "open" => s1.rdl = "none")
      BY <1>p, <1>d, OperationsDisarm, SocketType DEF CopyClose
    <2> HIDE DEF s1
    <2>2. s2 \in Sockets /\ (s2.state # "open" => s2.rdl = "none")
      BY <1>p, <2>1, OperationsDisarm, SocketType
    <2> HIDE DEF s2
    <2>3. s3.state # "open" => s3.rdl = "none" BY <2>2, OperationsDisarm
    <2>4. sock' = [sock EXCEPT ![conn] = s3]
      BY <1>6, <1>p DEF CopyWriteClosed, Reapply, s1, s2
    <2> HIDE DEF s3
    <2>5. mutex' = "reader" BY <1>6, <1>i, <1>p DEF CopyWriteClosed, PhaseInv, Critical
    <2> QED BY <1>o, <2>3, <2>4, <2>5 DEF TimeoutInv, SteadyState
  <1>7. CASE Complete
    <2>1. mutex' = "reader" BY <1>7, <1>i, <1>p DEF Complete, PhaseInv, Critical
    <2> QED BY <1>7, <1>d, <2>1 DEF Complete, TimeoutInv, SteadyState
  <1>8. CASE Finish
    <2> DEFINE s == ReadDeadline(sock[conn], "none")
    <2>1. sock' = [sock EXCEPT ![conn] = s] BY <1>8, <1>p DEF Finish
    <2>2. s.rdl = "none" BY <1>p, <1>d DEF ReadDeadline, Sockets
    <2>3. sock'[conn].rdl = "none" /\ hello' = << >> /\ conn' = conn
      BY <1>8, <1>p, <2>1, <2>2 DEF Finish
    <2> HIDE DEF s
    <2> QED BY <1>o, <2>1, <2>2, <2>3 DEF TimeoutInv, SteadyState
  <1>9. CASE ReadFromLoop \/ NextBuffer \/ SourceEOF \/ WriteCheck \/ WriteLate
             \/ WriteAwait \/ WriteSync \/ CopyEOF \/ Close
    BY <1>9 DEF ReadFromLoop, NextBuffer, SourceEOF, WriteCheck, WriteLate, WriteAwait,
                WriteSync, CopyEOF, Close, TimeoutInv, SteadyState, flags
  <1>10. CASE WriteProvisional
    <2>1. PICK b, n, e : sock' = [sock EXCEPT ![conn] = Arm(AfterWrite(sock[conn], b, n), e)]
      <3>1. PICK r : sock' = [sock EXCEPT ![conn] =
                                Arm(AfterWrite(sock[conn], Stream(wpos, wend), r[1]), r[2])]
        BY <1>10, <1>p DEF WriteProvisional
      <3> QED BY <3>1
    <2> DEFINE s == AfterWrite(sock[conn], b, n)
    <2>2. s.state # "open" => s.rdl = "none" BY <1>p, <1>d, OperationsDisarm
    <2>3. s.state # "open" => Arm(s, e) = s BY DEF Arm, ReadDeadline
    <2>4. Arm(s, e).state = "open" \/ Arm(s, e).rdl = "none"
      <3> HIDE DEF s
      <3>1. CASE s.state # "open" BY <2>2, <2>3, <3>1
      <3>2. CASE s.state = "open"
        <4>1. Arm(s, e) = [s EXCEPT !.rdl = "response"] BY <3>2 DEF Arm, ReadDeadline
        <4>2. s.state = sock[conn].state /\ DOMAIN s = DOMAIN sock[conn]
          BY <1>p DEF AfterWrite, Sockets, s
        <4>3. "state" \in DOMAIN sock[conn] /\ "rdl" \in DOMAIN sock[conn]
          BY <1>p DEF Sockets
        <4> QED BY <3>2, <4>1, <4>2, <4>3
      <3> QED BY <3>1, <3>2
    <2>5. ~retryCompleted' BY <1>10 DEF WriteProvisional, Provisional, flags
    <2> HIDE DEF s
    <2> QED BY <1>o, <2>1, <2>4, <2>5 DEF TimeoutInv, SteadyState, s
  <1>11. CASE WriteFinal \/ CopyFinal
    <2>1. PICK b, n : sock' = [sock EXCEPT ![conn] = AfterWrite(sock[conn], b, n)]
      BY <1>11, <1>p DEF WriteFinal, CopyFinal
    <2>2. AfterWrite(sock[conn], b, n).state # "open" => AfterWrite(sock[conn], b, n).rdl = "none"
      BY <1>p, <1>d, OperationsDisarm
    <2>3. sock'[conn].rdl = sock[conn].rdl BY <1>p, <2>1 DEF AfterWrite, Sockets
    <2>4. UNCHANGED <<conn, mutex, hello, retryCompleted>>
      BY <1>11 DEF WriteFinal, CopyFinal, flags
    <2> QED BY <1>o, <2>1, <2>2, <2>3, <2>4 DEF TimeoutInv, SteadyState
  <1>12. ASSUME NEW t \in Threads, Closing(t) PROVE TimeoutInv'
    <2>1. PICK s \in {sock[conn], ShutRead(sock[conn]), ShutWrite(sock[conn])} :
            sock' = [sock EXCEPT ![conn] = s]
      BY <1>12, <1>p
      DEF Closing, CloseReadFlag, CloseReadLock, CloseWriteFlag, CloseWriteLock
    <2>2. s.state # "open" => s.rdl = "none" BY <1>p, <1>d, OperationsDisarm
    <2>3. sock'[conn].rdl = sock[conn].rdl BY <1>p, <2>1 DEF ShutRead, ShutWrite, Sockets
    <2>4. UNCHANGED <<conn, mutex, hello, retryCompleted>>
      BY <1>12
      DEF Closing, CloseReadFlag, CloseReadLock, CloseWriteFlag, CloseWriteLock, flags
    <2> QED BY <1>o, <2>1, <2>2, <2>3, <2>4 DEF TimeoutInv, SteadyState
  <1>13. CASE Deadlines
    <2>1. PICK d \in {"none", "caller"} : SetReadDeadline(d) \/ SetWriteDeadline(d)
      BY <1>13 DEF Deadlines
    <2>2. PICK s \in {sock[conn], ReadDeadline(sock[conn], d), WriteDeadline(sock[conn], d)} :
            sock' = [sock EXCEPT ![conn] = s]
      BY <1>p, <2>1 DEF SetReadDeadline, SetWriteDeadline
    <2>3. s.state # "open" => s.rdl = "none" BY <1>p, <1>d, <2>2, OperationsDisarm
    <2>4. sock'[conn].rdl \in {sock[conn].rdl, "none", "caller"}
      BY <1>p, <2>1, <2>2 DEF ReadDeadline, WriteDeadline, Sockets
    <2>5. UNCHANGED <<conn, mutex, hello, retryCompleted>>
      BY <2>1 DEF SetReadDeadline, SetWriteDeadline, flags
    <2> QED BY <1>o, <2>2, <2>3, <2>4, <2>5 DEF TimeoutInv, SteadyState
  <1>14. ASSUME NEW c \in Conns, Peer(c) PROVE TimeoutInv'
    <2>1. PICK s \in {PeerData(sock[c]), PeerFin(sock[c]), PeerRst(sock[c])} :
            sock' = [sock EXCEPT ![c] = s]
      BY <1>14, <1>p DEF Peer
    <2>2. s.rdl = sock[c].rdl /\ s.state = sock[c].state
      BY <1>p, <2>1 DEF PeerData, PeerFin, PeerRst, Sockets
    <2>3. \A k \in Conns : sock'[k].rdl = sock[k].rdl /\ sock'[k].state = sock[k].state
      BY <1>p, <2>1, <2>2
    <2>4. UNCHANGED <<conn, mutex, hello, retryCompleted>> BY <1>14 DEF Peer, flags
    <2> QED BY <1>d, <1>p, <2>3, <2>4 DEF TimeoutInv, SteadyState
  <1>15. CASE UNCHANGED vars BY <1>15, <1>d DEF vars, flags, TimeoutInv, SteadyState
  <1>16. CASE Handshake
    BY <1>16, <1>d DEF Handshake, HandshakeReads, HandshakeWrites, flags, TimeoutInv, SteadyState
  <1> QED
    BY <1>1, <1>2, <1>3, <1>4, <1>5, <1>6, <1>7, <1>8, <1>9, <1>10, <1>11, <1>12, <1>13,
       <1>14, <1>15, <1>16, <1>t
    DEF Next, Reader, Writer, Closer

(***************************************************************************)
(* CloseRead, CloseWrite and SetWriteDeadline.                             *)
(***************************************************************************)
(* Nothing has been asked of a new retrier.                                *)
LEMMA CallsInit == Init => CallsInv
  BY DEF Init, CallsInv, Dialed, Unused, Conns

(* The socket that the retry dials gets what was asked before; from then   *)
(* on, as before the retry, each call acts on it itself.                   *)
LEMMA CallsNext == TypeOK /\ StreamInv /\ CallsInv /\ [Next]_vars => CallsInv'
  <1> SUFFICES ASSUME TypeOK, StreamInv, CallsInv, [Next]_vars PROVE CallsInv' OBVIOUS
  <1>i. PhaseInv /\ ReplayInv BY DEF StreamInv
  <1>p. /\ pc \in [Threads -> PCs] /\ conn \in Conns /\ conn \in {1, 2}
        /\ sock \in [Conns -> Sockets] /\ writeDeadline \in {"none", "caller"}
        /\ readDeadline \in {"none", "caller"} /\ 1 \in Conns /\ 2 \in Conns
    BY DEF TypeOK, Conns
  <1>t. "reader" \in Threads /\ "writer" \in Threads /\ "closer" \in Threads BY DEF Threads
  <1> USE DEF LacksRead, LacksWrite, Replaying
  <1>1. CASE Read \/ RetryRead
    <2>1. PICK e : sock' = [sock EXCEPT ![conn] = AfterRead(sock[conn], e)]
      BY <1>1, <1>p DEF Read, RetryRead
    <2>2. Carries(sock[conn], sock'[conn]) BY <1>p, <2>1, OperationsCarry
    <2>3. PICK to : Goto("reader", to) BY <1>1 DEF Read, RetryRead
    <2>4. pc["reader"] \in {"read", "retryRead"} BY <1>1 DEF Read, RetryRead
    <2> QED BY <1>1, <1>p, <1>t, <2>2, <2>3, <2>4, OthersWait, CallsKept
        DEF Read, RetryRead, flags, dlines
  <1>2. CASE ReadLock \/ Complete
    <2>1. Carries(sock[conn], sock'[conn]) BY <1>2, <1>p, OperationsCarry DEF ReadLock, Complete
    <2>2. PICK to : Goto("reader", to) BY <1>2 DEF ReadLock, Complete
    <2>3. pc["reader"] \in {"lock", "complete"} BY <1>2 DEF ReadLock, Complete
    <2> QED BY <1>2, <1>p, <1>t, <2>1, <2>2, <2>3, OthersWait, CallsKept
        DEF ReadLock, Complete, flags, dlines
  <1>3. CASE Redial
    <2>1. conn = 1 BY <1>3, <1>i DEF Redial, PhaseInv
    <2>2. CASE conn' = conn
      <3>1. sock'[conn] = Closed(sock[conn]) BY <1>3, <1>p, <2>1, <2>2 DEF Redial
      <3> QED BY <2>2, <3>1 DEF CallsInv, Healthy, Closed, Unused
    <2>3. CASE conn' = conn + 1
      <3>1. pc'["reader"] = "first" BY <1>3, <1>p, <1>t, <2>1, <2>3 DEF Redial, Goto
      <3> QED BY <3>1 DEF CallsInv
    <2> QED BY <1>3, <2>2, <2>3 DEF Redial
  <1>4. CASE ReplayFirst \/ ReplaySecond
    <2>1. /\ conn = 2 /\ conn' = conn /\ sock[2].state = "open"
          /\ ~sock[2].wrShut /\ sock[2].wdl = "none"
      BY <1>4, <1>i DEF ReplayFirst, ReplaySecond, Replay, PhaseInv, ReplayInv, Retrying
    <2>2. PICK b, next : Replay(b, next) /\ next \in LacksRead
      BY <1>4 DEF ReplayFirst, ReplaySecond
    <2>3. PICK r \in WriteResults(sock[conn], Len(b)) :
            /\ sock' = [sock EXCEPT ![conn] = AfterWrite(sock[conn], b, r[1])]
            /\ Goto("reader", IF r[2] = "nil" THEN next ELSE "complete")
      BY <1>p, <2>2 DEF Replay
    <2>4. CASE r[2] = "nil"
      <3>1. pc'["reader"] \in LacksRead BY <1>p, <1>t, <2>2, <2>3, <2>4 DEF Goto
      <3> QED BY <3>1 DEF CallsInv
    <2>5. CASE r[2] # "nil"
      <3>1. sock[2].peer = "rst" BY <2>1, <2>3, <2>5 DEF WriteResults
      <3>2. sock'[2] = sock[2] BY <1>p, <2>1, <2>3, <3>1 DEF AfterWrite, Healthy
      <3> QED BY <2>1, <3>1, <3>2 DEF CallsInv, Healthy
    <2> QED BY <2>4, <2>5
  <1>5. CASE CopyReadClosed
    <2>1. pc["reader"] = "copyRead" /\ pc'["reader"] = "copyWrite"
      BY <1>5, <1>p, <1>t DEF CopyReadClosed, Goto
    <2>2. readClosed /\ Healthy(sock'[conn]) => sock'[conn].rdShut
      BY <1>5, <1>p DEF CopyReadClosed, ShutRead, Healthy, Sockets
    <2> QED BY <1>5, <2>1, <2>2 DEF CopyReadClosed, CallsInv, flags
  <1>6. CASE CopyWriteClosed
    <2> DEFINE s1 == CopyClose(sock[conn])
               s2 == ReadDeadline(s1, readDeadline)
               s3 == WriteDeadline(s2, writeDeadline)
    <2>1. /\ s1 \in Sockets /\ Carries(sock[conn], s1)
          /\ writeClosed /\ Healthy(s1) => s1.wrShut
      BY <1>p, OperationsCarry, SocketType DEF CopyClose, ShutWrite, Healthy, Sockets
    <2> HIDE DEF s1
    <2>2. s2 \in Sockets /\ Carries(s1, s2) BY <1>p, <2>1, OperationsCarry, SocketType
    <2> HIDE DEF s2
    <2>3. /\ Healthy(s3) => Healthy(s2) /\ s3.wdl = writeDeadline
          /\ Healthy(s3) => s3.wrShut = s2.wrShut /\ s3.rdShut = s2.rdShut
      BY <2>2 DEF WriteDeadline, Healthy, Sockets
    <2>4. sock'[conn] = s3
      BY <1>6, <1>p DEF CopyWriteClosed, Reapply, s1, s2
    <2> HIDE DEF s3
    <2>5. pc["reader"] = "copyWrite" /\ pc["reader"] \notin {"closeReadLock", "closeWriteLock"}
      BY <1>6 DEF CopyWriteClosed
    <2>6. \A t \in Threads : pc[t] \in {"closeReadLock", "closeWriteLock"} => pc'[t] = pc[t]
      BY <1>6, <1>p, <1>t, <2>5, OthersWait DEF CopyWriteClosed
    <2>7. UNCHANGED <<conn, readClosed, writeClosed, writeDeadline>>
      BY <1>6 DEF CopyWriteClosed, flags, dlines
    <2> QED BY <2>1, <2>2, <2>3, <2>4, <2>5, <2>6, <2>7 DEF CallsInv, Carries
  <1>7. CASE Finish
    <2>1. Carries(sock[conn], sock'[conn])
      BY <1>7, <1>p, OperationsCarry DEF Finish
    <2>2. PICK to : Goto("reader", to) BY <1>7 DEF Finish
    <2>3. pc["reader"] = "finish" BY <1>7 DEF Finish
    <2> QED BY <1>7, <1>p, <1>t, <2>1, <2>2, <2>3, OthersWait, CallsKept
        DEF Finish, flags, dlines
  <1>8. CASE ReadFromLoop \/ NextBuffer \/ SourceEOF \/ WriteCheck \/ WriteLate
             \/ WriteAwait \/ WriteSync \/ CopyEOF \/ Close
    <2>1. PICK u \in {"writer", "closer"} :
             /\ pc[u] \notin {"closeReadLock", "closeWriteLock"}
             /\ \E to : Goto(u, to)
      BY <1>8 DEF ReadFromLoop, NextBuffer, SourceEOF, WriteCheck, WriteLate, WriteAwait,
                  WriteSync, CopyEOF, Close
    <2>2. UNCHANGED <<sock, conn, readClosed, writeClosed, writeDeadline>>
      BY <1>8 DEF ReadFromLoop, NextBuffer, SourceEOF, WriteCheck, WriteLate, WriteAwait,
                  WriteSync, CopyEOF, Close, flags, dlines
    <2>3. Carries(sock[conn], sock'[conn]) BY <1>p, <2>2, OperationsCarry
    <2>4. pc'["reader"] = pc["reader"] BY <1>p, <1>t, <2>1 DEF Goto
    <2>5. PICK to : Goto(u, to) BY <2>1
    <2> QED BY <1>p, <1>t, <2>1, <2>2, <2>3, <2>4, <2>5, OthersWait, CallsKept
  <1>9. CASE WriteProvisional
    <2>1. PICK r : sock' = [sock EXCEPT ![conn] =
                              Arm(AfterWrite(sock[conn], Stream(wpos, wend), r[1]), r[2])]
      BY <1>9, <1>p DEF WriteProvisional
    <2> DEFINE s == AfterWrite(sock[conn], Stream(wpos, wend), r[1])
    <2>2. Carries(sock[conn], s) BY <1>p, OperationsCarry
    <2>3. DOMAIN s = DOMAIN sock[conn] BY <1>p DEF AfterWrite, Sockets
    <2>4. \A f \in {"state", "peer", "wdl", "rdShut", "wrShut"} : f \in DOMAIN sock[conn]
      BY <1>p DEF Sockets
    <2> HIDE DEF s
    <2>5. Carries(s, Arm(s, r[2])) BY <2>3, <2>4 DEF Carries, Arm, ReadDeadline, Healthy
    <2>6. sock'[conn] = Arm(s, r[2]) BY <1>p, <2>1 DEF s
    <2>7. Carries(sock[conn], sock'[conn]) BY <2>2, <2>5, <2>6 DEF Carries
    <2>8. PICK to : Goto("writer", to) BY <1>9 DEF WriteProvisional, WriteReturns
    <2>9. pc["writer"] = "lock" BY <1>9 DEF WriteProvisional
    <2>10. UNCHANGED <<conn, readClosed, writeClosed, writeDeadline>>
      BY <1>9 DEF WriteProvisional, flags, dlines
    <2>11. pc'["reader"] = pc["reader"] BY <1>p, <1>t, <2>8 DEF Goto
    <2> QED BY <1>p, <1>t, <2>7, <2>8, <2>9, <2>10, <2>11, OthersWait, CallsKept
  <1>10. CASE WriteFinal \/ CopyFinal
    <2>1. PICK b, n : sock' = [sock EXCEPT ![conn] = AfterWrite(sock[conn], b, n)]
      BY <1>10, <1>p DEF WriteFinal, CopyFinal
    <2>2. Carries(sock[conn], sock'[conn]) BY <1>p, <2>1, OperationsCarry
    <2>3. PICK to : Goto("writer", to) BY <1>10 DEF WriteFinal, CopyFinal, WriteReturns
    <2>4. pc["writer"] \in {"final", "rest", "copy"} BY <1>10 DEF WriteFinal, CopyFinal
    <2>5. UNCHANGED <<conn, readClosed, writeClosed, writeDeadline>>
      BY <1>10 DEF WriteFinal, CopyFinal, flags, dlines
    <2>6. pc'["reader"] = pc["reader"] BY <1>p, <1>t, <2>3 DEF Goto
    <2> QED BY <1>p, <1>t, <2>2, <2>3, <2>4, <2>5, <2>6, OthersWait, CallsKept
  <1>11. ASSUME NEW t \in Threads, CloseReadFlag(t) \/ CloseWriteFlag(t) PROVE CallsInv'
    <2>1. UNCHANGED <<sock, conn, writeDeadline>>
      BY <1>11 DEF CloseReadFlag, CloseWriteFlag, dlines
    <2>2. \A u \in Threads : pc[u] \in {"closeReadLock", "closeWriteLock"} => pc'[u] = pc[u]
      BY <1>11, <1>p DEF CloseReadFlag, CloseWriteFlag, Goto
    <2>3. /\ pc'["reader"] \notin LacksWrite => pc["reader"] \notin LacksWrite
          /\ pc'["reader"] \notin LacksRead => pc["reader"] \notin LacksRead
      BY <1>11, <1>p, <1>t DEF CloseReadFlag, CloseWriteFlag, Goto
    <2>4. CASE CloseReadFlag(t)
      <3>1. pc'[t] = "closeReadLock" /\ writeClosed' = writeClosed
        BY <1>p, <2>4 DEF CloseReadFlag, Goto
      <3> QED BY <2>1, <2>2, <2>3, <3>1 DEF CallsInv
    <2>5. CASE CloseWriteFlag(t)
      <3>1. pc'[t] = "closeWriteLock" /\ readClosed' = readClosed
        BY <1>p, <2>5 DEF CloseWriteFlag, Goto
      <3> QED BY <2>1, <2>2, <2>3, <3>1 DEF CallsInv
    <2> QED BY <1>11, <2>4, <2>5
  <1>12. ASSUME NEW t \in Threads, CloseReadLock(t) \/ CloseWriteLock(t) PROVE CallsInv'
    <2>1. pc["reader"] \notin LacksWrite /\ pc["reader"] \notin LacksRead
      BY <1>12, <1>i, <1>p DEF CloseReadLock, CloseWriteLock, PhaseInv, Critical
    <2>2. UNCHANGED <<conn, readClosed, writeClosed, writeDeadline>>
      BY <1>12 DEF CloseReadLock, CloseWriteLock, flags, dlines
    <2>3. \A u \in Threads : u # t => pc'[u] = pc[u]
      BY <1>12, <1>p DEF CloseReadLock, CloseWriteLock, Goto
    <2>4. CASE CloseReadLock(t)
      <3>1. sock'[conn] = ShutRead(sock[conn]) /\ pc[t] = "closeReadLock"
        BY <1>p, <2>4 DEF CloseReadLock
      <3>2. /\ Carries(sock[conn], sock'[conn])
            /\ Healthy(sock'[conn]) => sock'[conn].rdShut
        BY <1>p, <3>1, OperationsCarry DEF ShutRead, Healthy, Sockets
      <3> QED BY <2>1, <2>2, <2>3, <3>1, <3>2 DEF CallsInv, Carries
    <2>5. CASE CloseWriteLock(t)
      <3>1. sock'[conn] = ShutWrite(sock[conn]) /\ pc[t] = "closeWriteLock"
        BY <1>p, <2>5 DEF CloseWriteLock
      <3>2. /\ Carries(sock[conn], sock'[conn])
            /\ Healthy(sock'[conn]) => sock'[conn].wrShut
        BY <1>p, <3>1, OperationsCarry DEF ShutWrite, Healthy, Sockets
      <3> QED BY <2>1, <2>2, <2>3, <3>1, <3>2 DEF CallsInv, Carries
    <2> QED BY <1>12, <2>4, <2>5
  <1>13. CASE Deadlines
    <2>1. PICK d \in {"none", "caller"} : SetReadDeadline(d) \/ SetWriteDeadline(d)
      BY <1>13 DEF Deadlines
    <2>2. UNCHANGED <<conn, pc, readClosed, writeClosed>>
      BY <2>1 DEF SetReadDeadline, SetWriteDeadline, flags
    <2>3. CASE SetReadDeadline(d)
      <3>1. Carries(sock[conn], sock'[conn])
        BY <1>p, <2>3, OperationsCarry DEF SetReadDeadline
      <3>2. writeDeadline' = writeDeadline BY <2>3 DEF SetReadDeadline
      <3> QED BY <2>2, <3>1, <3>2 DEF CallsInv, Carries
    <2>4. CASE SetWriteDeadline(d)
      <3>1. sock'[conn] = WriteDeadline(sock[conn], d) /\ writeDeadline' = d
        BY <1>p, <2>4 DEF SetWriteDeadline
      <3>2. Healthy(sock'[conn]) =>
              /\ Healthy(sock[conn]) /\ sock'[conn].wdl = d
              /\ sock'[conn].wrShut = sock[conn].wrShut
              /\ sock'[conn].rdShut = sock[conn].rdShut
        BY <1>p, <3>1 DEF WriteDeadline, Healthy, Sockets
      <3> QED BY <2>2, <3>1, <3>2 DEF CallsInv
    <2> QED BY <2>1, <2>3, <2>4
  <1>14. ASSUME NEW c \in Conns, Peer(c) PROVE CallsInv'
    <2>1. UNCHANGED <<conn, pc, readClosed, writeClosed, writeDeadline>>
      BY <1>14 DEF Peer, flags, dlines
    <2>2. Carries(sock[c], sock'[c]) BY <1>14, <1>p, OperationsCarry DEF Peer
    <2>3. \A k \in Conns : k # c => sock'[k] = sock[k] BY <1>14, <1>p DEF Peer
    <2>4. Carries(sock[conn], sock'[conn]) BY <1>p, <2>2, <2>3, OperationsCarry
    <2> QED BY <2>1, <2>4, CallsKept
  <1>15. CASE UNCHANGED vars
    BY <1>15 DEF vars, flags, dlines, CallsInv
  <1>16. CASE Handshake
    <2>1. Carries(sock[conn], sock'[conn]) BY <1>16, <1>p, HandshakeTurns, OperationsCarry
    <2>2. \A t \in Threads : pc[t] \in {"closeReadLock", "closeWriteLock"} => pc'[t] = pc[t]
      BY <1>16, <1>p, HandshakeTurns DEF Threads
    <2> QED BY <1>16, <1>p, <2>1, <2>2, HandshakeTurns, CallsKept
        DEF LacksRead, LacksWrite, Replaying, flags, dlines
  <1> QED
    BY <1>1, <1>2, <1>3, <1>4, <1>5, <1>6, <1>7, <1>8, <1>9, <1>10, <1>11, <1>12, <1>13,
       <1>14, <1>15, <1>16, <1>t
    DEF Next, Reader, Writer, Closer, Closing

----------------------------------------------------------------------------
(* Both invariants, which rest on that of the stream.                      *)
LEMMA CallsInvariance == Spec => [](TypeOK /\ StreamInv /\ TimeoutInv /\ CallsInv)
  <1>1. Init => TimeoutInv /\ CallsInv BY TimeoutInit, CallsInit
  <1>2. /\ TypeOK /\ StreamInv /\ TimeoutInv /\ CallsInv /\ [Next]_vars
        => TimeoutInv' /\ CallsInv'
    BY TimeoutNext, CallsNext
  <1> QED BY <1>1, <1>2, Invariance, PTL DEF Spec

(* The strengthening of StreamIntact that TLC checks is inductive: the     *)
(* phases of the retry, the hello that it replays, and how much of the     *)
(* stream each socket has (retrier.go:152-266).                            *)
THEOREM StreamInvariant == Spec => []StreamInv
  BY Invariance, PTL

(* Once the first reply is in, no Write that raced it leaves the response  *)
(* timeout armed or a byte in the hello (retrier.go:234-236, 253-254).     *)
THEOREM TimeoutIsGone == Spec => []SteadyState
  <1>1. TimeoutInv => SteadyState BY DEF TimeoutInv
  <1> QED BY <1>1, CallsInvariance, PTL

(* The write deadline of the caller holds on the socket in use, whether it *)
(* was set before, during or after the retry (retrier.go:49-50, 199-201).  *)
THEOREM WriteDeadlineIsKept == Spec => []WriteDeadlineKept
  <1>1. TypeOK /\ StreamInv /\ CallsInv => WriteDeadlineKept
    BY DEF StreamInv, PhaseInv, Critical, CallsInv, LacksRead, LacksWrite, Replaying,
           WriteDeadlineKept
  <1> QED BY <1>1, CallsInvariance, PTL

(* A CloseRead or CloseWrite that has returned took effect on the socket   *)
(* in use, also when it raced the retry (retrier.go:189-198).              *)
THEOREM CloseIsNotLost == Spec => []CloseNotLost
  <1>1. TypeOK /\ StreamInv /\ CallsInv => CloseNotLost
    BY DEF StreamInv, PhaseInv, Critical, CallsInv, LacksRead, LacksWrite, Replaying,
           CloseNotLost
  <1> QED BY <1>1, CallsInvariance, PTL
============================================================================
