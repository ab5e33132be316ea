------------------------------ MODULE Retrier ------------------------------
(***************************************************************************)
(* intra/split/retrier.go: a TCP connection that, when its first socket    *)
(* fails before any reply, dials a second one and replays what was written *)
(* (the "hello") in two segments.                                          *)
(*                                                                         *)
(* The reader goroutine calls Read and CloseRead, the writer goroutine     *)
(* Write, ReadFrom and CloseWrite.  Two callers exist in the repository:   *)
(*   "relay"  tcpHandler.forward: io.Copy from the retrier, then           *)
(*            CloseRead; ReadFrom into it, then CloseWrite;                *)
(*   "http"   the DoH transport's http.Transport, always over TLS: one     *)
(*            goroutine makes the handshake, writing and reading by turns; *)
(*            then a read loop and Writes in parallel.  Close is called    *)
(*            from a third goroutine.  While one of reader and writer is   *)
(*            "idle", the handshake's goroutine is the other.              *)
(*                                                                         *)
(* The application's upload is the byte stream 1, 2, 3, ...; positions     *)
(* wpos+1 .. wend are the slice b (or b[n:]) that Write is working on.     *)
(***************************************************************************)
EXTENDS TCPConn

CONSTANTS
  Usages,              \* the callers considered, a subset of {"relay", "http"}
  MaxBytes,            \* bound: length of the upload
  MaxChunk,            \* bound: largest buffer handed to one Write
  MinSplit, MaxSplit,  \* MIN_SPLIT and MAX_SPLIT of splitHello
  RequestLen,          \* the server is silent until it has this many bytes
  Flaky                \* the connections whose peer may send FIN or RST

Conns == 1..2          \* the socket first dialled, and the retry's

ASSUME RetrierAssumption ==
  /\ Usages \subseteq {"relay", "http"}
  /\ MaxBytes \in Nat /\ MaxChunk \in Nat /\ RequestLen \in Nat
  /\ MinSplit \in Nat /\ MaxSplit \in Nat /\ MinSplit <= MaxSplit
  /\ Flaky \subseteq Conns

VARIABLES
  usage,            \* which caller this connection serves
  sock,             \* the sockets
  conn,             \* r.conn
  mutex,            \* r.mutex: "free", or "reader" across the reader's steps
  hello,            \* r.hello
  retryCompleted,   \* r.retryCompleteFlag is closed
  readClosed,       \* r.readCloseFlag is closed
  writeClosed,      \* r.writeCloseFlag is closed
  readDeadline,     \* r.readDeadline
  writeDeadline,    \* r.writeDeadline
  stats,            \* r.stats (the SNI aside)
  pc,               \* program counters of the goroutines
  err,              \* Read's err
  split,            \* len(first) in retry
  wpos, wend,       \* bytes written so far, and end of the buffer in hand
  bytes             \* ReadFrom's named result

flags   == <<retryCompleted, readClosed, writeClosed>>
dlines  == <<readDeadline, writeDeadline>>
upload  == <<wpos, wend, bytes>>
vars    == <<usage, sock, conn, mutex, hello, flags, dlines, stats, pc, err,
             split, upload>>

Threads == {"reader", "writer", "closer"}

(* The reader between Lock and Unlock of Read.                             *)
Critical == {"redial", "first", "second", "copyRead", "copyWrite",
             "retryRead", "complete", "finish"}

(* Where the writer uses r.conn without the lock.                          *)
Unlocked == {"final", "rest", "copy"}

PCs == {"idle", "read", "lock", "loop", "source", "write", "await", "sync",
        "closeReadFlag", "closeReadLock", "closeWriteFlag", "closeWriteLock",
        "done"} \cup Critical \cup Unlocked

Stream(from, to) == [i \in 1..(to - from) |-> from + i]

TypeOK ==
  /\ usage \in Usages
  /\ sock \in [Conns -> Sockets]
  /\ conn \in Conns
  /\ mutex \in {"free", "reader"}
  /\ hello \in Seq(Nat)
  /\ retryCompleted \in BOOLEAN /\ readClosed \in BOOLEAN /\ writeClosed \in BOOLEAN
  /\ readDeadline \in {"none", "caller"} /\ writeDeadline \in {"none", "caller"}
  /\ stats \in [Bytes : Nat, Chunks : Nat, Split : Nat, Timeout : BOOLEAN]
  /\ pc \in [Threads -> PCs]
  /\ err \in Errors
  /\ split \in Nat
  /\ wpos \in Nat /\ wend \in Nat /\ bytes \in Nat

(***************************************************************************)
(* DialWithSplitRetry, after a successful Dial.                            *)
(***************************************************************************)
Init ==
  /\ usage \in Usages
  /\ sock = [c \in Conns |-> IF c = 1 THEN Dialed ELSE Unused]
  /\ conn = 1
  /\ mutex = "free"
  /\ hello = << >>
  /\ retryCompleted = FALSE /\ readClosed = FALSE /\ writeClosed = FALSE
  /\ readDeadline = "none" /\ writeDeadline = "none"
  /\ stats = [Bytes |-> 0, Chunks |-> 0, Split |-> 0, Timeout |-> FALSE]
  /\ pc = [reader |-> IF usage = "relay" THEN "read" ELSE "idle",
           writer |-> IF usage = "relay" THEN "loop" ELSE "source",
           closer |-> "idle"]
  /\ err = "nil"
  /\ split = 0
  /\ wpos = 0 /\ wend = 0 /\ bytes = 0

Goto(t, to) == pc' = [pc EXCEPT ![t] = to]

----------------------------------------------------------------------------
(***************************************************************************)
(* The reader.                                                             *)
(***************************************************************************)

(* Where Read's caller goes with its result: it stops on an error, and     *)
(* io.Copy also stops when the other side of the relay refuses the data.   *)
AfterReturn_RetriesAgain(e) == IF e = "nil" THEN {"read"} ELSE {"lock"}

AfterReturn(e) ==
  IF usage = "relay"
  THEN {"closeReadFlag"} \cup (IF e = "nil" THEN {"read"} ELSE {})
  ELSE IF e = "nil" THEN {"read"} ELSE {"done"}

(* r.conn.Read(buf), and the test of retryCompleted (which only the reader *)
(* can change).                                                            *)
Read ==
  /\ pc["reader"] = "read"
  /\ \E e \in ReadResults(sock[conn]) :
       /\ sock' = [sock EXCEPT ![conn] = AfterRead(@, e)]
       /\ err' = e
       /\ \E to \in IF retryCompleted THEN AfterReturn(e) ELSE {"lock"} :
            Goto("reader", to)
  /\ UNCHANGED <<usage, conn, mutex, hello, flags, dlines, stats, split, upload>>

(* r.mutex.Lock(); a failed read enters retry.  An EOF is no net.Error and *)
(* leaves stats.Timeout alone.                                             *)
ReadLock ==
  /\ pc["reader"] = "lock"
  /\ mutex = "free"
  /\ mutex' = "reader"
  /\ stats' = IF err \in {"nil", "eof"} THEN stats
              ELSE [stats EXCEPT !.Timeout = (err = "timeout")]
  /\ Goto("reader", IF err = "nil" THEN "complete" ELSE "redial")
  /\ UNCHANGED <<usage, sock, conn, hello, flags, dlines, err, split, upload>>

(* splitHello: a random length in MinSplit..MaxSplit, at most half.        *)
SplitPoints(m) ==
  IF m = 0 THEN {0}
  ELSE {IF s > m \div 2 THEN m \div 2 ELSE s : s \in MinSplit..MaxSplit}

(* retry: close the old socket, dial the new one, split the hello.         *)
Redial ==
  /\ pc["reader"] = "redial"
  /\ \/ /\ err' = "dial"
        /\ sock' = [sock EXCEPT ![conn] = Closed(@)]
        /\ Goto("reader", "complete")
        /\ UNCHANGED <<conn, stats, split>>
     \/ /\ conn' = conn + 1
        /\ sock' = [sock EXCEPT ![conn] = Closed(@), ![conn + 1] = Dialed]
        /\ split' \in SplitPoints(Len(hello))
        /\ stats' = [stats EXCEPT !.Split = split']
        /\ Goto("reader", "first")
        /\ UNCHANGED err
  /\ UNCHANGED <<usage, mutex, hello, flags, dlines, upload>>

(* One of retry's two writes: an error ends the retry.                     *)
Replay(segment, next) ==
  /\ \E r \in WriteResults(sock[conn], Len(segment)) :
       /\ sock' = [sock EXCEPT ![conn] = AfterWrite(@, segment, r[1])]
       /\ err' = r[2]
       /\ Goto("reader", IF r[2] = "nil" THEN next ELSE "complete")
  /\ UNCHANGED <<usage, conn, mutex, hello, flags, dlines, stats, split, upload>>

ReplayFirst ==
  /\ pc["reader"] = "first"
  /\ Replay(SubSeq(hello, 1, split), "second")

ReplaySecond_Whole ==
  /\ pc["reader"] = "second"
  /\ Replay(hello, "copyRead")

ReplaySecond ==
  /\ pc["reader"] = "second"
  /\ Replay(SubSeq(hello, split + 1, Len(hello)), "copyRead")

(* Closes that the caller asked for meanwhile are copied to the new        *)
(* socket, and so are the deadlines it set.                                *)
CopyClose_Omitted(s) == s

CopyClose(s) == IF writeClosed THEN ShutWrite(s) ELSE s

Reapply_Omitted(s) == s

Reapply(s) == WriteDeadline(ReadDeadline(s, readDeadline), writeDeadline)

CopyReadClosed ==
  /\ pc["reader"] = "copyRead"
  /\ sock' = IF readClosed THEN [sock EXCEPT ![conn] = ShutRead(@)] ELSE sock
  /\ Goto("reader", "copyWrite")
  /\ UNCHANGED <<usage, conn, mutex, hello, flags, dlines, stats, err, split, upload>>

CopyWriteClosed ==
  /\ pc["reader"] = "copyWrite"
  /\ sock' = [sock EXCEPT ![conn] = Reapply(CopyClose(@))]
  /\ Goto("reader", "retryRead")
  /\ UNCHANGED <<usage, conn, mutex, hello, flags, dlines, stats, err, split, upload>>

(* retry's own Read, made with the lock held.                              *)
RetryRead ==
  /\ pc["reader"] = "retryRead"
  /\ \E e \in ReadResults(sock[conn]) :
       /\ sock' = [sock EXCEPT ![conn] = AfterRead(@, e)]
       /\ err' = e
  /\ Goto("reader", "complete")
  /\ UNCHANGED <<usage, conn, mutex, hello, flags, dlines, stats, split, upload>>

Complete ==
  /\ pc["reader"] = "complete"
  /\ retryCompleted' = TRUE
  /\ Goto("reader", "finish")
  /\ UNCHANGED <<usage, sock, conn, mutex, hello, readClosed, writeClosed,
                 dlines, stats, err, split, upload>>

(* Unset the read deadline, drop the hello, unlock, return.                *)
Finish ==
  /\ pc["reader"] = "finish"
  /\ sock' = [sock EXCEPT ![conn] = ReadDeadline(@, "none")]
  /\ hello' = << >>
  /\ mutex' = "free"
  /\ \E to \in AfterReturn(err) : Goto("reader", to)
  /\ UNCHANGED <<usage, conn, flags, dlines, stats, err, split, upload>>

----------------------------------------------------------------------------
(***************************************************************************)
(* The writer.                                                             *)
(***************************************************************************)

(* Write returns (n, e): ReadFrom assigns n to bytes and tests             *)
(* retryCompleted again, or gives up; the http writer writes again, or not.*)
WriteReturns(n, e) ==
  /\ bytes' = IF usage = "relay" THEN n ELSE bytes
  /\ Goto("writer", CASE e # "nil" /\ usage = "relay" -> "closeWriteFlag"
                      [] e # "nil" /\ usage = "http"  -> "done"
                      [] e = "nil" /\ usage = "relay" -> "loop"
                      [] OTHER                        -> "source")

(* ReadFrom: for !r.retryCompleted().                                      *)
ReadFromLoop ==
  /\ pc["writer"] = "loop"
  /\ Goto("writer", IF retryCompleted THEN "copy" ELSE "source")
  /\ UNCHANGED <<usage, sock, conn, mutex, hello, flags, dlines, stats, err,
                 split, upload>>

(* copyOnce's src.Read, or the http writer's next buffer.                  *)
NextBuffer ==
  /\ pc["writer"] = "source"
  /\ \E k \in 1..MaxChunk :
       /\ wend + k <= MaxBytes
       /\ wend' = wend + k
  /\ Goto("writer", "write")
  /\ UNCHANGED <<usage, sock, conn, mutex, hello, flags, dlines, stats, err,
                 split, wpos, bytes>>

(* The source is at its end: copyOnce returns (0, EOF), and so does        *)
(* ReadFrom.  A client does not stop before its request is complete.       *)
SourceEOF ==
  /\ pc["writer"] = "source" /\ pc["reader"] # "idle"
  /\ wend >= RequestLen
  /\ bytes' = 0
  /\ Goto("writer", IF usage = "relay" THEN "closeWriteFlag" ELSE "done")
  /\ UNCHANGED <<usage, sock, conn, mutex, hello, flags, dlines, stats, err,
                 split, wpos, wend>>

(* Write's first test of retryCompleted, without the lock.                 *)
WriteCheck ==
  /\ pc["writer"] = "write"
  /\ Goto("writer", IF retryCompleted THEN "final" ELSE "lock")
  /\ UNCHANGED <<usage, sock, conn, mutex, hello, flags, dlines, stats, err,
                 split, upload>>

(* The second half of the double-checked locking.                          *)
Provisional_Unchecked == TRUE

Provisional == ~retryCompleted

(* Arming the response timeout, whether or not the write succeeded.        *)
Arm_AfterSuccess(s, e) == IF e = "nil" THEN ReadDeadline(s, "response") ELSE s

Arm(s, e) == ReadDeadline(s, "response")

(* Under the lock, the second test found the retry already completed.      *)
WriteLate ==
  /\ pc["writer"] = "lock"
  /\ mutex = "free"
  /\ retryCompleted
  /\ Goto("writer", "final")
  /\ UNCHANGED <<usage, sock, conn, mutex, hello, flags, dlines, stats, err,
                 split, upload>>

(* Under the lock, on the provisional socket: write, remember what was     *)
(* written, arm the response timeout.  After an error, wait for the retry. *)
WriteProvisional ==
  /\ pc["writer"] = "lock"
  /\ mutex = "free"
  /\ Provisional
  /\ LET b == Stream(wpos, wend)
     IN  \E r \in WriteResults(sock[conn], Len(b)) :
           /\ sock' = [sock EXCEPT ![conn] = Arm(AfterWrite(@, b, r[1]), r[2])]
           /\ hello' = hello \o SubSeq(b, 1, r[1])
           /\ stats' = [stats EXCEPT !.Chunks = @ + 1, !.Bytes = Len(hello')]
           /\ wpos' = wpos + r[1]
           /\ IF r[2] = "nil" THEN WriteReturns(r[1], "nil")
                              ELSE Goto("writer", "await") /\ bytes' = r[1]
  /\ UNCHANGED <<usage, conn, mutex, flags, dlines, err, split, wend>>

(* <-r.retryCompleteFlag, then Lock and Unlock.                            *)
WriteAwait_Unsignalled ==
  /\ pc["writer"] = "await"
  /\ Goto("writer", "sync")
  /\ UNCHANGED <<usage, sock, conn, mutex, hello, flags, dlines, stats, err,
                 split, upload>>

WriteAwait ==
  /\ pc["writer"] = "await"
  /\ retryCompleted
  /\ Goto("writer", "sync")
  /\ UNCHANGED <<usage, sock, conn, mutex, hello, flags, dlines, stats, err,
                 split, upload>>

WriteSync ==
  /\ pc["writer"] = "sync"
  /\ mutex = "free"
  /\ Goto("writer", "rest")
  /\ UNCHANGED <<usage, sock, conn, mutex, hello, flags, dlines, stats, err,
                 split, upload>>

(* r.conn.Write(b) or r.conn.Write(b[n:]) on the final socket.  The n of   *)
(* the failed attempt is kept in bytes, so that n + m is returned.         *)
WriteFinal ==
  /\ pc["writer"] \in {"final", "rest"}
  /\ LET b == Stream(wpos, wend)
         n == IF pc["writer"] = "rest" /\ usage = "relay" THEN bytes ELSE 0
     IN  \E r \in WriteResults(sock[conn], Len(b)) :
           /\ sock' = [sock EXCEPT ![conn] = AfterWrite(@, b, r[1])]
           /\ wpos' = wpos + r[1]
           /\ WriteReturns(n + r[1], r[2])
  /\ UNCHANGED <<usage, conn, mutex, hello, flags, dlines, stats, err, split, wend>>

(* r.conn.ReadFrom(reader): copy on until EOF or an error.                 *)
CopyFinal ==
  /\ pc["writer"] = "copy"
  /\ \E k \in 1..MaxChunk :
       /\ wend + k <= MaxBytes
       /\ wend' = wend + k
       /\ \E r \in WriteResults(sock[conn], k) :
            /\ sock' = [sock EXCEPT ![conn] = AfterWrite(@, Stream(wpos, wpos + k), r[1])]
            /\ wpos' = wpos + r[1]
            /\ bytes' = bytes + r[1]
            /\ Goto("writer", IF r[2] = "nil" THEN "copy" ELSE "closeWriteFlag")
  /\ UNCHANGED <<usage, conn, mutex, hello, flags, dlines, stats, err, split>>

CopyEOF ==
  /\ pc["writer"] = "copy"
  /\ wend >= RequestLen
  /\ Goto("writer", "closeWriteFlag")
  /\ UNCHANGED <<usage, sock, conn, mutex, hello, flags, dlines, stats, err,
                 split, upload>>

----------------------------------------------------------------------------
(***************************************************************************)
(* The TLS handshake of http.Transport, between two calls of the retrier.  *)
(* It starts with the client's hello; an error of either call ends it.     *)
(***************************************************************************)

(* The flight is written: read the server's.                               *)
HandshakeReads ==
  /\ pc["writer"] = "source" /\ pc["reader"] = "idle"
  /\ wend >= RequestLen /\ wend > 0
  /\ pc' = [pc EXCEPT !["reader"] = "read", !["writer"] = "idle"]
  /\ UNCHANGED <<usage, sock, conn, mutex, hello, flags, dlines, stats, err,
                 split, upload>>

(* The server's flight is read: answer it, or the handshake is over and    *)
(* the transport starts its read loop and its writes.                      *)
HandshakeWrites ==
  /\ pc["reader"] = "read" /\ pc["writer"] = "idle"
  /\ retryCompleted
  /\ \E next \in {"idle", "read"} :
       pc' = [pc EXCEPT !["reader"] = next, !["writer"] = "source"]
  /\ UNCHANGED <<usage, sock, conn, mutex, hello, flags, dlines, stats, err,
                 split, upload>>

----------------------------------------------------------------------------
(***************************************************************************)
(* CloseRead, CloseWrite, Close and the deadlines.  Each closes its flag   *)
(* before it waits for the lock.                                           *)
(***************************************************************************)
CloseReadFlag(t) ==
  /\ pc[t] = "closeReadFlag"
  /\ readClosed' = TRUE
  /\ Goto(t, "closeReadLock")
  /\ UNCHANGED <<usage, sock, conn, mutex, hello, retryCompleted, writeClosed,
                 dlines, stats, err, split, upload>>

CloseReadLock(t) ==
  /\ pc[t] = "closeReadLock"
  /\ mutex = "free"
  /\ sock' = [sock EXCEPT ![conn] = ShutRead(@)]
  /\ Goto(t, "done")
  /\ UNCHANGED <<usage, conn, mutex, hello, flags, dlines, stats, err, split, upload>>

CloseWriteFlag(t) ==
  /\ pc[t] = "closeWriteFlag"
  /\ writeClosed' = TRUE
  /\ Goto(t, "closeWriteLock")
  /\ UNCHANGED <<usage, sock, conn, mutex, hello, retryCompleted, readClosed,
                 dlines, stats, err, split, upload>>

(* Close goes on to CloseRead only if CloseWrite returned no error.        *)
CloseWriteLock(t) ==
  /\ pc[t] = "closeWriteLock"
  /\ mutex = "free"
  /\ sock' = [sock EXCEPT ![conn] = ShutWrite(@)]
  /\ Goto(t, IF t = "closer" /\ Healthy(sock[conn]) THEN "closeReadFlag" ELSE "done")
  /\ UNCHANGED <<usage, conn, mutex, hello, flags, dlines, stats, err, split, upload>>

Close ==
  /\ usage = "http"
  /\ pc["closer"] = "idle"
  /\ Goto("closer", "closeWriteFlag")
  /\ UNCHANGED <<usage, sock, conn, mutex, hello, flags, dlines, stats, err,
                 split, upload>>

(* A read deadline is only stored while a retry is possible.               *)
SetReadDeadline(d) ==
  /\ mutex = "free"
  /\ readDeadline' = d
  /\ sock' = IF retryCompleted THEN [sock EXCEPT ![conn] = ReadDeadline(@, d)] ELSE sock
  /\ UNCHANGED <<usage, conn, mutex, hello, flags, writeDeadline, stats, pc,
                 err, split, upload>>

SetWriteDeadline(d) ==
  /\ mutex = "free"
  /\ writeDeadline' = d
  /\ sock' = [sock EXCEPT ![conn] = WriteDeadline(@, d)]
  /\ UNCHANGED <<usage, conn, mutex, hello, flags, readDeadline, stats, pc,
                 err, split, upload>>

----------------------------------------------------------------------------
(***************************************************************************)
(* The peer and the network.                                               *)
(***************************************************************************)
Peer(c) ==
  /\ sock[c].state = "open"
  /\ \/ /\ sock[c].peer = "up" /\ ~sock[c].data
        /\ Len(sock[c].sent) >= RequestLen
        /\ sock' = [sock EXCEPT ![c] = PeerData(@)]
     \/ /\ c \in Flaky /\ sock[c].peer = "up"
        /\ sock' = [sock EXCEPT ![c] = PeerFin(@)]
     \/ /\ c \in Flaky /\ sock[c].peer # "rst"
        /\ sock' = [sock EXCEPT ![c] = PeerRst(@)]
  /\ UNCHANGED <<usage, conn, mutex, hello, flags, dlines, stats, pc, err,
                 split, upload>>

Closing(t) == \/ CloseReadFlag(t)  \/ CloseReadLock(t)
              \/ CloseWriteFlag(t) \/ CloseWriteLock(t)

Reader == \/ Read \/ ReadLock \/ Redial \/ ReplayFirst \/ ReplaySecond
          \/ CopyReadClosed \/ CopyWriteClosed \/ RetryRead \/ Complete \/ Finish
          \/ Closing("reader")

Writer == \/ ReadFromLoop \/ NextBuffer \/ SourceEOF \/ WriteCheck \/ WriteLate
          \/ WriteProvisional \/ WriteAwait \/ WriteSync \/ WriteFinal
          \/ CopyFinal \/ CopyEOF
          \/ Closing("writer")

Handshake == HandshakeReads \/ HandshakeWrites

Closer == Close \/ Closing("closer")

Deadlines == \E d \in {"none", "caller"} : SetReadDeadline(d) \/ SetWriteDeadline(d)

Next == Reader \/ Writer \/ Handshake \/ Closer \/ Deadlines \/ \E c \in Conns : Peer(c)

Spec == Init /\ [][Next]_vars

(* The goroutines are scheduled while they are in a call of the retrier,   *)
(* and time passes: a Read whose deadline is armed returns.  What callers  *)
(* call next, and when, is theirs, and no server has to answer.            *)
FairSpec == /\ Spec
            /\ WF_vars(Reader) /\ WF_vars(Closing("closer"))
            /\ WF_vars(pc["writer"] \notin {"source", "copy"} /\ Writer)

(* In addition, a client and a server that keep to their protocol: the     *)
(* one sends its request, and the one that the retry reaches answers it.   *)
ServedSpec == FairSpec /\ WF_vars(Writer) /\ WF_vars(Peer(2))

----------------------------------------------------------------------------
(***************************************************************************)
(* Properties.                                                             *)
(***************************************************************************)

(* Each socket carries a prefix of the application's stream: no byte lost, *)
(* repeated or out of order, whatever failed and wherever the retry struck.*)
(* And while no retry is in progress, the current socket, unless dead, has *)
(* every byte that Write has reported as written.                          *)
StreamIntact ==
  /\ \A c \in Conns : sock[c].sent = Stream(0, Len(sock[c].sent))
  /\ mutex = "free" /\ Healthy(sock[conn]) => Len(sock[conn].sent) = wpos

(* Why StreamIntact holds: a strengthening that every step preserves.      *)
(* The phases of the retry, and who may be where in each of them.          *)
Replaying == {"first", "second"}

Retrying == Replaying \cup {"copyRead", "copyWrite", "retryRead"}

PhaseInv ==
  /\ mutex = "reader" <=> pc["reader"] \in Critical
  /\ pc["reader"] \in (Critical \ {"finish"}) \cup {"lock"} => ~retryCompleted
  /\ pc["reader"] = "finish" => retryCompleted
  /\ pc["writer"] \in Unlocked \cup {"sync"} => retryCompleted
  /\ pc["reader"] = "redial" => conn = 1
  /\ pc["reader"] \in Retrying => conn = 2
  /\ conn = 2 => retryCompleted \/ pc["reader"] \in Retrying \cup {"complete"}

(* The hello is all that was written, so replaying it loses nothing; the   *)
(* new socket cannot refuse part of the replay and stay usable.            *)
ReplayInv ==
  /\ wpos <= wend
  /\ ~retryCompleted => hello = Stream(0, wpos)
  /\ conn = 1 => sock[2] = Unused
  /\ pc["reader"] \in Replaying => /\ split <= wpos
                                  /\ sock[2].state = "open"
                                  /\ ~sock[2].wrShut /\ sock[2].wdl = "none"
  /\ pc["reader"] = "first" => sock[2].sent = << >>

(* How much of the stream the current socket has.                          *)
SentInv ==
  /\ \A c \in Conns : sock[c].sent = Stream(0, Len(sock[c].sent))
  /\ Healthy(sock[conn]) =>
       Len(sock[conn].sent) = CASE pc["reader"] = "first"  -> 0
                                [] pc["reader"] = "second" -> split
                                [] OTHER                   -> wpos

StreamInv == PhaseInv /\ ReplayInv /\ SentInv

(* A CloseRead or CloseWrite that has returned took effect on the socket   *)
(* in use, even if it raced the retry that replaced the socket             *)
(* (retrier.go:189-198).                                                   *)
CloseNotLost ==
  mutex = "free" /\ Healthy(sock[conn]) =>
    /\ writeClosed /\ (\A t \in Threads : pc[t] # "closeWriteLock") => sock[conn].wrShut
    /\ readClosed  /\ (\A t \in Threads : pc[t] # "closeReadLock")  => sock[conn].rdShut

(* Once the first reply is in, the response timeout is gone and the hello  *)
(* is empty: a later idle period never looks like a blocked hello, and no  *)
(* Write that raced the reply re-arms it (retrier.go:234-236, 253-254).    *)
SteadyState ==
  retryCompleted /\ mutex = "free" => sock[conn].rdl # "response" /\ hello = << >>

(* The caller's write deadline is in force on whichever socket is current  *)
(* (retrier.go:49-50, 199-201).                                            *)
WriteDeadlineKept ==
  mutex = "free" /\ Healthy(sock[conn]) => sock[conn].wdl = writeDeadline

(* The socket changes only in the reader's critical section, at most once, *)
(* before the retry completes, and never under a writer that has skipped   *)
(* the lock because r.conn is final (retrier.go:38-41, 272).               *)
ConnFinal ==
  [][conn' # conn => /\ mutex = "reader" /\ ~retryCompleted
                     /\ conn = 1 /\ pc["writer"] \notin Unlocked]_vars

(* No caller waits for ever: the reply, or the timeout that the last Write *)
(* armed, ends the provisional phase that a failed Write waits out         *)
(* (retrier.go:253-266), and the retry gives back the lock that Write,     *)
(* CloseRead and CloseWrite wait for.  Two waits have no end: retry's own  *)
(* Read (retrier.go:202) of a server that never answers, with everybody    *)
(* who waits for its lock; and that of a failed Write in a handshake,      *)
(* whose goroutine is the one that would have to Read.                     *)
Blocking == {"lock", "await", "sync", "closeReadLock", "closeWriteLock"}

NobodyReads == pc["writer"] = "await" /\ pc["reader"] = "idle"

CallsReturn ==
  \A t \in Threads :
    pc[t] \in Blocking ~> \/ pc[t] \notin Blocking
                          \/ [](pc["reader"] = "retryRead")
                          \/ t = "writer" /\ []NobodyReads

----------------------------------------------------------------------------
(***************************************************************************)
(* What comments of the repository say and the code does not do.  Each of  *)
(* these is violated.                                                      *)
(***************************************************************************)

(* tcp.go:52: "UploadBytes int64 // Total bytes uploaded.", the value      *)
(* ReadFrom returned to handleUpload.                                      *)
UploadBytesTotal ==
  usage = "relay" /\ pc["writer"] \in {"closeWriteFlag", "closeWriteLock", "done"}
    => bytes = wpos

(* retrier.go:113: "transparently retries": a client and a server that     *)
(* both keep to their protocol are not stopped by the retry, whenever the  *)
(* first socket fails, also before the request is written.                 *)
RetryEnds == conn = 2 ~> retryCompleted

(* retrier.go:261: "A write error occurred on the provisional socket.      *)
(* This should be handled by the retry procedure."  In a handshake nobody  *)
(* is left to run it.                                                      *)
FailedWriteRetried == pc["writer"] = "await" /\ ~writeClosed ~> retryCompleted
============================================================================
