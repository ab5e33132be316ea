------------------------------ MODULE TCPRelay ------------------------------
(***************************************************************************)
(* The relay of intra/tcp.go: forward, handleUpload and handleDownload on  *)
(* the app's socket (local) and one of the three kinds of remote socket: a *)
(* net.TCPConn ("plain"), the splitter of direct_split.go ("split"), the   *)
(* retrier ("retry").  Module Retrier has the inside of the last one; here *)
(* it is the phases that ReadFrom and the summary depend on.               *)
(*                                                                         *)
(* Data is counted in bytes: sent is what the server was given (again,     *)
(* after a retry), delivered what the app was given.                       *)
(***************************************************************************)
EXTENDS Naturals, Sequences

CONSTANTS
  Conns,               \* connections
  MaxBytes, MaxChunk,  \* bounds: bytes in each direction, bytes in one Read
  MinSplit, MaxSplit,  \* splitHello's range (32, 64)
  None                 \* nil

VARIABLES
  mode,      \* the kind of the remote socket
  local, remote,         \* the sockets
  up, down,  \* where handleUpload and forward (with handleDownload) are
  bytes,     \* the results of handleUpload and handleDownload
  retry,     \* the retrier: its phase and summary.Retry
  hello,     \* the writes in which the splitter sent the first chunk
  summary,   \* the argument of OnTCPSocketClosed
  sent, delivered

relayVars == <<mode, local, remote, up, down, bytes, retry, hello, summary, sent, delivered>>

Bytes == 0..MaxBytes

(* peer: the other end may still send, has sent FIN, or has reset.  read   *)
(* and write: this end has not been shut by CloseRead, CloseWrite.         *)
Ends  == [peer : {"open", "fin", "rst"}, read : BOOLEAN, write : BOOLEAN]
Fresh == [peer |-> "open", read |-> TRUE, write |-> TRUE]

RetryStats == [phase : {"provisional", "retrying", "completed"},
               Split : Nat, Timeout : BOOLEAN]

Modes       == {"plain", "split", "retry"}
UploadPCs   == {"loop", "once", "copy", "closeLocal", "closeRemote", "send", "done"}
DownloadPCs == {"copy", "closeLocal", "closeRemote", "receive", "closed", "sni", "done"}

TCPSocketSummary == [UploadBytes : Bytes, DownloadBytes : Bytes]

RelayTypeOK ==
  /\ mode \in [Conns -> Modes \cup {None}]
  /\ local \in [Conns -> Ends] /\ remote \in [Conns -> Ends]
  /\ up \in [Conns -> UploadPCs \cup {None}] /\ down \in [Conns -> DownloadPCs \cup {None}]
  /\ bytes \in [Conns -> [up : Bytes, down : Bytes]]
  /\ retry \in [Conns -> RetryStats \cup {None}]
  /\ hello \in [Conns -> Seq(Bytes)]
  /\ summary \in [Conns -> TCPSocketSummary \cup {None}]
  /\ sent \in [Conns -> Bytes] /\ delivered \in [Conns -> Bytes]

RelayInit ==
  /\ mode = [c \in Conns |-> None]
  /\ local = [c \in Conns |-> Fresh] /\ remote = [c \in Conns |-> Fresh]
  /\ up = [c \in Conns |-> None] /\ down = [c \in Conns |-> None]
  /\ bytes = [c \in Conns |-> [up |-> 0, down |-> 0]]
  /\ retry = [c \in Conns |-> None]
  /\ hello = [c \in Conns |-> << >>]
  /\ summary = [c \in Conns |-> None]
  /\ sent = [c \in Conns |-> 0] /\ delivered = [c \in Conns |-> 0]

Phase(c) == IF retry[c] = None THEN "completed" ELSE retry[c].phase

(* splitHello, of an empty hello too.                                      *)
SplitPoints_Whole(m) == {IF s > m THEN m ELSE s : s \in MinSplit..MaxSplit}

SplitPoints(m) == {IF s > m \div 2 THEN m \div 2 ELSE s : s \in MinSplit..MaxSplit}

----------------------------------------------------------------------------
(* forward starts; ReadFrom begins with what its implementation does first.*)
StartForward(c) ==
  /\ up' = [up EXCEPT ![c] = CASE mode[c] = "plain" -> "copy"
                               [] mode[c] = "split" -> "once"
                               [] mode[c] = "retry" -> "loop"]
  /\ down' = [down EXCEPT ![c] = "copy"]
  /\ UNCHANGED <<mode, local, remote, bytes, retry, hello, summary, sent, delivered>>

(* A Write of n bytes to a socket whose peer has reset it is cut short.    *)
Taken(end, n) == IF end.peer = "rst" THEN 0..(n - 1) ELSE {n}

(* retrier.ReadFrom: for !r.retryCompleted().                              *)
UploadLoop(c) ==
  /\ up[c] = "loop"
  /\ up' = [up EXCEPT ![c] = IF Phase(c) = "completed" THEN "copy" ELSE "once"]
  /\ UNCHANGED <<mode, local, remote, down, bytes, retry, hello, summary, sent, delivered>>

(* copyOnce: one Read and one Write.  The retrier's Write waits for the    *)
(* lock during a retry, and for the retry itself after a failure.          *)
UploadOnce(c) ==
  /\ up[c] = "once" /\ local[c].peer = "open"
  /\ Phase(c) = "completed" \/ (Phase(c) = "provisional" /\ remote[c].peer # "rst")
  /\ \E n \in 1..MaxChunk :
       /\ sent[c] + n <= MaxBytes
       /\ \E k \in Taken(remote[c], n) :
            /\ sent' = [sent EXCEPT ![c] = @ + k]
            /\ bytes' = [bytes EXCEPT ![c].up = k]
            /\ up' = [up EXCEPT ![c] = IF k < n THEN "closeLocal"
                                       ELSE IF mode[c] = "retry" THEN "loop" ELSE "copy"]
            /\ IF mode[c] = "split" /\ k = n
               THEN \E s \in SplitPoints(n) : hello' = [hello EXCEPT ![c] = <<s, n - s>>]
               ELSE UNCHANGED hello
  /\ UNCHANGED <<mode, local, remote, down, retry, summary, delivered>>

(* net.TCPConn.ReadFrom: one buffer.                                       *)
UploadCopy_Overwrites(c) ==
  /\ up[c] = "copy" /\ local[c].peer = "open"
  /\ \E n \in 1..MaxChunk :
       /\ sent[c] + n <= MaxBytes
       /\ \E k \in Taken(remote[c], n) :
            /\ sent' = [sent EXCEPT ![c] = @ + k]
            /\ bytes' = [bytes EXCEPT ![c].up = k]
            /\ up' = [up EXCEPT ![c] = IF k < n THEN "closeLocal" ELSE "copy"]
  /\ UNCHANGED <<mode, local, remote, down, retry, hello, summary, delivered>>

UploadCopy(c) ==
  /\ up[c] = "copy" /\ local[c].peer = "open"
  /\ \E n \in 1..MaxChunk :
       /\ sent[c] + n <= MaxBytes
       /\ \E k \in Taken(remote[c], n) :
            /\ sent' = [sent EXCEPT ![c] = @ + k]
            /\ bytes' = [bytes EXCEPT ![c].up = @ + k]
            /\ up' = [up EXCEPT ![c] = IF k < n THEN "closeLocal" ELSE "copy"]
  /\ UNCHANGED <<mode, local, remote, down, retry, hello, summary, delivered>>

(* The Read of local ends the upload; copyOnce then returns 0.             *)
UploadEnds(c) ==
  /\ up[c] \in {"once", "copy"} /\ local[c].peer # "open"
  /\ bytes' = [bytes EXCEPT ![c].up = IF up[c] = "once" THEN 0 ELSE @]
  /\ up' = [up EXCEPT ![c] = "closeLocal"]
  /\ UNCHANGED <<mode, local, remote, down, retry, hello, summary, sent, delivered>>

(* local.CloseRead()                                                       *)
UploadCloseLocal(c) ==
  /\ up[c] = "closeLocal"
  /\ local' = [local EXCEPT ![c].read = FALSE]
  /\ up' = [up EXCEPT ![c] = "closeRemote"]
  /\ UNCHANGED <<mode, remote, down, bytes, retry, hello, summary, sent, delivered>>

(* remote.CloseWrite(), which waits for the lock during a retry.           *)
UploadCloseRemote(c) ==
  /\ up[c] = "closeRemote" /\ Phase(c) # "retrying"
  /\ remote' = [remote EXCEPT ![c].write = FALSE]
  /\ up' = [up EXCEPT ![c] = "send"]
  /\ UNCHANGED <<mode, local, down, bytes, retry, hello, summary, sent, delivered>>

----------------------------------------------------------------------------
(* io.Copy(local, remote): one buffer.  The first one completes the        *)
(* retrier's phase.                                                        *)
DownloadChunk(c) ==
  /\ down[c] = "copy" /\ remote[c].peer = "open"
  /\ \E n \in 1..MaxChunk :
       /\ delivered[c] + n <= MaxBytes
       /\ \E k \in Taken(local[c], n) :
            /\ delivered' = [delivered EXCEPT ![c] = @ + k]
            /\ bytes' = [bytes EXCEPT ![c].down = @ + k]
            /\ down' = [down EXCEPT ![c] = IF k < n THEN "closeLocal" ELSE "copy"]
  /\ retry' = [retry EXCEPT ![c] = IF @ = None THEN None ELSE [@ EXCEPT !.phase = "completed"]]
  /\ UNCHANGED <<mode, local, remote, up, hello, summary, sent>>

DownloadEnds(c) ==
  /\ down[c] = "copy" /\ remote[c].peer # "open" /\ Phase(c) # "provisional"
  /\ down' = [down EXCEPT ![c] = "closeLocal"]
  /\ retry' = [retry EXCEPT ![c] = IF @ = None THEN None ELSE [@ EXCEPT !.phase = "completed"]]
  /\ UNCHANGED <<mode, local, remote, up, bytes, hello, summary, sent, delivered>>

(* The retrier's first Read fails: the peer has ended, or nothing came in  *)
(* time after a write.  It dials again and replays what was sent, or gives *)
(* up.                                                                     *)
Retry(c) ==
  /\ down[c] = "copy" /\ Phase(c) = "provisional"
  /\ \E timeout \in BOOLEAN :
       /\ IF timeout THEN sent[c] > 0 ELSE remote[c].peer # "open"
       /\ \/ /\ \E s \in SplitPoints(sent[c]) :
                  retry' = [retry EXCEPT ![c] = [phase |-> "retrying", Split |-> s,
                                                 Timeout |-> timeout]]
             /\ remote' = [remote EXCEPT ![c].peer = "open"]
             /\ UNCHANGED down
          \/ /\ retry' = [retry EXCEPT ![c].phase = "completed", ![c].Timeout = timeout]
             /\ remote' = [remote EXCEPT ![c].peer = "rst"]
             /\ down' = [down EXCEPT ![c] = "closeLocal"]
  /\ UNCHANGED <<mode, local, up, bytes, hello, summary, sent, delivered>>

(* local.CloseWrite()                                                      *)
DownloadCloseLocal_Skipped(c) ==
  /\ down[c] = "closeLocal"
  /\ down' = [down EXCEPT ![c] = "closeRemote"]
  /\ UNCHANGED <<mode, local, remote, up, bytes, retry, hello, summary, sent, delivered>>

DownloadCloseLocal(c) ==
  /\ down[c] = "closeLocal"
  /\ local' = [local EXCEPT ![c].write = FALSE]
  /\ down' = [down EXCEPT ![c] = "closeRemote"]
  /\ UNCHANGED <<mode, remote, up, bytes, retry, hello, summary, sent, delivered>>

(* remote.CloseRead()                                                      *)
DownloadCloseRemote(c) ==
  /\ down[c] = "closeRemote"
  /\ remote' = [remote EXCEPT ![c].read = FALSE]
  /\ down' = [down EXCEPT ![c] = "receive"]
  /\ UNCHANGED <<mode, local, up, bytes, retry, hello, summary, sent, delivered>>

----------------------------------------------------------------------------
(* upload <- bytes meets <-upload on the unbuffered channel.               *)
Join_NoWait(c) ==
  /\ down[c] = "receive"
  /\ up' = [up EXCEPT ![c] = IF @ = "send" THEN "done" ELSE @]
  /\ down' = [down EXCEPT ![c] = "closed"]
  /\ UNCHANGED <<mode, local, remote, bytes, retry, hello, summary, sent, delivered>>

Join(c) ==
  /\ up[c] = "send" /\ down[c] = "receive"
  /\ up' = [up EXCEPT ![c] = "done"]
  /\ down' = [down EXCEPT ![c] = "closed"]
  /\ UNCHANGED <<mode, local, remote, bytes, retry, hello, summary, sent, delivered>>

OnTCPSocketClosed(c) ==
  /\ down[c] = "closed"
  /\ summary' = [summary EXCEPT ![c] = [UploadBytes |-> bytes[c].up,
                                        DownloadBytes |-> bytes[c].down]]
  /\ down' = [down EXCEPT ![c] = IF retry[c] = None THEN "done" ELSE "sni"]
  /\ UNCHANGED <<mode, local, remote, up, bytes, retry, hello, sent, delivered>>

handleUpload(c) == \/ UploadLoop(c) \/ UploadOnce(c) \/ UploadCopy(c) \/ UploadEnds(c)
                   \/ UploadCloseLocal(c) \/ UploadCloseRemote(c)

handleDownload(c) == \/ DownloadChunk(c) \/ DownloadEnds(c) \/ Retry(c)
                     \/ DownloadCloseLocal(c) \/ DownloadCloseRemote(c)

forward(c) == handleUpload(c) \/ handleDownload(c) \/ Join(c) \/ OnTCPSocketClosed(c)

(* The app, or the server, ends its stream or resets the connection.       *)
AppEnds(c) ==
  /\ mode[c] # None
  /\ \E how \in {"fin", "rst"} :
       /\ local[c].peer = "open" \/ (local[c].peer = "fin" /\ how = "rst")
       /\ local' = [local EXCEPT ![c].peer = how]
  /\ UNCHANGED <<mode, remote, up, down, bytes, retry, hello, summary, sent, delivered>>

ServerEnds(c) ==
  /\ down[c] # None
  /\ \E how \in {"fin", "rst"} :
       /\ remote[c].peer = "open" \/ (remote[c].peer = "fin" /\ how = "rst")
       /\ remote' = [remote EXCEPT ![c].peer = how]
  /\ UNCHANGED <<mode, local, up, down, bytes, retry, hello, summary, sent, delivered>>

----------------------------------------------------------------------------
(* What is sure to go on: goroutines that need no data to move; and an app *)
(* or a server that has been told that the other side is finished ends its *)
(* own stream.  Nothing is sure of the server of a retry, which is told    *)
(* nothing while the retry has the lock.                                   *)
UploadGoesOn(c) == UploadLoop(c) \/ UploadEnds(c) \/ UploadCloseLocal(c) \/ UploadCloseRemote(c)

DownloadGoesOn(c) == \/ DownloadEnds(c) \/ (remote[c].peer # "open" /\ Retry(c))
                     \/ DownloadCloseLocal(c) \/ DownloadCloseRemote(c)

AppNotified(c) == local[c].peer = "open" /\ ~local[c].write /\ AppEnds(c)

ServerNotified(c) == remote[c].peer = "open" /\ ~remote[c].write /\ ServerEnds(c)

----------------------------------------------------------------------------
(* A socket is reported once, when both directions have ended and all four *)
(* halves of its two sockets are shut: the numbers are final (tcp.go:78-105*)
(* and 60-63).                                                             *)
ReportedWhenOver ==
  [][\A c \in Conns : summary'[c] # summary[c] =>
       /\ summary[c] = None
       /\ ~local[c].read /\ ~local[c].write /\ ~remote[c].read /\ ~remote[c].write]_relayVars

(* The summary is the truth about the bytes, also when a Write was cut     *)
(* short, when the first chunk was split, and when the app went away while *)
(* the socket was being dialled (tcp.go:51-52, direct_split.go:66-80).     *)
(* The retrier's own count is excepted: see UploadBytesTotal of Retrier.   *)
SummaryTrue ==
  \A c \in Conns : summary[c] # None =>
    /\ summary[c].DownloadBytes = delivered[c]
    /\ mode[c] # "retry" => summary[c].UploadBytes = sent[c]

(* A connection is over in both directions once it is over in one: each    *)
(* goroutine passes the end on to the other side, so that forward does not *)
(* wait for the other goroutine for ever (tcp.go:78-99).  The exception is *)
(* a retry whose server stays silent: it reads with the lock held and no   *)
(* deadline (retrier.go:202), CloseWrite waits for the lock (retrier.go:   *)
(* 306), and so forward waits as long as that server likes.                *)
Over(pc) == pc \in {"closeLocal", "closeRemote", "send", "receive"}

RelayEnds == \A c \in Conns : Over(up[c]) \/ Over(down[c]) ~>
               summary[c] # None \/ [](Phase(c) = "retrying")

(* DialWithSplit "always splits the initial upstream segment" (direct_     *)
(* split.go:35): two non-empty writes, if there are two bytes to split.    *)
AlwaysSplits ==
  \A c \in Conns : hello[c] # << >> /\ hello[c][1] + hello[c][2] > 1 =>
    hello[c][1] > 0 /\ hello[c][2] > 0
============================================================================
