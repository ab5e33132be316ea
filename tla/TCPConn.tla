------------------------------ MODULE TCPConn ------------------------------
(***************************************************************************)
(* net.TCPConn, seen through the calls package split makes on it.  The     *)
(* type belongs to Go's library, so every operator here is an external     *)
(* assumption, stated as a function of one socket's record:                *)
(*                                                                         *)
(*   state  the local descriptor: never dialled, open, or Close()d         *)
(*   peer   what the peer has done: nothing, sent FIN, or reset            *)
(*   rdShut, wrShut   shutdown(SHUT_RD), shutdown(SHUT_WR) has been called *)
(*   data   the peer's bytes are waiting to be read                        *)
(*   rdl    read deadline: none, the retrier's response timeout, or the    *)
(*          caller's                                                       *)
(*   wdl    write deadline: none or the caller's                           *)
(*   sent   the bytes handed to the peer, each byte being its position in  *)
(*          the stream the application produces                            *)
(***************************************************************************)
EXTENDS Integers, Sequences

Sockets == [state : {"unused", "open", "closed"}, peer : {"up", "fin", "rst"},
            rdShut : BOOLEAN, wrShut : BOOLEAN, data : BOOLEAN,
            rdl : {"none", "response", "caller"}, wdl : {"none", "caller"},
            sent : Seq(Nat)]

Errors == {"nil", "eof", "reset", "timeout", "closed", "dial"}

(* A descriptor that was never dialled, and one that has just connected.   *)
Unused == [state |-> "unused", peer |-> "up", rdShut |-> FALSE,
           wrShut |-> FALSE, data |-> FALSE, rdl |-> "none", wdl |-> "none",
           sent |-> << >>]

Dialed == [Unused EXCEPT !.state = "open"]

(* Close: of a closed descriptor nothing matters but what it sent.         *)
Closed(s) == [Unused EXCEPT !.state = "closed", !.sent = s.sent]

Healthy(s) == s.state = "open" /\ s.peer # "rst"

(* What Read can return now; Read blocks while the set is empty.  "nil"    *)
(* stands for a positive number of bytes.                                  *)
ReadResults(s) ==
  {err \in Errors :
     \/ err = "nil"     /\ Healthy(s) /\ s.data
     \/ err = "eof"     /\ Healthy(s) /\ (s.rdShut \/ (s.peer = "fin" /\ ~s.data))
     \/ err = "reset"   /\ s.state = "open" /\ s.peer = "rst"
     \/ err = "timeout" /\ s.state = "open" /\ s.rdl # "none"
     \/ err = "closed"  /\ s.state = "closed"}

AfterRead(s, err) == IF err = "nil" THEN [s EXCEPT !.data = FALSE] ELSE s

(* The pairs <<n, err>> that Write of m bytes can return: all m bytes, or  *)
(* an error after the first n of them.                                     *)
WriteResults(s, m) ==
  {r \in (0..m) \X Errors :
     \/ r[1] = m /\ r[2] = "nil" /\ Healthy(s) /\ ~s.wrShut
     \/ r[1] < m /\ r[2] = "timeout" /\ Healthy(s) /\ ~s.wrShut /\ s.wdl # "none"
     \/ (r[1] < m \/ m = 0) /\ r[2] = "reset" /\ s.state = "open" /\ s.peer = "rst"
     \/ r[1] = 0 /\ r[2] = "closed" /\ (s.state = "closed" \/ s.wrShut)}

(* A write that meets a reset may count bytes, but they reach nobody.      *)
AfterWrite(s, b, n) ==
  IF Healthy(s) THEN [s EXCEPT !.sent = @ \o SubSeq(b, 1, n)] ELSE s

(* Shutting down one direction of a dead socket fails (ENOTCONN).          *)
ShutRead(s)  == IF Healthy(s) THEN [s EXCEPT !.rdShut = TRUE] ELSE s

ShutWrite(s) == IF Healthy(s) THEN [s EXCEPT !.wrShut = TRUE] ELSE s

ReadDeadline(s, d)  == IF s.state = "open" THEN [s EXCEPT !.rdl = d] ELSE s

WriteDeadline(s, d) == IF s.state = "open" THEN [s EXCEPT !.wdl = d] ELSE s

(* The peer's and the network's doings.                                    *)
PeerData(s) == [s EXCEPT !.data = TRUE]

PeerFin(s)  == [s EXCEPT !.peer = "fin"]

PeerRst(s)  == [s EXCEPT !.peer = "rst"]
============================================================================
