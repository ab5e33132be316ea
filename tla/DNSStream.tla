----------------------------- MODULE DNSStream -----------------------------
(***************************************************************************)
(* intra/doh/doh.go: DNS over TCP.  Accept reads the queries of one socket *)
(* and starts a goroutine for each, which asks the transport and writes    *)
(* the response to the same socket.                                        *)
(*                                                                         *)
(* The length and the body of a query take one Read each; a Read that does *)
(* not bring all of it ends Accept.  A frame is two pieces, its length and *)
(* its body, so that interleaved or broken writes are visible.             *)
(***************************************************************************)
EXTENDS Naturals, Sequences

CONSTANTS
  Conns,       \* the sockets that the core hands over
  MaxQueries   \* bound: queries on one socket

VARIABLE stream   \* Accept, its goroutines and its socket, for each of Conns

Numbers == 1..MaxQueries

(* A forwardQueryAndCheck: not started, in t.Query, about to write the     *)
(* response (with or without a query error to return afterwards), about to *)
(* close the socket, finished.                                             *)
QueryPCs == {"none", "query", "write", "writeError", "close", "done"}

Streams ==
  [accept : {"none", "length", "query", "close", "done"},
   open   : BOOLEAN,                     \* the socket is usable
   query  : [Numbers -> QueryPCs],
   frames : Seq(Numbers \X {"length", "body"})]

NoStream == [accept |-> "none", open |-> FALSE,
             query |-> [k \in Numbers |-> "none"], frames |-> << >>]

(* go doh.Accept(dns, conn)                                                *)
Accept(c) ==
  stream' = [stream EXCEPT ![c] = [NoStream EXCEPT !.accept = "length", !.open = TRUE]]

----------------------------------------------------------------------------
(* Both bytes of the length.                                               *)
ReadLength(c) ==
  /\ stream[c].accept = "length" /\ stream[c].open
  /\ stream' = [stream EXCEPT ![c].accept = "query"]

(* All of the query: go forwardQueryAndCheck(t, q, c).                     *)
ReadQuery(c) ==
  /\ stream[c].accept = "query" /\ stream[c].open
  /\ \E k \in Numbers :
       /\ stream[c].query[k] = "none"
       /\ \A j \in 1..(k - 1) : stream[c].query[j] # "none"
       /\ stream' = [stream EXCEPT ![c].query[k] = "query", ![c].accept = "length"]

(* The stub has shut down, the socket fails or is closed, or the Read is   *)
(* short.                                                                  *)
ReadFails(c) ==
  /\ stream[c].accept \in {"length", "query"}
  /\ stream' = [stream EXCEPT ![c].accept = "close"]

AcceptCloses(c) ==
  /\ stream[c].accept = "close"
  /\ stream' = [stream EXCEPT ![c].accept = "done", ![c].open = FALSE]

----------------------------------------------------------------------------
(* t.Query returns a response, a SERVFAIL with an error, or an error only. *)
(* A response of more than 65535 bytes is an error, too.                   *)
Query(c, k) ==
  /\ stream[c].query[k] = "query"
  /\ \E next \in {"write", "writeError", "close"} :
       stream' = [stream EXCEPT ![c].query[k] = next]

(* Where a goroutine goes once its frame is written.                       *)
AfterWrite(pc) == IF pc = "write" THEN "done" ELSE "close"

(* The combined write.  One that fails leaves part of the frame, at most,  *)
(* on a socket that takes nothing more.                                    *)
WriteFrame_Separate(c, k) ==
  /\ stream[c].query[k] \in {"write", "writeError"} /\ stream[c].open
  /\ \/ /\ <<k, "length">> \notin {stream[c].frames[i] : i \in DOMAIN stream[c].frames}
        /\ stream' = [stream EXCEPT ![c].frames = Append(@, <<k, "length">>)]
     \/ /\ <<k, "length">> \in {stream[c].frames[i] : i \in DOMAIN stream[c].frames}
        /\ stream' = [stream EXCEPT ![c].frames = Append(@, <<k, "body">>),
                                    ![c].query[k] = AfterWrite(@)]

WriteFrame(c, k) ==
  /\ stream[c].query[k] \in {"write", "writeError"} /\ stream[c].open
  /\ stream' = [stream EXCEPT ![c].frames = @ \o << <<k, "length">>, <<k, "body">> >>,
                              ![c].query[k] = AfterWrite(@)]

WriteFails(c, k) ==
  /\ stream[c].query[k] \in {"write", "writeError"}
  /\ \E part \in IF stream[c].open THEN {<< >>, << <<k, "length">> >>} ELSE {<< >>} :
       stream' = [stream EXCEPT ![c].frames = @ \o part, ![c].open = FALSE,
                                ![c].query[k] = "close"]

(* forwardQueryAndCheck closes the socket after an error.                  *)
CloseOnError_Logs(c, k) ==
  /\ stream[c].query[k] = "close"
  /\ stream' = [stream EXCEPT ![c].query[k] = "done"]

CloseOnError(c, k) ==
  /\ stream[c].query[k] = "close"
  /\ stream' = [stream EXCEPT ![c].query[k] = "done", ![c].open = FALSE]

----------------------------------------------------------------------------
AcceptStep(c) == ReadLength(c) \/ ReadQuery(c) \/ ReadFails(c) \/ AcceptCloses(c)

forwardQueryAndCheck(c, k) ==
  Query(c, k) \/ WriteFrame(c, k) \/ WriteFails(c, k) \/ CloseOnError(c, k)

StreamStep(c) == AcceptStep(c) \/ \E k \in Numbers : forwardQueryAndCheck(c, k)

(* Accept goes on when its socket is closed; a live stub may be silent.    *)
AcceptNotified(c) == AcceptCloses(c) \/ (~stream[c].open /\ ReadFails(c))

----------------------------------------------------------------------------
Answered(c, k) ==
  \E i \in DOMAIN stream[c].frames : stream[c].frames[i] = <<k, "body">>

(* The goroutines of one socket write to it at the same time: what the     *)
(* stub gets is whole frames, one at most for each query, and perhaps the  *)
(* beginning of a last one (doh.go:489-496).                               *)
FramesWhole ==
  \A c \in Conns :
    LET f == stream[c].frames
    IN  \A i \in DOMAIN f :
          /\ f[i][2] = "body" <=> i % 2 = 0
          /\ i % 2 = 0 => f[i][1] = f[i - 1][1]
          /\ \A j \in DOMAIN f : f[i] = f[j] => i = j

(* A query that Accept has read is answered, or the stub learns that it    *)
(* will not be: the socket is closed, and Accept has noticed and returned. *)
(* This covers a failed query, a failed write and a SERVFAIL, whose error  *)
(* closes the socket under the other queries (doh.go:477-508, 541-542).    *)
QueriesSettle ==
  \A c \in Conns, k \in Numbers :
    stream[c].query[k] = "query" ~> Answered(c, k) \/ stream[c].accept = "done"
============================================================================
