# A TLA+ model of outline-go-tun2socks

This directory holds TLA+ modules that model `outline-go-tun2socks`, TLC configurations that check them on small instances,
and TLAPS proofs of every invariant and every action property that the passing
runs check.
`PROJECT.json` lists components, runs, hazards, findings and theorems, and maps
every definition to the lines it models.

    tlc -config MCRetrier.cfg MCRetrier      # one run
    tlc -config MCIntra.cfg MCIntra          # another
    tlapm RetrierProofs.tla                  # the proofs of one module

## 1. The system

The repository turns IP packets from a TUN device into sockets, with the
user-space TCP/IP stack of go-tun2socks (the "core", external). Two products
share it. **Intra** forwards traffic directly, sends DNS to a DNS-over-HTTPS
(DoH) server, and retries TLS connections that a middlebox seems to block.
**Outline** forwards everything to a Shadowsocks proxy.

| Component | State | Operations | Talks to |
|---|---|---|---|
| split retrier, `intra/split/retrier.go` | current socket, replay buffer `hello`, three one-way flags, deadlines, a mutex | Read (with retry), Write, ReadFrom, CloseRead/CloseWrite/Close, Set…Deadline | sockets; called by the TCP handler and by the DoH `http.Client` |
| direct splitter, `direct_split.go` | `used` | Write, ReadFrom | sockets |
| IP map, `intra/doh/ipmap` | host → set of addresses, one of them confirmed; a lock for the map and one per set | Get, Add, Confirm, Disconfirm, GetAll | resolver; called by the DoH transport |
| DoH transport, `intra/doh/doh.go` | IP map, HTTP connections, hangover expiry | Query, dial, Accept (DNS over TCP) | IP map, retrier, listener |
| padding, `intra/doh/padding.go` | none | AddEdnsPadding | DoH transport |
| UDP handler, `intra/udp.go` | association → tracker (socket and counters), DNS transport, an RWMutex | Connect, ReceiveTo, Close, SetDNS; goroutines fetchUDPInput and doDoh | core, DoH transport, listener |
| TCP handler, `intra/tcp.go` | DNS transport, split mode | Handle, forward | core, retrier, DoH Accept, SNI reporter |
| SNI reporter, `intra/sni_reporter.go` | transport, Choir reporter | Report, Send, Configure, SetDNS | DoH transport |
| Intra tunnel, `intra/tunnel.go` | transport, the two handlers | SetDNS, SetAlwaysSplitHTTPS, EnableSNIReporter | handlers |
| base tunnel, `tunnel/` | connected flag, TUN file | Disconnect, Write; the TUN read loop | core |
| Outline tunnel, `outline/tunnel.go` | `isUDPEnabled`, the registered handlers | UpdateUDPSupport | core, Shadowsocks handlers |
| Shadowsocks handlers, `shadowsocks/` | UDPConn → proxy socket | Connect, ReceiveTo, Close; goroutine handleDownstreamUDP | core, Shadowsocks client |
| connectivity checks, desktop client | an attempt counter, a channel | CheckConnectivity; main | Shadowsocks client |
| mobile wrappers, protect, client_auth | none worth a model | construction, system calls | the platform |

What is hard in it:

* **The retrier** swaps its socket under two goroutines that partly use it
  without the lock. Writes can fail half-way, closes and deadlines can arrive
  in the middle of the swap, and what was written must be replayed exactly.
* **The IP map** looks up names without a lock and tests before it locks.
* **The DoH transport** lets concurrent queries change shared addresses,
  connections and a hangover; failures clean up after the fact, possibly after
  others have moved on; and it edits the caller's buffer.
* **The UDP handler** lets several goroutines close an association that others
  are using, and reads counters that nobody locks.
* **The TCP relay** has one goroutine for each direction, joined by a channel;
  each must end when the other does. DNS sockets carry the responses of
  concurrent queries, any of which may close the socket.
* **The tunnels** are reconfigured and disconnected while a packet loop runs.

What makes each component correct: the retrier delivers the application's byte
stream, loses no close and no write deadline, and blocks nobody for longer than
its server does; the IP map
behaves as if its operations were atomic; the DoH transport answers every query
with its own ID and changes shared state only for good reasons; the UDP handler
discards every association exactly once and accounts for all its packets; the
TCP handler reports every relay once, when it is over, with true numbers, and
leaves no DNS query waiting on an open socket; a setting that was changed is the
one used from then on; a disconnected tunnel ends its loop and its sockets; the
connectivity check ends with the code that describes the network.

## 2. Modules

| Module | Models | Checked by |
|---|---|---|
| `TCPConn` | `net.TCPConn` as package `split` uses it (external): one socket's record and what each call does to it | through `Retrier` |
| `Retrier` | `retrier.go` and its two callers | `MCRetrier*` |
| `RetrierProofs` | theorems about the byte stream of `Retrier` | tlapm |
| `RetrierCallsProofs` | theorems about its closes and deadlines, on top of `RetrierProofs` | tlapm |
| `IPMapSpec` | what `ipmap` promises: atomic operations on one set per host | through `IPMap`, `DoH` |
| `IPMap` | `ipmap.go` at the granularity of its locks | `MCIPMap` |
| `IPMapProofs` | theorems about `IPMap`, and that it implements `IPMapSpec` | tlapm |
| `Padding` | the lengths that `padding.go` computes | through `DoH` |
| `DoH` | `NewTransport`, `dial`, `doQuery`, `sendRequest`, `Query` of `doh.go`, over `IPMapSpec` and `Padding` | `MCDoH*` |
| `DoHProofs` | theorems about `DoH` and `Padding` | tlapm |
| `UDPHandler` | `udp.go` | `MCUDPHandler` |
| `UDPHandlerProofs` | theorems about `UDPHandler` | tlapm |
| `DNSStream` | `Accept`, `forwardQuery`, `forwardQueryAndCheck` of `doh.go` | through `Intra` |
| `TCPRelay` | `forward`, `handleUpload`, `handleDownload` of `tcp.go`, `direct_split.go`, the retrier seen from outside | through `Intra` |
| `Intra` | the rest of `tcp.go`, `sni_reporter.go`, `atomic.go`, `intra/tunnel.go`; composes `TCPRelay` and `DNSStream` | `MCIntra` |
| `IntraProofs` | theorems about `Intra`, `TCPRelay` and `DNSStream` | tlapm |
| `Outline` | `tunnel/`, `outline/tunnel.go`, `shadowsocks/udp.go` | `MCOutline` |
| `OutlineProofs` | theorems about `Outline` | tlapm |
| `Desktop` | `outline/electron/main.go` and both `connectivity.go` | `MCDesktop` |
| `DesktopProofs` | theorems about `Desktop` | tlapm |

`IPMap` implements `IPMapSpec` (a refinement, checked as the property
`ImplementsIPMap` and proved as `MapIsAtomic`), and `DoH` is composed with `IPMapSpec`: this is why the DoH
model can take an operation on the map in one step.

### Retrier

The application's upload is the stream 1, 2, 3, …, and each socket records in
`sent` what it was given; loss, repetition and reordering are then visible.
`pc["reader"]`, `pc["writer"]` and `pc["closer"]` are the three goroutines. The
reader's steps between `Lock` and `Unlock` are separate actions because the
writer can run, set flags and fail between them; `mutex` is `"reader"` for that
long. Everyone else's critical sections are one action with the guard
`mutex = "free"`. `retryCompleted`, `readClosed` and `writeClosed` are the three
flag channels. The deadlines are `none`, the retrier's `response` timeout or the
`caller`'s; a `Read` with a deadline may time out whenever it has nothing better
to return. `usage` says whether the callers are those of `tcp.go` (`relay`:
`ReadFrom` and `io.Copy`, then a half-close each) or the HTTP client (`http`:
`Write`, `Read` and `Close` from a third goroutine). An HTTP connection begins
with the TLS handshake, in which one goroutine writes the hello and then reads:
`pc["reader"]` is `idle` until `HandshakeReads`, the two calls alternate in
`HandshakeWrites`, and only after the handshake do the transport's two loops run
side by side. The handshake is external. A `Read` of no byte without
an error, which a TCP socket does not return, is left out, and so is the SNI.

### IPMap

An `IPSet` is named by the goroutine and host that created it, so that two
racing `Get` calls create two objects, of which one is published. `Confirm` is
two steps (the test, the assignment). A lookup returns any sequence of up to
`MaxAnswers` addresses, repetitions included, and `addAll` is `Add`'s loop over
it. The refinement mapping `Published` reads the published object of each host.

### DoH

A message is its 16-bit ID and its length. `q[x]` holds the local variables of one `Query`
call through `doQuery`, `sendRequest` and `dial`. `wire` is the ID now in
`doQuery`'s slice, which is the caller's own slice when the query came padded
(`AddEdnsPadding` returns it unchanged). The HTTP client is external: it reuses
a connection it has or calls `dial`, makes a TLS handshake on what `dial`
returned (`Handshake`), waits for the headers of the response (`Headers`), follows
redirects, and drops connections at any time; the body comes last, and `headers`
remembers that the server got that far. The request is assumed to go into the
socket's buffer. The error of `http.NewRequest` (`doh.go:272-275`, which would
leave the ID zeroed) is left out: the URL was parsed by `NewTransport`, and with
method POST and a parsed URL the call cannot fail. `server` and `via` are the variables set by `GotConn`, so they keep the
address of an earlier hop when a redirect's target cannot be reached.
`HangoverExpires` lets the ten seconds pass.

### UDPHandler

A goroutine is named by its association (`fetchUDPInput`) or its query
(`doDoh`). `Close` is three steps: `conn.Close()`, the lock with the lookup and
`t.conn.Close()`, the report with the deletion; the lock is held between the last
two. `ReceiveTo` is up to three steps: the lookup under the read lock, counting,
writing. `sent` and `delivered` record what passed, independently of the
handler's counters. `CoreCloses` is the core closing a `UDPConn` by itself when
the tunnel is disconnected.

### DNSStream, TCPRelay, Intra

`Intra` is the TCP side of a session. `Handle` turns a connection into a DNS
socket (`HandleDNS`, then the steps of `DNSStream`) or dials (`HandleOther`,
`Dialed`, then the steps of `TCPRelay`); a connection whose dial fails is the
core's again and takes no further step.

In `DNSStream` a frame is two pieces, so that a torn or interleaved write shows.
The length and the body of a query take one `Read` each, as in the code: a short
`Read` is one of the reasons for `ReadFails`.

In `TCPRelay` both sockets are records: what the peer has done (`open`, `fin`,
`rst`) and which halves this side has shut. `up` and `down` are the two
goroutines, each close a step of its own, and `Join` is the rendezvous on the
unbuffered channel. The remote socket is of one of three kinds. Of the retrier
only the phases are left (provisional, retrying with the lock held, completed),
with what `ReadFrom` counts and what `RetryStats` tells; `Retrier` has the inside.

`SetDNS` is four steps, one for each field that holds the transport (`Holders`).
Choir is external: it keeps a report in `outbox` and calls `Send` later or never.

### Outline

`isConnected` is read and written without a lock, so the packet loop is a step
for each test, read and write (`LoopTest` to `LoopInput`), `Disconnect` is three
steps, and `UpdateUDPSupport` four. A Go race on a `bool` can delay but not
invent a value; a delayed read is a step that comes earlier in the interleaving.
The lwIP stack is external: it makes a `UDPConn` for the first packet of a flow,
asks the handler that is registered then, and closes all of them in `Close`. It
still accepts packets after `Close`, which is why the late ones matter.
`pollable` is the mode of the descriptor that the caller gave to `MakeTunFile`,
which duplicates it and leaves the mode alone: `os.NewFile` has the runtime poll
it only when it is non-blocking, and only then does `Close` wake a `Read`. A
`Read` that blocks keeps the file until the next packet.
`window[u]` marks flows that began between `lwipStack.Close()` and the new
registration. The downstream goroutine of a flow is `pc[u]`. `ReceiveTo` changes
no state and is part of `LoopInput`; when `NewClient` fails, `UpdateUDPSupport`
changes nothing either.

### Desktop

`net` describes the network: whether the proxy accepts, relays TCP, relays UDP,
and whether chance failures happen. `main` runs the UDP check itself and `tcp` is
the goroutine of the TCP check; process exit ends both. The module-level
definitions `Verdict` and `Appears` say what the code should be, without
reference to how the checks are done.

## 3. Runs

| Run | Bounds | What it shows |
|---|---|---|
| `retrier` | both callers, 3 bytes in chunks of 1–2, split at 1–2, both peers may send FIN or RST | `StreamIntact`, its inductive strengthening `StreamInv`, `CloseNotLost`, `SteadyState`, `WriteDeadlineKept`, `ConnFinal`; `CallsReturn`: nobody waits for ever for the lock or the retry, with two exceptions; no deadlock |
| `retrier_upload_bytes` | 2 chunks | violated: `UploadBytesTotal` |
| `retrier_request` | a request in one write, a server that answers complete requests | violated: `RetryEnds` |
| `retrier_handshake` | a hello in one write, a server that answers it if it gets it | violated: `FailedWriteRetried` |
| `ipmap` | 3 goroutines, 2 calls each, 1 host, 2 addresses, lookups of up to 2 answers | `SameIPSet`, `NoDuplicates`, `ImplementsIPMap` |
| `doh` | 2 overlapping queries, 2 addresses, IDs 0 and 1, no redirect | `ResponseMatches`, `NoIPTwice`, `HangoverMeansReply`, `OnlyOwnDisconfirm` |
| `doh_redirect` | 1 query of 8 lengths around one block, 1 redirect to a second host | `PaddedToBlock`, `EveryQueryReported` |
| `doh_disconfirm` | 1 query | violated: `FailedIPDisconfirmed` |
| `udp` | 1 association, 2 DNS queries, 2 transports, 2 packets each way | `DiscardedOnce`, `SummaryComplete`, `Expires` |
| `intra` | 1 connection of any kind, 2 bytes each way in chunks of 1–2, or 2 DNS queries; 2 transports, any change of settings | `FramesWhole`, `QueriesSettle`; `SummaryTrue`, `AlwaysSplits`, `ReportedWhenOver`, `RelayEnds`; `ReportsTrue`, `NewTransportUsed` |
| `outline` | 2 flows, any number of updates, 1 disconnect | `ServedByCurrent`, `LoopEnds`, `ProxySocketsClosed` |
| `desktop` | every command line and network, 5 attempts as in the code | `VerdictTrue`, `CheckEnds` |

Why the bounds are enough. *Retrier:* the retry happens at most once (proved),
so two sockets suffice; three bytes allow a write before the failure, one that
fails half-way and waits for the retry, and one after it, with a hello of length
0 to 3 and an empty or non-empty first segment; the proofs cover longer ones. *IPMap:* two racing `Get`
calls and a third holder of the loser's or winner's set. *DoH:* interference is
pairwise; ID 0 is the one that the server sees, ID 1 any other; `doh` has a host
with a confirmed and another address, `doh_redirect` a second host. *UDP:* the
associations share only the lock and the transport; two queries and the fetcher
give three goroutines in `Close`; the second packet passes after the first was
counted. *Padding:* the lengths lie on both sides of the two points where the
message and the option fill a block, with and without an OPT resource to add.
*Intra:* connections share only the transport, two settings and the reporter,
and none of these writes to a connection, so one connection against arbitrary
changes of them is the general case; two bytes allow a first chunk that splits
or not, a second chunk and a write cut short; two queries are two writers on one
stream. *Outline:* the flows share the registered handler; two are one on each
side of an update. *Desktop:* the bound is the code's own.

Deadlock is checked for the retrier (a caller may set a deadline at any time the
lock is free, so the check catches a lock that is never given back;
`CallsReturn` has the rest). The other models stop when their bounded number of
calls is used up.

### Fairness

`Retrier`: weak fairness of every goroutine that is inside a call (the Go
scheduler runs a runnable goroutine; a `Read` whose deadline has been set
returns). Nothing is assumed of the application between two calls, of the
handshake, or of either peer. `ServedSpec`, for the two violated liveness
properties, adds that the application sends its request and that the peer of the
second socket keeps to its protocol: without these, nobody would call it a fault
that the retry does not end. `DoH`: weak fairness of each query, except in the
two waits without a time limit (`Unlimited`): the body (`doh.go:404`), and the
handshake, whose timeout ends in `retrier.Close`, which waits for the lock of a
retry that may be reading with no deadline (`retrier.go:202`). `UDPHandler`: weak
fairness of each goroutine (reads have a deadline, DoH queries end), and strong
fairness of entering `h.Lock()`, since `sync.RWMutex` lets a waiting writer in
before later readers. `Intra`: weak fairness of the goroutines' steps that need
no data, and of peers in two situations only: an app or a server that has been
told that the other side is finished ends its own stream (`AppNotified`,
`ServerNotified`); DoH queries end, and `Accept` notices that its socket is
closed. A silent app or server on an open connection may stay so, and so may the
server of a retry. `Outline`: weak fairness of every goroutine; a `Read` of the
TUN file is sure to return only once the file is closed, and only if it is
pollable; strong fairness of `DownFails`, because the proxy does not send to an
abandoned flow for ever (each packet it sends extends the deadline). `Desktop`:
weak fairness of both checks, all of whose calls have deadlines.

What the liveness properties except, because the code does not promise it:

* `CallsReturn`: everyone who waits for the lock while `retry` reads from a server
  that never answers; and a failed `Write` in a handshake, where nobody reads;
* `EveryQueryReported`: a query that stays in a handshake or in the read of a body
  for ever;
* `RelayEnds`: a connection whose retry waits for a silent server: `CloseWrite`
  (`retrier.go:306`) waits for the lock, and `forward` (`tcp.go:99`) for both;
* `LoopEnds`: a loop that blocks in a `Read` of a blocking descriptor. The next
  packet ends it. Until then `Disconnect` has not released the tunnel's reference
  to the device, although `outline/android/tun2socks.go:42-44` says it does.

What they and other properties assume: `Expires` rests on finite traffic
(`MaxPackets`), since each packet extends the deadline; `QueriesSettle` on DoH
queries that end, so a body that never ends is outside it; `NewTransportUsed` on
one caller of `SetDNS` at a time (`tunnel.go:111-115` has no lock); `FramesWhole`
on the core's `Conn.Write` being atomic. `DiscardedOnce` sees a second report
only if its numbers differ from those of the first. The run `doh`, which checks
`OnlyOwnDisconfirm`, has no redirects; its theorem has.

### Disagreements between comments and code

Four runs show behaviours that a comment excludes; `PROJECT.json` quotes them.

1. `ReadFrom` overwrites its count in the loop, so `UploadBytes` misses all but
   the last chunk sent before the first reply (`retrier.go:291`).
2. `retry` holds the mutex while it waits for the reply, with no deadline
   (`retrier.go:202`). If the first socket fails before the request is completely
   written, the server waits for the rest, whose `Write` waits for the mutex. In
   the trace the socket is reset before the first write, so that even a request of
   one write hangs, with an empty hello; a request longer than `copyOnce`'s buffer
   of 2048 bytes is always sent in several writes and can be caught between two.
3. A `Write` that fails on the first socket waits for the retry
   (`retrier.go:264`), which only `Read` starts. In a TLS handshake both are
   called by one goroutine, so the hello is not retried. The handshake timeout
   closes the retrier and fails the query; the goroutine stays blocked.
4. After `sendRequest` has disconfirmed the address of a failed query, `doQuery`
   confirms it again (`doh.go:306`).

These are visible in the models and have no run:

* a read deadline set before the first reply is never enforced: the end of the
  provisional phase clears it (`retrier.go:167`, against 335-337);
* `retrier.Close` leaves the read side alone when `CloseWrite` fails
  (`retrier.go:312`);
* a redirect whose target fails after `GotConn` confirms the target's address
  for the redirecting host, because `hostname` is updated only after the body
  was read (`doh.go:413`);
* `doDoh` closes an association that another DNS query is still using, although
  "conn was only used for this DNS query" (`udp.go:144`); stub resolvers send A
  and AAAA queries from one port;
* "Retry.Split is non-zero if a retry occurred" (`tcp.go:56`), but it is zero
  when the hello had no byte or one, and when the second dial failed;
* a flow whose first packet arrives between `lwipStack.Close()` and
  `registerConnectionHandlers()` keeps the previous handler, which the comment
  at `outline/tunnel.go:85` means to avoid; `ServedByCurrent` excepts exactly
  these flows;
* the map of the Shadowsocks UDP handler keeps the entry of every flow
  (`shadowsocks/udp.go:92`).

## 4. Proofs

Every invariant and every action property of the passing runs is a theorem, for
every value of the constants: any number of goroutines, connections, queries,
hosts, addresses and bytes, and any chunk and split sizes. The runs show the
same formulas on small instances, and also that they are not vacuous.

| Module | Theorems | Inductive invariant |
|---|---|---|
| `RetrierProofs` | `TypeCorrect`, `StreamIsIntact`, `ConnIsFinal` | `TypeOK /\ StreamInv` |
| `RetrierCallsProofs` | `StreamInvariant`, `TimeoutIsGone`, `WriteDeadlineIsKept`, `CloseIsNotLost` | with `TimeoutInv`, `CallsInv` |
| `IPMapProofs` | `TypeCorrect`, `IsSameIPSet`, `HasNoDuplicates`, `MapIsAtomic` (refinement) | `TypeOK /\ MapInv` |
| `DoHProofs` | `TypeCorrect`, `ResponseDoesMatch`, `TriesNoIPTwice`, `IsPaddedToBlock`, `HangoverNeedsReply`, `DisconfirmsOnlyOwn` | `TypeOK /\ QueryInv` |
| `UDPHandlerProofs` | `TypeCorrect`, `SummaryIsComplete`, `IsDiscardedOnce` | `TypeOK /\ NATInv` |
| `IntraProofs` | `TypeCorrect`, `FramesAreWhole`, `SummaryIsTrue`, `DoesAlwaysSplit`, `ReportsAreTrue`, `IsReportedWhenOver`, `IsNewTransportUsed` | `TypeOK /\ IntraInv` |
| `OutlineProofs` | `TypeCorrect`, `IsServedByCurrent` | `TypeOK /\ HandlerInv` |
| `DesktopProofs` | `TypeCorrect`, `VerdictIsTrue` | `TypeOK /\ DesktopInv` |

**Assumptions.** Each module that declares constants names what it assumes of
them (`RetrierAssumption`, `IPMapAssumption`, …), and TLC evaluates it in every
run. They say that counts are naturals, that the range of split points is not
empty, that the home host has an address, and that `None` (Go's `nil` or "not
yet") is none of the values it is told apart from. In `Intra`, split points are
at least 1, as `splitHello`'s constants are. `MaxBytes`, `MaxCalls` and the like
may be any natural, so the proofs cover uploads and histories of any length.

Each inductive invariant was first checked by TLC on the instances of the runs.

**Retrier, the stream.** `TypeOK` is not inductive by itself: that `conn + 1` is
a socket depends on a retry starting from socket 1, and that the replayed
segments exist depends on `split` being within the hello. `StreamIntact` is not
inductive either: it says nothing about the middle of a retry. `StreamInv` is
the conjunction of

* `PhaseInv`, who may be where in which phase: the reader holds the lock exactly
  in its critical section, the writer works without it only after completion,
  and socket 2 is current only during and after the retry;
* `ReplayInv`: until completion the hello is exactly what was written, the split
  point is inside it, and the new socket has neither been shut down nor given a
  deadline while the hello is replayed, so that a write to it is whole or the
  socket is dead;
* `SentInv`: how much of the stream the current socket has: nothing, the first
  segment, or all.

The data lemmas say that appending the next bytes to a prefix of the stream
gives a prefix (`PrefixGrows`), that the hello's two segments make up the hello
(`FirstSegment`, `SecondSegment`), and that no other socket operation changes
what was sent (`OperationsKeep`).

**Retrier, the calls.** `CloseNotLost` and `WriteDeadlineKept` speak of states
in which the lock is free. `CallsInv` says what holds inside the critical
section: from the step that copies a flag or a deadline on, the new socket has
it, and a replay that fails leaves early only with a dead socket. This is where
the order "set the flag, then lock" of `CloseRead` and `CloseWrite` is needed:
whoever still waits for the lock will reach the new socket itself. `TimeoutInv`
adds that a socket which is not open has no deadline, so the swap cannot bring
one back. `OperationsCarry` collects what each socket operation leaves in force.

**IPMap.** `OwnerInv` says that a set in the map is the one that some goroutine
made for that host, that a goroutine about to publish offers its own, and that a
set which is not in the map was never confirmed. The last part is what the
refinement needs: publishing a set must look like creating one with nothing
confirmed. `StepImplements` takes the actions one by one: `GetPublish` by the
first goroutine is `Get`; that of a loser, `GetResolve` and `ConfirmTest` are
stuttering steps; `ConfirmSet` is `Confirm`. That `Add`'s loop keeps the slice
free of duplicates and adds exactly the resolved addresses is proved for answers
of any length (`AddAllAdds`) by induction over its rounds, with a set in the
place of the predicate (`SetInduction`, from the well-foundedness of `<`).

**DoH.** `QueryInv` has one part for each promise, stated of the local variables
of one call and of every step it may be at: `DialInv` (what is left to try has
not been tried), `AnswerInv` (where the ID is in the slice), `ReplyInv` (which
status can occur before the headers of a response), `SizeInv`, `ReportInv`. Calls interfere
only through the map, and need of each other only that a host once in the map
stays there. `PaddingFills` is the arithmetic of `computePaddingSize` for every
length; the run has eight lengths.

**UDPHandler.** `SummaryComplete` needs that both doors of a reported association
are shut (`SummaryInv`), that packets are counted before they are passed on
(`CountInv`), and that whoever is at the report holds the lock alone with the
association still in the map (`LockInv`). From the last two also follows that a
second `Close` finds nothing to discard.

**Intra.** `FramesInv`: on an open socket the frames are whole, and a query that
has not come to its write has none. `OrderInv` relates the two goroutines of a
relay, `ShutInv` says which halves each has shut at each of its steps (so that
all four are shut after `Join`), `ByteInv` compares what the goroutines count
with what the sockets took. `SummaryInv` and `ReportInv` carry those numbers to
the listener and the reporter; `HolderInv` says whom `SetDNS` has told.

**Outline, Desktop.** `HandlerInv` covers the steps of `UpdateUDPSupport` between
which `ServedByCurrent` says nothing: after `lwipStack.Close()` the only open
flows are those that came in meanwhile. `MainInv` and `TCPInv` say what each of
the two parallel checks has seen of the network so far.

**Only model-checked.** Liveness, which is out of the prover's reach:
`CallsReturn`, `EveryQueryReported`, `Expires`, `QueriesSettle`, `RelayEnds`,
`LoopEnds`, `ProxySocketsClosed`, `CheckEnds`. The absence of deadlock in the
retrier, and the four counterexamples.

## 5. Not modelled

* `client_auth.go`: parses certificates and asks the platform to sign; no state.
* `protect.go`: system calls, and functions on the text of addresses. (An empty
  list of resolvers becomes a list of one empty string at line 104, which
  `replaceIP` accepts.)
* `shadowsocks/tcp.go`: dials and hands both connections to a library's relay.
* The mobile wrappers: construction. The errors of `MakeTunFile`. The example
  program.
* `CheckServerReachable`: one dial.
* Formatting, logging, times, SNI extraction and the contents of DNS messages.
* `ProcessInputPackets` writes its whole buffer to the stack rather than the
  bytes it has read (`tun.go:47`); what the stack makes of the rest is external.
* The Go memory model: the unsynchronised counters of `udp.go` are read
  atomically, as its comment at line 139 argues.

## 6. Plan

All components with state of their own are modelled, and every invariant and
action property that a run checks is proved. What would come next:

1. safety facts that the liveness runs rest on, such as that a goroutine of a
   relay which waits for the retry always has a reader that can bring it about;
2. the relation between `TCPRelay`'s three-phase view of the retrier and
   `Retrier`, as a refinement;
3. that a `UDPConn` in the Shadowsocks handler's map is closed by at most the
   goroutine that serves it.
