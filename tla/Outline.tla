------------------------------ MODULE Outline ------------------------------
(***************************************************************************)
(* An Outline session: the base tunnel and its packet loop (tunnel/), the  *)
(* outlinetunnel that exchanges its UDP handler while packets arrive       *)
(* (outline/tunnel.go), and the Shadowsocks UDP handler                    *)
(* (shadowsocks/udp.go).                                                   *)
(*                                                                         *)
(* The lwIP stack and the DNS fallback handler are external: the stack     *)
(* creates a UDPConn for the first packet of a flow and has the handler    *)
(* that is registered then connect it; its Close closes all UDPConns.      *)
(* Disconnect and UpdateUDPSupport are each called by one thread.          *)
(***************************************************************************)
CONSTANT Conns        \* UDP flows

VARIABLES
  isConnected,  \* tunnel.isConnected
  pollable,     \* the descriptor the caller passed is in non-blocking mode
  tun,          \* the TUN file, which is tunWriter too, is open
  loop,         \* where ProcessInputPackets is
  disconnect,   \* where Disconnect is
  isUDPEnabled,
  update,       \* where UpdateUDPSupport is
  registered,   \* the registered UDP handler: "proxy" or "fallback"
  core,         \* the stack's UDPConns
  handler,      \* the handler of each UDPConn
  window,       \* the UDPConn was made while UpdateUDPSupport had the stack
                \* closed and the new handler not registered yet
  conns,        \* the keys of the Shadowsocks handlers' h.conns
  proxyConn,    \* h.conns[conn]
  pc            \* the goroutine of each flow: Connect, then handleDownstreamUDP

tunnelVars == <<isConnected, pollable, tun, loop, disconnect>>
updateVars == <<isUDPEnabled, update, registered>>
vars == <<tunnelVars, updateVars, core, handler, window, conns, proxyConn, pc>>

HandlerFor(udp) == IF udp THEN "proxy" ELSE "fallback"

(* Every open proxy socket can be found in the map.                        *)
TypeOK ==
  /\ isConnected \in BOOLEAN /\ pollable \in BOOLEAN /\ tun \in BOOLEAN
  /\ isUDPEnabled \in BOOLEAN
  /\ loop \in {"test", "read", "write", "input", "done"}
  /\ disconnect \in {"idle", "stack", "tun", "done"}
  /\ update \in {"idle", "check", "close", "register"}
  /\ registered \in {"proxy", "fallback"}
  /\ core \in [Conns -> {"none", "open", "closed"}]
  /\ handler \in [Conns -> {"none", "proxy", "fallback"}]
  /\ window \in [Conns -> BOOLEAN]
  /\ proxyConn \in [Conns -> {"none", "open", "closed"}]
  /\ {u \in Conns : proxyConn[u] # "none"} = conns
  /\ pc \in [Conns -> {"none", "connect", "read", "write", "close", "closeProxy", "done"}]

(* NewTunnel, and the packet loop started by the Android client.           *)
(* MakeTunFile duplicates the descriptor and leaves its mode as the caller *)
(* set it; os.NewFile polls a descriptor only when it does not block.      *)
Init ==
  /\ pollable \in BOOLEAN
  /\ isConnected = TRUE /\ tun = TRUE /\ loop = "test" /\ disconnect = "idle"
  /\ isUDPEnabled \in BOOLEAN /\ update = "idle"
  /\ registered = HandlerFor(isUDPEnabled)
  /\ core = [u \in Conns |-> "none"] /\ handler = [u \in Conns |-> "none"]
  /\ window = [u \in Conns |-> FALSE]
  /\ conns = {} /\ proxyConn = [u \in Conns |-> "none"] /\ pc = [u \in Conns |-> "none"]

(* lwipStack.Close(): every UDPConn is closed.                             *)
CloseStack == core' = [u \in Conns |-> IF core[u] = "open" THEN "closed" ELSE core[u]]

----------------------------------------------------------------------------
(* ProcessInputPackets: for tunnel.IsConnected()                           *)
LoopTest ==
  /\ loop = "test"
  /\ loop' = IF isConnected THEN "read" ELSE "done"
  /\ UNCHANGED <<isConnected, pollable, tun, disconnect, updateVars, core, handler, window,
                 conns, proxyConn, pc>>

(* tun.Read(buffer): a packet, or an error or EOF.  No packet comes from a *)
(* closed file, except to a blocking Read that had begun before Close: it  *)
(* keeps the descriptor and gets the next packet.                          *)
LoopRead ==
  /\ loop = "read"
  /\ \/ (tun \/ ~pollable) /\ loop' = "write"
     \/ loop' = "test"
  /\ UNCHANGED <<isConnected, pollable, tun, disconnect, updateVars, core, handler, window,
                 conns, proxyConn, pc>>

(* tunnel.Write: if !t.isConnected                                         *)
LoopWrite ==
  /\ loop = "write"
  /\ loop' = IF isConnected THEN "input" ELSE "test"
  /\ UNCHANGED <<isConnected, pollable, tun, disconnect, updateVars, core, handler, window,
                 conns, proxyConn, pc>>

(* lwipStack.Write: the first packet of a flow, or one for an open UDPConn *)
(* (ReceiveTo, which finds the proxy socket and writes to it, or fails).   *)
LoopInput ==
  /\ loop = "input"
  /\ loop' = "test"
  /\ \E u \in Conns :
       \/ /\ core[u] = "none"
          /\ core' = [core EXCEPT ![u] = "open"]
          /\ handler' = [handler EXCEPT ![u] = registered]
          /\ window' = [window EXCEPT ![u] = update = "register"]
          /\ pc' = [pc EXCEPT ![u] = "connect"]
       \/ /\ core[u] # "none"
          /\ UNCHANGED <<core, handler, window, pc>>
  /\ UNCHANGED <<isConnected, pollable, tun, disconnect, updateVars, conns, proxyConn>>

ProcessInputPackets == LoopTest \/ LoopRead \/ LoopWrite \/ LoopInput

----------------------------------------------------------------------------
Disconnect ==
  /\ disconnect = "idle" /\ isConnected
  /\ isConnected' = FALSE
  /\ disconnect' = "stack"
  /\ UNCHANGED <<pollable, tun, loop, updateVars, core, handler, window, conns, proxyConn, pc>>

DisconnectStack ==
  /\ disconnect = "stack"
  /\ CloseStack
  /\ disconnect' = "tun"
  /\ UNCHANGED <<isConnected, pollable, tun, loop, updateVars, handler, window, conns,
                 proxyConn, pc>>

DisconnectTun_Skipped ==
  /\ disconnect = "tun"
  /\ disconnect' = "done"
  /\ UNCHANGED <<isConnected, pollable, tun, loop, updateVars, core, handler, window, conns,
                 proxyConn, pc>>

DisconnectTun ==
  /\ disconnect = "tun"
  /\ tun' = FALSE
  /\ disconnect' = "done"
  /\ UNCHANGED <<isConnected, pollable, loop, updateVars, core, handler, window, conns,
                 proxyConn, pc>>

----------------------------------------------------------------------------
(* UpdateUDPSupport: a client is made and the check begins.                *)
UpdateUDPSupport ==
  /\ update = "idle"
  /\ update' = "check"
  /\ UNCHANGED <<tunnelVars, isUDPEnabled, registered, core, handler, window, conns,
                 proxyConn, pc>>

(* CheckUDPConnectivityWithDNS returns; has the answer changed?            *)
UpdateCheck ==
  /\ update = "check"
  /\ \E udp \in BOOLEAN :
       /\ isUDPEnabled' = udp
       /\ update' = IF udp = isUDPEnabled THEN "idle" ELSE "close"
  /\ UNCHANGED <<tunnelVars, registered, core, handler, window, conns, proxyConn, pc>>

UpdateClose_Skipped ==
  /\ update = "close"
  /\ update' = "register"
  /\ UNCHANGED <<tunnelVars, isUDPEnabled, registered, core, handler, window, conns,
                 proxyConn, pc>>

UpdateClose ==
  /\ update = "close"
  /\ CloseStack
  /\ update' = "register"
  /\ UNCHANGED <<tunnelVars, isUDPEnabled, registered, handler, window, conns, proxyConn, pc>>

registerConnectionHandlers ==
  /\ update = "register"
  /\ registered' = HandlerFor(isUDPEnabled)
  /\ update' = "idle"
  /\ UNCHANGED <<tunnelVars, isUDPEnabled, core, handler, window, conns, proxyConn, pc>>

----------------------------------------------------------------------------
(* The stack runs Connect of the flow's handler, which may fail.  The      *)
(* fallback handler keeps nothing.                                         *)
Connect_Unstored(u) ==
  /\ pc[u] = "connect"
  /\ proxyConn' = [proxyConn EXCEPT ![u] = "open"]
  /\ pc' = [pc EXCEPT ![u] = "read"]
  /\ UNCHANGED <<tunnelVars, updateVars, core, handler, window, conns>>

Connect(u) ==
  /\ pc[u] = "connect"
  /\ \/ /\ handler[u] = "proxy"
        /\ conns' = conns \cup {u}
        /\ proxyConn' = [proxyConn EXCEPT ![u] = "open"]
        /\ pc' = [pc EXCEPT ![u] = "read"]
        /\ UNCHANGED core
     \/ /\ handler[u] = "proxy"
        /\ core' = [core EXCEPT ![u] = "closed"]
        /\ pc' = [pc EXCEPT ![u] = "done"]
        /\ UNCHANGED <<conns, proxyConn>>
     \/ /\ handler[u] = "fallback"
        /\ pc' = [pc EXCEPT ![u] = "done"]
        /\ UNCHANGED <<core, conns, proxyConn>>
  /\ UNCHANGED <<tunnelVars, updateVars, handler, window>>

(* handleDownstreamUDP: ReadFrom brings a packet; or it fails, which it    *)
(* does at its deadline.                                                   *)
DownRead(u) ==
  /\ pc[u] = "read" /\ proxyConn[u] = "open"
  /\ pc' = [pc EXCEPT ![u] = "write"]
  /\ UNCHANGED <<tunnelVars, updateVars, core, handler, window, conns, proxyConn>>

DownFails_Returns(u) ==
  /\ pc[u] = "read"
  /\ pc' = [pc EXCEPT ![u] = "done"]
  /\ UNCHANGED <<tunnelVars, updateVars, core, handler, window, conns, proxyConn>>

DownFails(u) ==
  /\ pc[u] = "read"
  /\ pc' = [pc EXCEPT ![u] = "close"]
  /\ UNCHANGED <<tunnelVars, updateVars, core, handler, window, conns, proxyConn>>

(* conn.WriteFrom, which fails on a closed UDPConn.                        *)
DownWrite(u) ==
  /\ pc[u] = "write"
  /\ pc' = [pc EXCEPT ![u] = IF core[u] = "open" THEN "read" ELSE "close"]
  /\ UNCHANGED <<tunnelVars, updateVars, core, handler, window, conns, proxyConn>>

(* Close: conn.Close()                                                     *)
CloseConn(u) ==
  /\ pc[u] = "close"
  /\ core' = [core EXCEPT ![u] = "closed"]
  /\ pc' = [pc EXCEPT ![u] = "closeProxy"]
  /\ UNCHANGED <<tunnelVars, updateVars, handler, window, conns, proxyConn>>

(* Close: the lookup and proxyConn.Close().  The entry stays in the map.   *)
CloseProxy(u) ==
  /\ pc[u] = "closeProxy"
  /\ proxyConn' = [proxyConn EXCEPT ![u] = IF u \in conns THEN "closed" ELSE @]
  /\ pc' = [pc EXCEPT ![u] = "done"]
  /\ UNCHANGED <<tunnelVars, updateVars, core, handler, window, conns>>

Flow(u) == \/ Connect(u) \/ DownRead(u) \/ DownFails(u) \/ DownWrite(u)
           \/ CloseConn(u) \/ CloseProxy(u)

----------------------------------------------------------------------------
Next ==
  \/ ProcessInputPackets
  \/ Disconnect \/ DisconnectStack \/ DisconnectTun
  \/ UpdateUDPSupport \/ UpdateCheck \/ UpdateClose \/ registerConnectionHandlers
  \/ \E u \in Conns : Flow(u)

Spec == Init /\ [][Next]_vars

(* Goroutines are scheduled.  A Read of the TUN file returns when the file *)
(* is closed if the runtime polls it, and not before the next packet if it *)
(* blocks.  A read of a proxy socket returns at its deadline, and the      *)
(* proxy does not feed an abandoned flow for ever.                         *)
FairSpec ==
  /\ Spec
  /\ WF_vars(LoopTest) /\ WF_vars(LoopWrite) /\ WF_vars(LoopInput)
  /\ WF_vars(~tun /\ pollable /\ LoopRead)
  /\ WF_vars(DisconnectStack) /\ WF_vars(DisconnectTun)
  /\ \A u \in Conns :
       WF_vars(Connect(u)) /\ WF_vars(DownWrite(u)) /\ SF_vars(DownFails(u))
       /\ WF_vars(CloseConn(u)) /\ WF_vars(CloseProxy(u))

----------------------------------------------------------------------------
(* When no update is in progress, every open flow is served by the handler *)
(* for the network's present state.  The exceptions are flows whose first  *)
(* packet came when the stack had been closed and the handler not yet been *)
(* replaced: they keep the old one, although the stack is closed "to avoid *)
(* using the previous handlers" (outline/tunnel.go:83-86).                 *)
ServedByCurrent ==
  \A u \in Conns : update = "idle" /\ core[u] = "open" /\ ~window[u] =>
    handler[u] = HandlerFor(isUDPEnabled)

(* After Disconnect the packet loop ends: the loop may be waiting for a    *)
(* packet, and it is the closed TUN file that wakes it (tunnel.go:44-51,   *)
(* tun.go:37-49).  The exception is a caller's descriptor in blocking      *)
(* mode, which MakeTunFile (tun.go:18-32) does not change: there the loop  *)
(* can stay in one Read for ever, but in nothing else; a packet that       *)
(* arrives ends it.                                                        *)
LoopEnds == ~isConnected ~> loop = "done" \/ [](loop = "read" /\ ~pollable)

(* After Disconnect no proxy socket stays open, not even that of a packet  *)
(* that passed the test of isConnected before Disconnect and entered the   *)
(* stack when it had been closed, nor that of a Connect which ran late     *)
(* (tunnel.go:47-57, shadowsocks/udp.go:40-50, 88-95).  The handler's map  *)
(* keeps the entries.                                                      *)
ProxySocketsClosed == ~isConnected ~> \A u \in Conns : proxyConn[u] # "open"
============================================================================
