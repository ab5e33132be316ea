--------------------------- MODULE OutlineProofs ---------------------------
(***************************************************************************)
(* What holds of Outline for every set of UDP flows.                       *)
(***************************************************************************)
EXTENDS Outline, TLAPS

(***************************************************************************)
(* The inductive invariant.  Until UpdateUDPSupport has an answer that     *)
(* differs, the registered handler is the current one and so are those of  *)
(* the open flows.  After it has closed the stack, the only open flows are *)
(* those that came in meanwhile.                                           *)
(***************************************************************************)
HandlerInv ==
  /\ update \in {"idle", "check"} =>
       /\ registered = HandlerFor(isUDPEnabled)
       /\ \A u \in Conns : core[u] = "open" /\ ~window[u] => handler[u] = registered
  /\ update = "register" => \A u \in Conns : core[u] = "open" => window[u]

(* NewTunnel.                                                              *)
LEMMA HandlerInit == Init => TypeOK /\ HandlerInv
  <1> SUFFICES ASSUME Init PROVE TypeOK /\ HandlerInv OBVIOUS
  <1>1. TypeOK BY DEF Init, TypeOK, HandlerFor
  <1>2. HandlerInv BY DEF Init, HandlerInv
  <1> QED BY <1>1, <1>2

(* The stack closes flows and opens none.                                  *)
LEMMA CloseStackCloses ==
  ASSUME TypeOK, CloseStack
  PROVE  /\ core' \in [Conns -> {"none", "open", "closed"}]
         /\ \A u \in Conns : core'[u] # "open"
  BY DEF TypeOK, CloseStack

(* Every step keeps the types, and every proxy socket in the map.          *)
LEMMA TypeNext == TypeOK /\ [Next]_vars => TypeOK'
  <1> SUFFICES ASSUME TypeOK, [Next]_vars PROVE TypeOK' OBVIOUS
  <1> USE DEF TypeOK, tunnelVars, updateVars
  <1>1. CASE LoopTest \/ LoopRead \/ LoopWrite
    BY <1>1 DEF LoopTest, LoopRead, LoopWrite
  <1>2. CASE LoopInput
    <2>1. CASE UNCHANGED <<core, handler, window, pc>> BY <1>2, <2>1 DEF LoopInput
    <2>2. ASSUME NEW u \in Conns,
                 core' = [core EXCEPT ![u] = "open"],
                 handler' = [handler EXCEPT ![u] = registered],
                 window' = [window EXCEPT ![u] = update = "register"],
                 pc' = [pc EXCEPT ![u] = "connect"]
          PROVE  TypeOK'
      BY <1>2, <2>2 DEF LoopInput
    <2> QED BY <1>2, <2>1, <2>2 DEF LoopInput
  <1>3. CASE Disconnect \/ DisconnectTun BY <1>3 DEF Disconnect, DisconnectTun
  <1>4. CASE DisconnectStack \/ UpdateClose
    BY <1>4, CloseStackCloses DEF DisconnectStack, UpdateClose
  <1>5. CASE UpdateUDPSupport \/ UpdateCheck \/ registerConnectionHandlers
    BY <1>5 DEF UpdateUDPSupport, UpdateCheck, registerConnectionHandlers, HandlerFor
  <1>6. ASSUME NEW u \in Conns, Flow(u) PROVE TypeOK'
    <2>1. CASE Connect(u)
      <3>1. CASE UNCHANGED <<conns, proxyConn>>
        <4>1. pc' = [pc EXCEPT ![u] = "done"] \/ pc' = [pc EXCEPT ![u] = "read"]
          BY <2>1 DEF Connect
        <4>2. core' = core \/ core' = [core EXCEPT ![u] = "closed"] BY <2>1 DEF Connect
        <4> QED BY <2>1, <3>1, <4>1, <4>2 DEF Connect
      <3>2. CASE /\ conns' = conns \cup {u} /\ proxyConn' = [proxyConn EXCEPT ![u] = "open"]
                 /\ pc' = [pc EXCEPT ![u] = "read"] /\ core' = core
        BY <2>1, <3>2 DEF Connect
      <3> QED BY <2>1, <3>1, <3>2 DEF Connect
    <2>2. CASE DownRead(u) \/ DownFails(u) \/ DownWrite(u)
      BY <2>2 DEF DownRead, DownFails, DownWrite
    <2>3. CASE CloseConn(u) BY <2>3 DEF CloseConn
    <2>4. CASE CloseProxy(u) BY <2>4 DEF CloseProxy
    <2> QED BY <1>6, <2>1, <2>2, <2>3, <2>4 DEF Flow
  <1>7. CASE UNCHANGED vars BY <1>7 DEF vars
  <1> QED BY <1>1, <1>2, <1>3, <1>4, <1>5, <1>6, <1>7 DEF Next, ProcessInputPackets

(* A step that opens no flow and leaves the handlers alone.                *)
LEMMA HandlerKept ==
  ASSUME HandlerInv, UNCHANGED <<update, registered, isUDPEnabled, handler, window>>,
         \A u \in Conns : core'[u] = "open" => core[u] = "open"
  PROVE  HandlerInv'
  BY DEF HandlerInv

(* Every step of the loop, the update, the disconnect and the flows keeps  *)
(* the handlers right.                                                     *)
LEMMA HandlerNext == TypeOK /\ HandlerInv /\ [Next]_vars => HandlerInv'
  <1> SUFFICES ASSUME TypeOK, HandlerInv, [Next]_vars PROVE HandlerInv' OBVIOUS
  <1>1. CASE LoopTest \/ LoopRead \/ LoopWrite \/ Disconnect \/ DisconnectTun
    BY <1>1, HandlerKept
    DEF LoopTest, LoopRead, LoopWrite, Disconnect, DisconnectTun, updateVars
  <1>2. CASE LoopInput
    <2>1. CASE UNCHANGED <<core, handler, window, pc>>
      BY <1>2, <2>1, HandlerKept DEF LoopInput, updateVars
    <2>2. ASSUME NEW u \in Conns,
                 core' = [core EXCEPT ![u] = "open"],
                 handler' = [handler EXCEPT ![u] = registered],
                 window' = [window EXCEPT ![u] = update = "register"]
          PROVE  HandlerInv'
      <3>1. UNCHANGED <<update, registered, isUDPEnabled>> BY <1>2 DEF LoopInput, updateVars
      <3>2. handler'[u] = registered /\ window'[u] = (update = "register")
        BY <2>2 DEF TypeOK
      <3>3. \A v \in Conns : v # u => /\ core'[v] = core[v] /\ handler'[v] = handler[v]
                                      /\ window'[v] = window[v]
        BY <2>2 DEF TypeOK
      <3> QED BY <3>1, <3>2, <3>3 DEF HandlerInv
    <2> QED BY <1>2, <2>1, <2>2 DEF LoopInput
  <1>3. CASE DisconnectStack
    BY <1>3, CloseStackCloses, HandlerKept DEF DisconnectStack, updateVars
  <1>4. CASE UpdateClose
    BY <1>4, CloseStackCloses DEF UpdateClose, HandlerInv
  <1>5. CASE UpdateUDPSupport BY <1>5 DEF UpdateUDPSupport, HandlerInv
  <1>6. CASE UpdateCheck BY <1>6 DEF UpdateCheck, HandlerInv, TypeOK
  <1>7. CASE registerConnectionHandlers
    BY <1>7 DEF registerConnectionHandlers, HandlerInv
  <1>8. ASSUME NEW u \in Conns, Flow(u) PROVE HandlerInv'
    <2>1. core' = core \/ core' = [core EXCEPT ![u] = "closed"]
      BY <1>8 DEF Flow, Connect, DownRead, DownFails, DownWrite, CloseConn, CloseProxy
    <2>2. UNCHANGED <<update, registered, isUDPEnabled, handler, window>>
      BY <1>8 DEF Flow, Connect, DownRead, DownFails, DownWrite, CloseConn, CloseProxy, updateVars
    <2>3. \A v \in Conns : core'[v] = "open" => core[v] = "open" BY <2>1 DEF TypeOK
    <2> QED BY <2>2, <2>3, HandlerKept
  <1>9. CASE UNCHANGED vars BY <1>9, HandlerKept DEF vars, updateVars
  <1> QED BY <1>1, <1>2, <1>3, <1>4, <1>5, <1>6, <1>7, <1>8, <1>9 DEF Next, ProcessInputPackets

----------------------------------------------------------------------------
(* The inductive invariant.                                                *)
LEMMA HandlerInvariance == Spec => [](TypeOK /\ HandlerInv)
  BY HandlerInit, TypeNext, HandlerNext, PTL DEF Spec

(* Type correctness, which includes that the handlers' map has every proxy *)
(* socket that was ever opened and no other (shadowsocks/udp.go:40-50).    *)
THEOREM TypeCorrect == Spec => []TypeOK
  BY HandlerInvariance, PTL

(* When no update is in progress, only a flow that began between the       *)
(* closing of the stack and the registration can be with the old handler   *)
(* (outline/tunnel.go:77-102).                                             *)
THEOREM IsServedByCurrent == Spec => []ServedByCurrent
  <1>1. HandlerInv => ServedByCurrent BY DEF HandlerInv, ServedByCurrent
  <1> QED BY <1>1, HandlerInvariance, PTL
============================================================================
