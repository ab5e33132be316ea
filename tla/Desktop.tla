------------------------------ MODULE Desktop ------------------------------
(***************************************************************************)
(* The desktop client (outline/electron/main.go) and the connectivity      *)
(* checks that it offers: CheckConnectivity of outline/shadowsocks, which  *)
(* joins the two checks of shadowsocks/connectivity.go.                    *)
(*                                                                         *)
(* net is the network: whether the proxy accepts connections, relays this  *)
(* client's TCP traffic, relays UDP, and whether packets and connections   *)
(* may also fail by chance.                                                *)
(***************************************************************************)
EXTENDS Naturals

CONSTANT udpMaxRetryAttempts   \* 5

ASSUME DesktopAssumption == udpMaxRetryAttempts \in Nat \ {0}

Codes == {"NoError", "Unexpected", "AuthenticationFailure", "UDPConnectivity",
          "Unreachable", "IllegalConfiguration", "SystemMisconfigured"}

TCPResults == {"ok", "reachability", "authentication"}

VARIABLES
  flags,     \* the command line
  net,
  main,      \* where main is, in CheckConnectivity too
  attempt,   \* of CheckUDPConnectivityWithDNS
  tcp,       \* where the goroutine of CheckTCPConnectivityWithHTTP is
  tcpErr,    \* its result
  copying,   \* the goroutine from the TUN device to the stack is running
  code       \* the exit code

vars == <<flags, net, main, attempt, tcp, tcpErr, copying, code>>

TypeOK ==
  /\ flags \in [version : BOOLEAN, valid : BOOLEAN, checkConnectivity : BOOLEAN]
  /\ net \in [accepts : BOOLEAN, relaysTCP : BOOLEAN, relaysUDP : BOOLEAN, flaky : BOOLEAN]
  /\ main \in {"flags", "check", "udpWrite", "udpRead", "join", "open", "running", "exited"}
  /\ attempt \in 0..udpMaxRetryAttempts
  /\ tcp \in {"none", "dial", "write", "read", "send", "done"}
  /\ tcpErr \in TCPResults
  /\ copying \in BOOLEAN
  /\ code \in Codes \cup {"none"}

Init ==
  /\ flags \in [version : BOOLEAN, valid : BOOLEAN, checkConnectivity : BOOLEAN]
  /\ net \in [accepts : BOOLEAN, relaysTCP : BOOLEAN, relaysUDP : BOOLEAN, flaky : BOOLEAN]
  /\ main = "flags" /\ attempt = 0 /\ tcp = "none" /\ tcpErr = "ok"
  /\ copying = FALSE /\ code = "none"

Exit(c) == main' = "exited" /\ code' = c

Running == main # "exited"

----------------------------------------------------------------------------
(* main: -version exits; the proxy flags are validated.                    *)
ValidateFlags ==
  /\ main = "flags"
  /\ IF flags.version THEN Exit("NoError")
     ELSE IF ~flags.valid THEN Exit("IllegalConfiguration")
     ELSE main' = (IF flags.checkConnectivity THEN "check" ELSE "open") /\ UNCHANGED code
  /\ UNCHANGED <<flags, net, attempt, tcp, tcpErr, copying>>

(* CheckConnectivity: NewClient, the TCP check's goroutine, and ListenUDP, *)
(* whose failure is the UDP check's.                                       *)
CheckConnectivity ==
  /\ main = "check"
  /\ \/ Exit("Unexpected") /\ UNCHANGED tcp
     \/ /\ tcp' = "dial" /\ UNCHANGED code
        /\ main' = "udpWrite" \/ (net.flaky /\ main' = "join")
  /\ UNCHANGED <<flags, net, attempt, tcpErr, copying>>

(* CheckUDPConnectivityWithDNS: the next attempt, if there is one.         *)
NextAttempt_OneMore ==
  /\ attempt' = attempt + 1
  /\ main' = IF attempt' <= udpMaxRetryAttempts THEN "udpWrite" ELSE "join"
  /\ UNCHANGED code

NextAttempt ==
  /\ attempt' = attempt + 1
  /\ main' = IF attempt' < udpMaxRetryAttempts THEN "udpWrite" ELSE "join"
  /\ UNCHANGED code

UDPWrite ==
  /\ main = "udpWrite"
  /\ \/ main' = "udpRead" /\ UNCHANGED <<attempt, code>>
     \/ net.flaky /\ NextAttempt
  /\ UNCHANGED <<flags, net, tcp, tcpErr, copying>>

(* A packet from another address than the resolver's.                      *)
StrayPacket_Accepted == net.flaky /\ Exit("NoError") /\ UNCHANGED attempt

StrayPacket_Uncounted == net.flaky /\ main' = "udpWrite" /\ UNCHANGED <<attempt, code>>

StrayPacket == net.flaky /\ NextAttempt

(* ReadFrom: the resolver's answer, nothing in time, or a stray packet.    *)
UDPRead ==
  /\ main = "udpRead"
  /\ \/ net.relaysUDP /\ Exit("NoError") /\ UNCHANGED attempt
     \/ (~net.relaysUDP \/ net.flaky) /\ NextAttempt
     \/ StrayPacket
  /\ UNCHANGED <<flags, net, tcp, tcpErr, copying>>

----------------------------------------------------------------------------
(* CheckTCPConnectivityWithHTTP, as far as its next blocking call.         *)
TCPFails(err) == tcp' = "send" /\ tcpErr' = err

TCPDial ==
  /\ Running /\ tcp = "dial"
  /\ \/ net.accepts /\ tcp' = "write" /\ UNCHANGED tcpErr
     \/ (~net.accepts \/ net.flaky) /\ TCPFails("reachability")
  /\ UNCHANGED <<flags, net, main, attempt, copying, code>>

TCPWrite ==
  /\ Running /\ tcp = "write"
  /\ \/ tcp' = "read" /\ UNCHANGED tcpErr
     \/ net.flaky /\ TCPFails("authentication")
  /\ UNCHANGED <<flags, net, main, attempt, copying, code>>

TCPRead ==
  /\ Running /\ tcp = "read"
  /\ \/ net.relaysTCP /\ tcp' = "send" /\ UNCHANGED tcpErr
     \/ (~net.relaysTCP \/ net.flaky) /\ TCPFails("authentication")
  /\ UNCHANGED <<flags, net, main, attempt, copying, code>>

(* tcpErr := <-tcpChan, when UDP does not work, and the error code.        *)
Join ==
  /\ main = "join" /\ tcp = "send"
  /\ tcp' = "done"
  /\ Exit(CASE tcpErr = "ok"             -> "UDPConnectivity"
            [] tcpErr = "authentication" -> "AuthenticationFailure"
            [] tcpErr = "reachability"   -> "Unreachable")
  /\ UNCHANGED <<flags, net, attempt, tcpErr, copying>>

----------------------------------------------------------------------------
(* main: open the TUN device, register the handlers, start to copy.        *)
OpenTun ==
  /\ main = "open"
  /\ \/ Exit("SystemMisconfigured") /\ UNCHANGED copying
     \/ main' = "running" /\ copying' = TRUE /\ UNCHANGED code
  /\ UNCHANGED <<flags, net, attempt, tcp, tcpErr>>

(* io.CopyBuffer returns: at the end of the device, or with an error.      *)
CopyEnds ==
  /\ Running /\ copying
  /\ copying' = FALSE
  /\ Exit("Unexpected") \/ UNCHANGED <<main, code>>
  /\ UNCHANGED <<flags, net, attempt, tcp, tcpErr>>

Signal ==
  /\ main = "running"
  /\ Exit("NoError")
  /\ UNCHANGED <<flags, net, attempt, tcp, tcpErr, copying>>

TCPCheck == TCPDial \/ TCPWrite \/ TCPRead

Check == ValidateFlags \/ CheckConnectivity \/ UDPWrite \/ UDPRead \/ Join

Next == Check \/ TCPCheck \/ OpenTun \/ CopyEnds \/ Signal

Spec == Init /\ [][Next]_vars

(* The UDP check has a deadline for each attempt, the TCP check one for    *)
(* the exchange, and the operating system one for the dial.                *)
FairSpec == Spec /\ WF_vars(Check) /\ WF_vars(TCPCheck)

----------------------------------------------------------------------------
(* What CheckConnectivity should say of a network without chance failures. *)
Verdict(n) ==
  CASE n.relaysUDP                                  -> "NoError"
    [] ~n.relaysUDP /\ ~n.accepts                   -> "Unreachable"
    [] ~n.relaysUDP /\ n.accepts /\ ~n.relaysTCP    -> "AuthenticationFailure"
    [] ~n.relaysUDP /\ n.accepts /\ n.relaysTCP     -> "UDPConnectivity"

(* Networks that may look like n: n itself or, if n is flaky, worse ones.  *)
Appears(n) ==
  {m \in [accepts : BOOLEAN, relaysTCP : BOOLEAN, relaysUDP : BOOLEAN, flaky : {n.flaky}] :
     IF n.flaky THEN \A f \in {"accepts", "relaysTCP", "relaysUDP"} : m[f] => n[f]
                ELSE m = n}

(* The exit code is the verdict on the network, whichever of the two       *)
(* parallel checks ends first; chance failures can only make the network   *)
(* look worse than it is (outline/shadowsocks/connectivity.go:35-67).      *)
VerdictTrue ==
  /\ flags.checkConnectivity /\ ~flags.version
  /\ code \notin {"none", "IllegalConfiguration", "Unexpected"}
  => \E m \in Appears(net) : code = Verdict(m)

(* The check always comes to an end: it does not wait for TCP if UDP works,*)
(* tries UDP a limited number of times, and gets the result of the TCP     *)
(* check when it wants it (outline/shadowsocks/connectivity.go:41-53,      *)
(* shadowsocks/connectivity.go:40-55, 75-86).                              *)
CheckEnds == main = "check" ~> main = "exited"
============================================================================
