--------------------------- MODULE DesktopProofs ---------------------------
(***************************************************************************)
(* What holds of Desktop for every number of UDP attempts.                 *)
(***************************************************************************)
EXTENDS Desktop, TLAPS

(***************************************************************************)
(* The inductive invariant.                                                *)
(***************************************************************************)
(* What main knows at each point, and what it has left to try.             *)
MainInv ==
  /\ code = "none" <=> main # "exited"
  /\ main \in {"check", "udpWrite", "udpRead", "join"} => flags.checkConnectivity
  /\ main \in {"open", "running"} => ~flags.checkConnectivity
  /\ main \in {"flags", "check", "udpWrite", "udpRead"} => attempt < udpMaxRetryAttempts
  /\ main = "join" => ~net.relaysUDP \/ net.flaky

(* The TCP check starts in CheckConnectivity; what it has seen of the      *)
(* network so far.                                                         *)
TCPInv ==
  /\ main \in {"flags", "check"} => tcp = "none"
  /\ tcp \in {"none", "dial", "write", "read"} => tcpErr = "ok"
  /\ tcp \in {"write", "read"} => net.accepts
  /\ tcp \in {"send", "done"} =>
       CASE tcpErr = "ok"             -> net.accepts /\ net.relaysTCP
         [] tcpErr = "authentication" -> net.accepts /\ (~net.relaysTCP \/ net.flaky)
         [] tcpErr = "reachability"   -> ~net.accepts \/ net.flaky

DesktopInv == MainInv /\ TCPInv /\ VerdictTrue

(***************************************************************************)
(* The verdict.                                                            *)
(***************************************************************************)
Networks == [accepts : BOOLEAN, relaysTCP : BOOLEAN, relaysUDP : BOOLEAN, flaky : BOOLEAN]

(* A network looks like itself.                                            *)
LEMMA AppearsAsIs ==
  ASSUME NEW n \in Networks
  PROVE  n \in Appears(n)
  BY DEF Networks, Appears

(* A flaky network can look like any that offers less.                     *)
LEMMA AppearsWorse ==
  ASSUME NEW n \in Networks, n.flaky, NEW a \in BOOLEAN, NEW t \in BOOLEAN,
         a => n.accepts, t => n.relaysTCP
  PROVE  [accepts |-> a, relaysTCP |-> t, relaysUDP |-> FALSE, flaky |-> TRUE] \in Appears(n)
  <1> DEFINE m == [accepts |-> a, relaysTCP |-> t, relaysUDP |-> FALSE, flaky |-> TRUE]
  <1>1. m \in [accepts : BOOLEAN, relaysTCP : BOOLEAN, relaysUDP : BOOLEAN, flaky : {n.flaky}]
    BY DEF Networks
  <1>2. \A f \in {"accepts", "relaysTCP", "relaysUDP"} : m[f] => n[f] OBVIOUS
  <1> QED BY <1>1, <1>2 DEF Appears

(* The code that Join derives from the two checks is the verdict on some   *)
(* network that this one may look like.                                    *)
LEMMA JoinVerdict ==
  ASSUME NEW n \in Networks, ~n.relaysUDP \/ n.flaky, NEW c,
         \/ c = "UDPConnectivity" /\ n.accepts /\ n.relaysTCP
         \/ c = "AuthenticationFailure" /\ n.accepts /\ (~n.relaysTCP \/ n.flaky)
         \/ c = "Unreachable" /\ (~n.accepts \/ n.flaky)
  PROVE  \E m \in Appears(n) : c = Verdict(m)
  <1>1. CASE ~n.flaky
    <2>1. c = Verdict(n) BY <1>1 DEF Verdict, Networks
    <2> QED BY <2>1, AppearsAsIs
  <1>2. CASE n.flaky
    <2>1. CASE c = "UDPConnectivity" /\ n.accepts /\ n.relaysTCP
      <3> DEFINE m == [accepts |-> TRUE, relaysTCP |-> TRUE, relaysUDP |-> FALSE, flaky |-> TRUE]
      <3>1. m \in Appears(n) BY <1>2, <2>1, AppearsWorse
      <3>2. c = Verdict(m) BY <2>1 DEF Verdict
      <3> QED BY <3>1, <3>2
    <2>2. CASE c = "AuthenticationFailure" /\ n.accepts
      <3> DEFINE m == [accepts |-> TRUE, relaysTCP |-> FALSE, relaysUDP |-> FALSE, flaky |-> TRUE]
      <3>1. m \in Appears(n) BY <1>2, <2>2, AppearsWorse
      <3>2. c = Verdict(m) BY <2>2 DEF Verdict
      <3> QED BY <3>1, <3>2
    <2>3. CASE c = "Unreachable"
      <3> DEFINE m == [accepts |-> FALSE, relaysTCP |-> FALSE, relaysUDP |-> FALSE, flaky |-> TRUE]
      <3>1. m \in Appears(n) BY <1>2, AppearsWorse
      <3>2. c = Verdict(m) BY <2>3 DEF Verdict
      <3> QED BY <3>1, <3>2
    <2> QED BY <2>1, <2>2, <2>3
  <1> QED BY <1>1, <1>2 DEF Networks

----------------------------------------------------------------------------
(* The client before main.                                                 *)
LEMMA DesktopInit == Init => TypeOK /\ DesktopInv
  <1> SUFFICES ASSUME Init PROVE TypeOK /\ DesktopInv OBVIOUS
  <1> USE DesktopAssumption DEF Init
  <1>1. TypeOK
    <2>1. 0 \in 0..udpMaxRetryAttempts OBVIOUS
    <2>2. code \in Codes \cup {"none"} /\ tcpErr \in TCPResults BY DEF TCPResults
    <2>3. main \in {"flags", "check", "udpWrite", "udpRead", "join", "open", "running", "exited"}
      OBVIOUS
    <2> QED BY <2>1, <2>2, <2>3 DEF TypeOK
  <1>2. MainInv /\ TCPInv BY DEF MainInv, TCPInv
  <1>3. VerdictTrue BY DEF VerdictTrue
  <1> QED BY <1>1, <1>2, <1>3 DEF DesktopInv

(* Every step keeps the types; an attempt is begun only below the limit.   *)
LEMMA TypeNext == TypeOK /\ DesktopInv /\ [Next]_vars => TypeOK'
  <1> SUFFICES ASSUME TypeOK, DesktopInv, [Next]_vars PROVE TypeOK' OBVIOUS
  <1>i. MainInv BY DEF DesktopInv
  <1> USE DesktopAssumption DEF TypeOK, Exit, Codes, TCPResults
  <1>1. CASE ValidateFlags BY <1>1 DEF ValidateFlags
  <1>2. CASE CheckConnectivity BY <1>2 DEF CheckConnectivity
  <1>3. CASE UDPWrite \/ UDPRead
    <2>1. attempt + 1 \in 0..udpMaxRetryAttempts BY <1>3, <1>i DEF UDPWrite, UDPRead, MainInv
    <2> QED BY <1>3, <2>1 DEF UDPWrite, UDPRead, StrayPacket, NextAttempt
  <1>4. CASE Join BY <1>4 DEF Join
  <1>5. CASE TCPCheck BY <1>5 DEF TCPCheck, TCPDial, TCPWrite, TCPRead, TCPFails
  <1>6. CASE OpenTun \/ CopyEnds \/ Signal BY <1>6 DEF OpenTun, CopyEnds, Signal
  <1>7. CASE UNCHANGED vars BY <1>7 DEF vars
  <1> QED BY <1>1, <1>2, <1>3, <1>4, <1>5, <1>6, <1>7 DEF Next, Check

(* Every step of main keeps what it knows, and the TCP check does not      *)
(* concern it.                                                             *)
LEMMA MainNext == TypeOK /\ DesktopInv /\ [Next]_vars => MainInv'
  <1> SUFFICES ASSUME TypeOK, DesktopInv, [Next]_vars PROVE MainInv' OBVIOUS
  <1>i. MainInv BY DEF DesktopInv
  <1> USE DesktopAssumption DEF TypeOK, MainInv, Exit
  <1>1. CASE ValidateFlags BY <1>1, <1>i DEF ValidateFlags
  <1>2. CASE CheckConnectivity BY <1>2, <1>i DEF CheckConnectivity
  <1>3. CASE UDPWrite BY <1>3, <1>i DEF UDPWrite, NextAttempt
  <1>4. CASE UDPRead BY <1>4, <1>i DEF UDPRead, StrayPacket, NextAttempt
  <1>5. CASE Join BY <1>5, <1>i DEF Join, TCPResults
  <1>6. CASE TCPCheck BY <1>6, <1>i DEF TCPCheck, TCPDial, TCPWrite, TCPRead
  <1>7. CASE OpenTun \/ CopyEnds \/ Signal BY <1>7, <1>i DEF OpenTun, CopyEnds, Signal, Running
  <1>8. CASE UNCHANGED vars BY <1>8, <1>i DEF vars
  <1> QED BY <1>1, <1>2, <1>3, <1>4, <1>5, <1>6, <1>7, <1>8 DEF Next, Check

(* The result of the TCP check is true of the network when it is made,     *)
(* and the network stays as it is.                                         *)
LEMMA TCPNext == TypeOK /\ DesktopInv /\ [Next]_vars => TCPInv'
  <1> SUFFICES ASSUME TypeOK, DesktopInv, [Next]_vars PROVE TCPInv' OBVIOUS
  <1>i. TCPInv BY DEF DesktopInv
  <1>1. CASE UNCHANGED <<net, tcp, tcpErr>> /\ (main' \in {"flags", "check"} => tcp = "none")
    BY <1>1, <1>i DEF TCPInv
  <1>2. CASE CheckConnectivity BY <1>2, <1>i DEF CheckConnectivity, TCPInv, TypeOK, TCPResults
  <1>3. CASE TCPDial BY <1>3, <1>i DEF TCPDial, TCPFails, TCPInv
  <1>4. CASE TCPWrite BY <1>4, <1>i DEF TCPWrite, TCPFails, TCPInv
  <1>5. CASE TCPRead BY <1>5, <1>i DEF TCPRead, TCPFails, TCPInv
  <1>6. CASE Join BY <1>6, <1>i DEF Join, Exit, TCPInv
  <1>7. CASE ValidateFlags \/ UDPWrite \/ UDPRead \/ OpenTun \/ CopyEnds \/ Signal
    BY <1>1, <1>7, <1>i
    DEF ValidateFlags, UDPWrite, UDPRead, StrayPacket, NextAttempt, OpenTun, CopyEnds, Signal,
        Exit, TCPInv
  <1>8. CASE UNCHANGED vars BY <1>1, <1>8, <1>i DEF vars, TCPInv
  <1> QED BY <1>2, <1>3, <1>4, <1>5, <1>6, <1>7, <1>8 DEF Next, Check, TCPCheck

(* Only UDPRead and Join give a verdict.                                   *)
LEMMA VerdictNext == TypeOK /\ DesktopInv /\ [Next]_vars => VerdictTrue'
  <1> SUFFICES ASSUME TypeOK, DesktopInv, [Next]_vars PROVE VerdictTrue' OBVIOUS
  <1>i. MainInv /\ TCPInv /\ VerdictTrue BY DEF DesktopInv
  <1>n. net \in Networks /\ net' = net /\ flags' = flags
    <2>1. net' = net /\ flags' = flags
      BY DEF Next, Check, TCPCheck, ValidateFlags, CheckConnectivity, UDPWrite, UDPRead, Join,
             TCPDial, TCPWrite, TCPRead, OpenTun, CopyEnds, Signal, vars
    <2> QED BY <2>1 DEF TypeOK, Networks
  <1>1. CASE code' = code BY <1>1, <1>i, <1>n DEF VerdictTrue
  <1>2. CASE code' \in {"none", "IllegalConfiguration", "Unexpected"} BY <1>2 DEF VerdictTrue
  <1>3. CASE ~flags.checkConnectivity \/ flags.version BY <1>3, <1>n DEF VerdictTrue
  <1>4. CASE UDPRead /\ code' # code
    <2>1. net.relaysUDP /\ code' = "NoError"
      BY <1>4 DEF UDPRead, StrayPacket, NextAttempt, Exit
    <2>2. code' = Verdict(net) BY <2>1 DEF Verdict
    <2> QED BY <1>n, <2>2, AppearsAsIs DEF VerdictTrue
  <1>5. CASE Join
    <2>1. \/ code' = "UDPConnectivity" /\ net.accepts /\ net.relaysTCP
          \/ code' = "AuthenticationFailure" /\ net.accepts /\ (~net.relaysTCP \/ net.flaky)
          \/ code' = "Unreachable" /\ (~net.accepts \/ net.flaky)
      BY <1>5, <1>i DEF Join, Exit, TCPInv, TypeOK, TCPResults
    <2>2. ~net.relaysUDP \/ net.flaky BY <1>5, <1>i DEF Join, MainInv
    <2>3. \E m \in Appears(net) : code' = Verdict(m) BY <1>n, <2>1, <2>2, JoinVerdict
    <2> QED BY <1>n, <2>3 DEF VerdictTrue
  <1>6. CASE ValidateFlags BY <1>1, <1>2, <1>3, <1>6 DEF ValidateFlags, Exit
  <1>7. CASE CheckConnectivity BY <1>1, <1>2, <1>7 DEF CheckConnectivity, Exit
  <1>8. CASE UDPWrite BY <1>1, <1>8 DEF UDPWrite, NextAttempt
  <1>9. CASE TCPCheck BY <1>1, <1>9 DEF TCPCheck, TCPDial, TCPWrite, TCPRead
  <1>10. CASE CopyEnds BY <1>1, <1>2, <1>10 DEF CopyEnds, Exit
  <1>11. CASE OpenTun \/ Signal BY <1>3, <1>11, <1>i DEF OpenTun, Signal, MainInv
  <1>12. CASE UNCHANGED vars BY <1>1, <1>12 DEF vars
  <1> QED BY <1>1, <1>4, <1>5, <1>6, <1>7, <1>8, <1>9, <1>10, <1>11, <1>12 DEF Next, Check

----------------------------------------------------------------------------
(* The inductive invariant.                                                *)
LEMMA DesktopInvariance == Spec => [](TypeOK /\ DesktopInv)
  <1>1. TypeOK /\ DesktopInv /\ [Next]_vars => TypeOK' /\ DesktopInv'
    BY TypeNext, MainNext, TCPNext, VerdictNext DEF DesktopInv
  <1> QED BY <1>1, DesktopInit, PTL DEF Spec

(* Type correctness; the UDP check makes at most udpMaxRetryAttempts       *)
(* attempts (shadowsocks/connectivity.go:40-55).                           *)
THEOREM TypeCorrect == Spec => []TypeOK
  BY DesktopInvariance, PTL

(* The exit code is the verdict on the network, whichever check ends       *)
(* first; chance failures only make the network look worse than it is      *)
(* (outline/shadowsocks/connectivity.go:35-67).                            *)
THEOREM VerdictIsTrue == Spec => []VerdictTrue
  <1>1. DesktopInv => VerdictTrue BY DEF DesktopInv
  <1> QED BY <1>1, DesktopInvariance, PTL
============================================================================
