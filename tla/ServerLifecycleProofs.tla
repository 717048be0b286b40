----------------------- MODULE ServerLifecycleProofs -----------------------
(***************************************************************************)
(* Proofs about how the services of the process stop.  Its liveness        *)
(* properties are checked by TLC only.                                     *)
(***************************************************************************)
EXTENDS ServerLifecycle, TLAPS

\* Inductive: the context is done only for a cause, Shutdown runs only after a
\* signal, and then each service that has returned had a cause too.
CauseInv ==
    /\ ctx = "done" => failed # {} \/ signal
    /\ run \in {"http_shutdown", "db_close"} => signal
    /\ signal \in BOOLEAN
    /\ StopsForCause

\* A service returns only because it failed, another one did, or a signal came.
THEOREM EveryStopHasACause == Spec => []StopsForCause
PROOF
<1>1. Init => CauseInv
  BY DEF Init, CauseInv, StopsForCause
<1>2. CauseInv /\ [Next]_vars => CauseInv'
  <2> SUFFICES ASSUME CauseInv, [Next]_vars PROVE CauseInv'
    OBVIOUS
  <2> USE DEF CauseInv, StopsForCause, services, connection, process, Fail, Succeed
  <2>1. CASE DhcpStart \/ DhcpServeFails \/ DhcpStop
    BY <2>1 DEF DhcpStart, DhcpServeFails, DhcpStop
  <2>2. CASE MqttConnect \/ MqttConfirm \/ MqttTimeout \/ MqttStop
    BY <2>2 DEF MqttConnect, MqttConfirm, MqttTimeout, MqttStop
  <2>3. CASE OnConnect \/ OnConnectRefused \/ BrokerDown \/ BrokerUp \/ Reconnect
    BY <2>3 DEF OnConnect, OnConnectRefused, BrokerDown, BrokerUp, Reconnect
  <2>4. CASE HttpListen \/ HttpFail
    BY <2>4 DEF HttpListen, HttpFail
  <2>5. CASE Signal \/ RunSignalled
    BY <2>5 DEF Signal, RunSignalled
  <2>6. CASE ShutdownHttp \/ ShutdownDb \/ RunGroupDone
    BY <2>6 DEF ShutdownHttp, ShutdownDb, RunGroupDone
  <2>7. CASE UNCHANGED vars
    BY <2>7 DEF vars
  <2>8. QED
    BY <2>1, <2>2, <2>3, <2>4, <2>5, <2>6, <2>7 DEF Next
<1>3. CauseInv => StopsForCause
  BY DEF CauseInv
<1>4. QED
  BY <1>1, <1>2, <1>3, PTL DEF Spec

-----------------------------------------------------------------------------
\* Every variable of the process keeps its type; the channel of the client's
\* connections, which holds one signal, never holds two.
THEOREM LifecycleTypeCorrect == Spec => []TypeOK
PROOF
<1>1. 0 \in 0..1 /\ 1 \in 0..1
  OBVIOUS
<1>2. Init => TypeOK
  BY <1>1, Zenon DEF Init, TypeOK
<1>3. TypeOK /\ [Next]_vars => TypeOK'
  <2> SUFFICES ASSUME TypeOK, [Next]_vars PROVE TypeOK'
    OBVIOUS
  <2> USE DEF TypeOK, Next, vars, services, connection, process, Fail, Succeed, Signal,
              DhcpStart, DhcpServeFails, DhcpStop, MqttConnect, MqttConfirm, MqttTimeout,
              MqttStop, OnConnect, OnConnectRefused, BrokerDown, BrokerUp, Reconnect,
              HttpListen, HttpFail, RunSignalled, ShutdownHttp, ShutdownDb, RunGroupDone
  <2>1. dhcp' \in {"starting", "serving", "deaf", "returned"}
    BY Zenon
  <2>2. mqtt' \in {"connecting", "confirming", "running", "returned"}
    BY Zenon
  <2>3. http' \in {"starting", "listening", "returned"}
    BY Zenon
  <2>4. ctx' \in {"live", "done"}
    BY Zenon
  <2>5. link' \in {"none", "connected", "subscribed", "refused", "lost"}
    BY Zenon
  <2>6. broker' \in {"up", "down"}
    BY Zenon
  <2>7. run' \in {"waiting", "http_shutdown", "db_close", "exited"}
    BY Zenon
  <2>8. db' \in {"open", "closed"}
    BY Zenon
  <2>9. signal' \in BOOLEAN
    BY Zenon
  <2>10. failed' \subseteq {"dhcp", "mqtt", "http"}
    BY Zenon
  <2>11. connectChan' \in 0..1
    BY <1>1, Zenon
  <2>12. QED
    BY <2>1, <2>2, <2>3, <2>4, <2>5, <2>6, <2>7, <2>8, <2>9, <2>10, <2>11, Zenon
<1>4. QED
  BY <1>2, <1>3, PTL DEF Spec
=============================================================================
