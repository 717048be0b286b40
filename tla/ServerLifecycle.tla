-------------------------- MODULE ServerLifecycle --------------------------
(***************************************************************************)
(* internal/server/server.go with internal/mqtt/client.go's connection:    *)
(* how the three services of the process start, fail and stop.             *)
(*                                                                         *)
(* Server.Start runs the services in an errgroup, whose context is         *)
(* cancelled by the first service that returns an error; Server.Run waits  *)
(* for a signal or for the group.  The DHCP server and the MQTT client     *)
(* return when the context is done.  The HTTP server does not look at the  *)
(* context: it returns when its Shutdown is called.                        *)
(***************************************************************************)
EXTENDS Naturals

VARIABLES
    dhcp,     \* the goroutine of each service
    mqtt,
    http,
    failed,   \* the services that returned an error
    ctx,      \* the context of the group: "live" or "done"
    link,     \* the MQTT client's connection to the broker
    connectChan,   \* the signals of onConnect in the channel, which holds one
    broker,   \* the MQTT broker: "up" or "down"
    signal,   \* SIGINT or SIGTERM was received
    run,      \* Server.Run: waiting, its two steps of Shutdown, exited
    db        \* "open" or "closed"
services == <<dhcp, mqtt, http, failed, ctx>>
connection == <<link, connectChan, broker>>
process == <<signal, run, db>>
vars == <<services, connection, process>>

TypeOK ==
    /\ dhcp \in {"starting", "serving", "deaf", "returned"}
    /\ mqtt \in {"connecting", "confirming", "running", "returned"}
    /\ http \in {"starting", "listening", "returned"}
    /\ failed \subseteq {"dhcp", "mqtt", "http"}
    /\ ctx \in {"live", "done"}
    /\ link \in {"none", "connected", "subscribed", "refused", "lost"}
    /\ connectChan \in 0..1
    /\ broker \in {"up", "down"}
    /\ signal \in BOOLEAN
    /\ run \in {"waiting", "http_shutdown", "db_close", "exited"}
    /\ db \in {"open", "closed"}

Init ==
    /\ dhcp = "starting" /\ mqtt = "connecting" /\ http = "starting"
    /\ failed = {} /\ ctx = "live"
    /\ link = "none" /\ connectChan = 0 /\ broker \in {"up", "down"}
    /\ signal = FALSE /\ run = "waiting" /\ db = "open"

Alive == run # "exited"

\* A service's function returns an error: the group cancels the context.
Fail(service) == failed' = failed \cup {service} /\ ctx' = "done"
Succeed == UNCHANGED <<failed, ctx>>

-----------------------------------------------------------------------------
(***************************************************************************)
(* The DHCP server.                                                        *)
(***************************************************************************)
\* The socket is bound and served, or cannot be bound.
DhcpStart ==
    /\ Alive /\ dhcp = "starting"
    /\ \/ dhcp' = "serving" /\ Succeed
       \/ dhcp' = "returned" /\ Fail("dhcp")
    /\ UNCHANGED <<mqtt, http, connection, process>>

\* Reading the socket fails: the error is logged, and the service waits on.
DhcpServeFails ==
    /\ Alive /\ dhcp = "serving" /\ dhcp' = "deaf"
    /\ UNCHANGED <<mqtt, http, failed, ctx, connection, process>>

DhcpStop ==
    /\ Alive /\ dhcp \in {"serving", "deaf"} /\ ctx = "done"
    /\ dhcp' = "returned" /\ Succeed
    /\ UNCHANGED <<mqtt, http, connection, process>>

-----------------------------------------------------------------------------
(***************************************************************************)
(* The MQTT client.  The paho library is external: it runs the hook        *)
(* onConnect after every connection, and reconnects a lost one by itself,  *)
(* but not the first.                                                      *)
(***************************************************************************)
MqttConnect ==
    /\ Alive /\ mqtt = "connecting"
    /\ \/ /\ broker = "up"
          /\ mqtt' = "confirming" /\ link' = "connected" /\ Succeed
       \/ /\ broker = "down"
          /\ mqtt' = "returned" /\ Fail("mqtt") /\ UNCHANGED link
    /\ UNCHANGED <<dhcp, http, connectChan, broker, process>>

\* Defect: the signal is sent without looking whether one is waiting.
OnConnectAlways ==
    /\ Alive /\ link = "connected" /\ broker = "up"
    /\ link' = "subscribed" /\ connectChan' = connectChan + 1
    /\ UNCHANGED <<services, broker, process>>
\* onConnect subscribes, and signals Start unless a signal is already waiting.
OnConnect ==
    /\ Alive /\ link = "connected" /\ broker = "up"
    /\ link' = "subscribed" /\ connectChan' = 1
    /\ UNCHANGED <<services, broker, process>>

\* The broker refuses the subscription: onConnect logs it and gives up, and the
\* connection stays.
OnConnectRefused ==
    /\ Alive /\ link = "connected" /\ broker = "up"
    /\ link' = "refused"
    /\ UNCHANGED <<services, connectChan, broker, process>>

\* Start sees the signal; without one for 30 seconds it gives up.
MqttConfirm ==
    /\ Alive /\ mqtt = "confirming" /\ connectChan = 1
    /\ mqtt' = "running" /\ connectChan' = 0 /\ Succeed
    /\ UNCHANGED <<dhcp, http, link, broker, process>>
\* Defect: no timeout, Start waits for the signal.
MqttTimeoutNever ==
    FALSE /\ UNCHANGED vars
MqttTimeout ==
    /\ Alive /\ mqtt = "confirming"
    /\ mqtt' = "returned" /\ Fail("mqtt")
    /\ UNCHANGED <<dhcp, http, connection, process>>

\* Defect: Start returns as soon as the connection is confirmed.
MqttStopEarly ==
    /\ Alive /\ mqtt = "running"
    /\ mqtt' = "returned" /\ link' = "none" /\ Succeed
    /\ UNCHANGED <<dhcp, http, connectChan, broker, process>>
MqttStop ==
    /\ Alive /\ mqtt = "running" /\ ctx = "done"
    /\ mqtt' = "returned" /\ link' = "none" /\ Succeed
    /\ UNCHANGED <<dhcp, http, connectChan, broker, process>>

\* A connection is lost with the broker, under a subscription request too.
BrokerDown ==
    /\ broker = "up" /\ broker' = "down"
    /\ link' = IF link = "none" THEN "none" ELSE "lost"
    /\ UNCHANGED <<services, connectChan, process>>
BrokerUp ==
    /\ broker = "down" /\ broker' = "up"
    /\ UNCHANGED <<services, link, connectChan, process>>

\* Defect: the subscription is not part of the hook, only the first connection makes it.
ReconnectSilently ==
    /\ Alive /\ link = "lost" /\ broker = "up"
    /\ link' = "none"
    /\ UNCHANGED <<services, connectChan, broker, process>>
Reconnect ==
    /\ Alive /\ link = "lost" /\ broker = "up"
    /\ link' = "connected"
    /\ UNCHANGED <<services, connectChan, broker, process>>

-----------------------------------------------------------------------------
(***************************************************************************)
(* The HTTP server, and the end of the process.                            *)
(***************************************************************************)
HttpListen ==
    /\ Alive /\ http = "starting"
    /\ http' = "listening" /\ Succeed
    /\ UNCHANGED <<dhcp, mqtt, connection, process>>

\* The address cannot be bound, or a later Accept fails.
HttpFail ==
    /\ Alive /\ http # "returned"
    /\ http' = "returned" /\ Fail("http")
    /\ UNCHANGED <<dhcp, mqtt, connection, process>>

Signal == /\ Alive /\ ~signal /\ signal' = TRUE
          /\ UNCHANGED <<services, connection, run, db>>

\* Defect: Run waits for the group before it shuts down.
RunSignalledWaits ==
    /\ run = "waiting" /\ signal
    /\ dhcp = "returned" /\ mqtt = "returned" /\ http = "returned"
    /\ ctx' = "done" /\ run' = "http_shutdown"
    /\ UNCHANGED <<dhcp, mqtt, http, failed, connection, signal, db>>
\* Run takes up the signal: the context is cancelled and Shutdown is called.
RunSignalled ==
    /\ run = "waiting" /\ signal
    /\ ctx' = "done" /\ run' = "http_shutdown"
    /\ UNCHANGED <<dhcp, mqtt, http, failed, connection, signal, db>>

\* Shutdown stops the HTTP server, which returns without an error ...
ShutdownHttp ==
    /\ run = "http_shutdown"
    /\ http' = "returned" /\ run' = "db_close" /\ Succeed
    /\ UNCHANGED <<dhcp, mqtt, connection, signal, db>>

\* ... and closes the database; the process ends, and waits for no goroutine.
ShutdownDb ==
    /\ run = "db_close"
    /\ db' = "closed" /\ run' = "exited"
    /\ UNCHANGED <<services, connection, signal>>

\* Run ends when the group has: when all three services have returned.
RunGroupDone ==
    /\ run = "waiting"
    /\ dhcp = "returned" /\ mqtt = "returned" /\ http = "returned"
    /\ run' = "exited"
    /\ UNCHANGED <<services, connection, signal, db>>

-----------------------------------------------------------------------------
Next == \/ DhcpStart \/ DhcpServeFails \/ DhcpStop
        \/ MqttConnect \/ OnConnect \/ OnConnectRefused \/ MqttConfirm \/ MqttTimeout \/ MqttStop
        \/ BrokerDown \/ BrokerUp \/ Reconnect
        \/ HttpListen \/ HttpFail
        \/ Signal \/ RunSignalled \/ ShutdownHttp \/ ShutdownDb \/ RunGroupDone

\* Goroutines run, timers fire and the library retries.  Neither the signal nor
\* the broker is under any obligation.
Fairness ==
    /\ WF_vars(DhcpStart) /\ WF_vars(DhcpStop) /\ WF_vars(HttpListen)
    /\ WF_vars(MqttConnect) /\ WF_vars(MqttConfirm \/ MqttTimeout) /\ WF_vars(MqttStop)
    /\ WF_vars(OnConnect \/ OnConnectRefused) /\ WF_vars(Reconnect)
    /\ WF_vars(RunSignalled) /\ WF_vars(RunGroupDone)
    /\ WF_vars(ShutdownHttp) /\ WF_vars(ShutdownDb)

Spec == Init /\ [][Next]_vars /\ Fairness

-----------------------------------------------------------------------------
(***************************************************************************)
(* Properties.                                                             *)
(***************************************************************************)
\* No service stops on its own account: one that has returned failed itself, or
\* was stopped because another one failed or a signal came.
StopsForCause ==
    "returned" \in {dhcp, mqtt, http} => failed # {} \/ signal

\* A signal ends the process, also while a service is starting, waiting for the
\* broker or already gone.
SignalEnds == signal ~> run = "exited"

\* When the HTTP server fails the process ends: the context stops the
\* other two, even when the MQTT client is still waiting for its subscription.
HttpFailureEnds == "http" \in failed ~> run = "exited"

\* A running client whose broker stays up is subscribed for good, however often
\* the connection was lost before, unless the broker has refused the subscription:
\* onConnect, the only place that subscribes, runs again after every reconnection.
ResubscribesForGood ==
    <>[](broker = "up" /\ mqtt = "running" /\ Alive /\ link # "refused")
    => <>[](link = "subscribed")

\* "MQTT broker unavailable: ... does not affect the other services (HTTP, DHCP)":
\* the DHCP server is not stopped by a failure of the MQTT client alone.
BrokerOutageContained == failed = {"mqtt"} /\ ~signal => dhcp # "returned"
=============================================================================
