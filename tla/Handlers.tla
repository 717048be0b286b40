------------------------------ MODULE Handlers ------------------------------
(***************************************************************************)
(* The goroutines that handle one request each.  The DHCP library and the  *)
(* HTTP server start a goroutine per message; Workers bounds how many run  *)
(* at once.  The MQTT client hands its messages one at a time, in order,   *)
(* to the goroutine MqttLoop.                                              *)
(*                                                                         *)
(* A handler's locals are a task: pc is what it is about to do, node the   *)
(* record it has read or built and will write back.                        *)
(***************************************************************************)
EXTENDS NodeModel

CONSTANTS
    Workers,    \* bound: the DHCP and HTTP requests in progress at once
    MqttLoop,   \* the goroutine of the MQTT subscription
    Idle        \* a handler without a request

ASSUME MqttLoopAssumption == MqttLoop \notin Workers

VARIABLE tasks

Handler == Workers \cup {MqttLoop}

Task == [pc   : {"dhcp_save", "dhcp_build", "dhcp_persist", "dhcp_send",
                 "register_save", "install_update", "report_save"},
         mac  : MACs,
         type : {"discover", "request", "none"},   \* of a DHCP message
         ip   : IPs \cup {NoIP},   \* the address asked for, then the address assigned
         node : Node \cup {NoNode}]

ASSUME IdleAssumption == Idle \notin Task

TasksTypeOK == tasks \in [Handler -> Task \cup {Idle}]

TasksInit == tasks = [h \in Handler |-> Idle]

At(h, pc) == tasks[h] # Idle /\ tasks[h].pc = pc

\* h takes up a request.
Begin(h, task) == tasks[h] = Idle /\ tasks' = [tasks EXCEPT ![h] = task]

\* h, at pc, goes on with its locals as task says, or returns.
Continue(h, pc, task) == At(h, pc) /\ tasks' = [tasks EXCEPT ![h] = task]
Return(h, pc) == Continue(h, pc, Idle)
=============================================================================
