---------------------------- MODULE StatusClient ----------------------------
(***************************************************************************)
(* internal/mqtt/client.go: onStatusMessage, the handler of the reports the*)
(* agents publish.  A message that is dropped (topic, payload or status    *)
(* that does not parse, unknown machine) is no step.                       *)
(***************************************************************************)
EXTENDS NodeStore, Handlers

CONSTANTS
    Reports,     \* the statuses agents report
    ReportIPs    \* the addresses agents report

ASSUME ReportsAssumption == Reports \subseteq Status /\ ReportIPs \subseteq IPs

\* Defect: the heartbeat is forgotten.
ReportedSilently(node, status, ip) ==
    [node EXCEPT !.status = IF CanTransitionTo(node.status, status) THEN status ELSE @,
                 !.ip = IF ip = NoIP THEN @ ELSE ip]
\* The copy of the record after the report: the status only if it may change
\* so, the heartbeat and the address in any case.
Reported(node, status, ip) ==
    [node EXCEPT !.status = IF CanTransitionTo(node.status, status) THEN status ELSE @,
                 !.heartbeat = now,
                 !.ip = IF ip = NoIP THEN @ ELSE ip]

\* A report of a known machine: its record is copied, checked and changed.
ReportReceive ==
    /\ \E m \in MACs, s \in Reports, ip \in ReportIPs \cup {NoIP} :
          /\ Found(m)
          /\ Begin(MqttLoop, [pc |-> "report_save", mac |-> m, type |-> "none",
                              ip |-> NoIP, node |-> Reported(nodes[m], s, ip)])
    /\ UNCHANGED <<now, storeVars>>

\* The copy is saved, whether the status was accepted or not.
ReportSave ==
    /\ Return(MqttLoop, "report_save")
    /\ Save(tasks[MqttLoop].mac, tasks[MqttLoop].node) \/ SaveFails
    /\ UNCHANGED now

StatusNext == ReportReceive \/ ReportSave
=============================================================================
