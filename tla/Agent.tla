------------------------------- MODULE Agent -------------------------------
(***************************************************************************)
(* cmd/nodefoundry-agent and internal/agent: the agent of an installed     *)
(* machine, from its start by systemd to the reports it publishes.         *)
(*                                                                         *)
(* The agent says nothing but "installed", and the address of the machine. *)
(* Reports are published with QoS 0: each arrives at most once, late or    *)
(* not at all.  The broker and the paho library are external.              *)
(***************************************************************************)
EXTENDS MachinesAndTime

VARIABLES
    agent,    \* the agent process of each machine
    reports   \* the addresses in the reports of each machine that are on their way
agentVars == <<agent, reports>>

AgentState == {"absent",    \* the machine has no agent: no binary, or no enabled unit
               "stopped", "connecting", "confirming", "running", "disconnected"}

AgentTypeOK ==
    /\ agent \in [MACs -> AgentState]
    /\ reports \in [MACs -> SUBSET (IPs \cup {NoIP})]

\* The machines that come with an agent.
AgentInit(having) == /\ agent = [m \in MACs |-> IF m \in having THEN "stopped" ELSE "absent"]
                     /\ reports = [m \in MACs |-> {}]

AgentMoves(m, from, to) == agent[m] = from /\ agent' = [agent EXCEPT ![m] = to]

Publish(m, ip) == reports' = [reports EXCEPT ![m] = @ \cup {ip}]

-----------------------------------------------------------------------------
\* The agent and its unit are put on the disk, which was erased before.
AgentInstalled(m) == AgentMoves(m, "absent", "stopped") /\ UNCHANGED reports
AgentErased(m) == agent' = [agent EXCEPT ![m] = "absent"] /\ UNCHANGED reports

\* systemd starts the agent with the system, and again 10 seconds after it ended.
AgentStart(m) == AgentMoves(m, "stopped", "connecting") /\ UNCHANGED reports

\* Connect gets through to the broker ...
AgentConnect(m) == AgentMoves(m, "connecting", "confirming") /\ UNCHANGED reports

\* ... and onConnect subscribes and signals.  The first report follows; when it
\* cannot be published this is only logged.
AgentConfirm(m, ip) == /\ AgentMoves(m, "confirming", "running")
                       /\ Publish(m, ip) \/ UNCHANGED reports

\* No connection, or no signal for 30 seconds because the subscription failed:
\* the agent ends.
AgentEnds(m) == /\ \/ AgentMoves(m, "connecting", "stopped")
                   \/ AgentMoves(m, "confirming", "stopped")
                /\ UNCHANGED reports

\* Defect: the agent reports once only.
HeartbeatNever(m, ip) == FALSE /\ Publish(m, ip) /\ UNCHANGED agent
\* The ticker fires: a report.
Heartbeat(m, ip) == agent[m] = "running" /\ Publish(m, ip) /\ UNCHANGED agent

\* The connection is lost; heartbeats fail until the library has reconnected,
\* and onConnect has subscribed again.
AgentLosesLink(m) == AgentMoves(m, "running", "disconnected") /\ UNCHANGED reports
AgentReconnects(m) == AgentMoves(m, "disconnected", "running") /\ UNCHANGED reports

\* The command reboot is dispatched: systemctl takes the system down, and
\* the agent with it.
RebootCommand(m) == AgentMoves(m, "running", "stopped") /\ UNCHANGED reports

\* A report on its way is lost.
ReportLost(m) == /\ \E ip \in reports[m] : reports' = [reports EXCEPT ![m] = @ \ {ip}]
                 /\ UNCHANGED agent
=============================================================================
