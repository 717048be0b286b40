----------------------------- MODULE NodeModel -----------------------------
(***************************************************************************)
(* internal/model/node.go: the record kept for a machine and the status    *)
(* machine it follows.                                                     *)
(*                                                                         *)
(* Of the record's fields, mac is the key it is stored under; netmask,     *)
(* gateway and dns are always written together, with an address of the     *)
(* pool, and are one flag, net; hostname, updated_at and extra decide      *)
(* nothing and are left out.                                               *)
(***************************************************************************)
EXTENDS MachinesAndTime

CONSTANT NoNode   \* no record under a key

Discovered == "discovered"
Installing == "installing"
Installed == "installed"
Status == {Discovered, Installing, Installed}

\* Defect: the first report of a machine counts as its installation.
stateTransitionsSkip ==
    [s \in Status |-> IF s = Installed THEN {} ELSE {Installing, Installed}]
stateTransitions ==
    [s \in Status |-> CASE s = Discovered -> {Installing}
                        [] s = Installing -> {Installed}
                        [] s = Installed  -> {}]

\* CanTransitionTo: a status may be kept, or left along the table.
CanTransitionTo(from, to) ==
    to \in Status /\ (from = to \/ to \in stateTransitions[from])

Never == -1   \* the zero last_heartbeat

Node == [status    : Status,
         ip        : IPs \cup {NoIP},
         net       : BOOLEAN,
         created   : Nat,
         heartbeat : Nat \cup {Never}]

ASSUME NoNodeAssumption == NoNode \notin Node

\* Defect: the creation time is left zero.
NewNodeUndated == [status |-> Discovered, ip |-> NoIP, net |-> FALSE,
                   created |-> Never, heartbeat |-> Never]
\* NewNode(mac, STATE_DISCOVERED).
NewNode == [status |-> Discovered, ip |-> NoIP, net |-> FALSE,
            created |-> now, heartbeat |-> Never]
=============================================================================
