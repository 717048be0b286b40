----------------------------- MODULE ApiServer -----------------------------
(***************************************************************************)
(* internal/api/handler.go: the two requests that change records.  A       *)
(* request that is answered without a change (a body or a MAC that does    *)
(* not parse, 409 for a known machine, 404, 400 for a machine that is not  *)
(* discovered) is no step.                                                 *)
(***************************************************************************)
EXTENDS NodeStore, Handlers

CONSTANT RegisterIPs   \* the addresses operators register machines with

ASSUME ApiAssumption == RegisterIPs \subseteq IPs

VARIABLE authorised    \* history: the machines an install request has committed for

ApiTypeOK == authorised \subseteq MACs
ApiInit == authorised = {}

Request(pc, mac, node) ==
    [pc |-> pc, mac |-> mac, type |-> "none", ip |-> NoIP, node |-> node]

\* POST /api/v1/nodes finds no record, and makes one to save.
RegisterReceive(h) ==
    /\ \E m \in MACs, ip \in RegisterIPs \cup {NoIP} :
          /\ ~Found(m)
          /\ Begin(h, Request("register_save", m, [NewNode EXCEPT !.ip = ip]))
    /\ UNCHANGED <<now, storeVars, authorised>>

\* It saves the record and answers 201, or 500.
RegisterSave(h) ==
    /\ Return(h, "register_save")
    /\ Save(tasks[h].mac, tasks[h].node) \/ SaveFails
    /\ UNCHANGED <<now, authorised>>

\* PUT /api/v1/nodes/{mac} with the action install finds the machine discovered.
InstallReceive(h) ==
    /\ \E m \in MACs :
          /\ Found(m) /\ nodes[m].status = Discovered
          /\ Begin(h, Request("install_update", m, NoNode))
    /\ UNCHANGED <<now, storeVars, authorised>>

\* Defect: the machine is recorded as installed at once.
InstallUpdateInstalled(h) ==
    /\ Return(h, "install_update")
    /\ \/ /\ Found(tasks[h].mac)
          /\ nodes' = [nodes EXCEPT ![tasks[h].mac].status = Installed]
          /\ authorised' = authorised \cup {tasks[h].mac}
          /\ UNCHANGED db
       \/ /\ UpdateStatusFails(tasks[h].mac, Installing)
          /\ UNCHANGED authorised
    /\ UNCHANGED now
\* It updates the status and answers 200 with the record read again, or 500.
InstallUpdate(h) ==
    /\ Return(h, "install_update")
    /\ \/ /\ UpdateStatus(tasks[h].mac, Installing)
          /\ authorised' = authorised \cup {tasks[h].mac}
       \/ /\ UpdateStatusFails(tasks[h].mac, Installing)
          /\ UNCHANGED authorised
    /\ UNCHANGED now

ApiNext(h) == \/ RegisterReceive(h) \/ RegisterSave(h)
              \/ InstallReceive(h) \/ InstallUpdate(h)
=============================================================================
