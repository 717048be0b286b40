----------------------------- MODULE NodeStore -----------------------------
(***************************************************************************)
(* internal/db/bolt_node_repository.go: the persistent records.  bbolt runs*)
(* one read-write transaction at a time, so each method is one atomic      *)
(* operation; nothing ties a FindByMAC to the Save that follows it.        *)
(*                                                                         *)
(* After Close every method fails.  Save and UpdateStatus validate what    *)
(* they store; every record the callers hold is valid, so the only failure *)
(* of Save that remains is the closed database.                            *)
(***************************************************************************)
EXTENDS NodeModel

VARIABLES
    nodes,   \* the nodes bucket: MAC to record
    db       \* "open" or "closed"
storeVars == <<nodes, db>>

StoreTypeOK == /\ nodes \in [MACs -> Node \cup {NoNode}]
               /\ db \in {"open", "closed"}

StoreInit == /\ nodes = [m \in MACs |-> NoNode]
             /\ db = "open"

\* FindByMAC succeeds, and then returns a copy of nodes[mac].
Found(mac) == db = "open" /\ nodes[mac] # NoNode

\* Defect: the creation time is the writer's.
StoredAsGiven(mac, node) == node
\* What Save writes, and leaves in its caller's record: all of node, except
\* that the creation time of an existing record is kept.
Stored(mac, node) ==
    [node EXCEPT !.created = IF nodes[mac] = NoNode THEN now ELSE nodes[mac].created]

\* Save(node) succeeds: it overwrites the whole record and checks no transition.
Save(mac, node) == /\ db = "open"
                   /\ nodes' = [nodes EXCEPT ![mac] = Stored(mac, node)]
                   /\ UNCHANGED db

\* Save(node) fails.
SaveFails == db = "closed" /\ UNCHANGED storeVars

\* Defect: the transaction does not check the transition.
UpdateStatusUnchecked(mac, status) ==
    /\ Found(mac)
    /\ nodes' = [nodes EXCEPT ![mac] = [nodes[mac] EXCEPT !.status = status]]
    /\ UNCHANGED db
\* UpdateStatus(mac, status) succeeds: lookup, check and write are one transaction.
UpdateStatus(mac, status) ==
    /\ Found(mac)
    /\ CanTransitionTo(nodes[mac].status, status)
    /\ nodes' = [nodes EXCEPT ![mac] = [nodes[mac] EXCEPT !.status = status]]
    /\ UNCHANGED db

\* UpdateStatus(mac, status) fails.
UpdateStatusFails(mac, status) ==
    /\ ~(Found(mac) /\ CanTransitionTo(nodes[mac].status, status))
    /\ UNCHANGED storeVars

\* Delete(mac) succeeds.  The program does not call it.
Delete(mac) == /\ Found(mac)
               /\ nodes' = [nodes EXCEPT ![mac] = NoNode]
               /\ UNCHANGED db

\* Closing the database waits for the running transaction, and keeps the records.
Close == db = "open" /\ db' = "closed" /\ UNCHANGED nodes

\* InitializeDB opens the file of an earlier run with its records.
InitializeDB == db = "closed" /\ db' = "open" /\ UNCHANGED nodes
=============================================================================
