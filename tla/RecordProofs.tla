---------------------------- MODULE RecordProofs ----------------------------
(***************************************************************************)
(* Proofs about what the records hold, for any number of machines,         *)
(* handlers, addresses and restarts.                                       *)
(*                                                                         *)
(* The properties of a record are not inductive: a handler may write back  *)
(* a copy it took long ago.  Each is asked of the copies too.              *)
(***************************************************************************)
EXTENDS NodeFoundryProofs

\* The sources of an address in a record: the pool, operators, the machine.
Known == PoolStart..PoolEnd \cup RegisterIPs \cup ReportIPs \cup {NoIP}

\* A record, or a copy of one, on its own.
Valid(n) ==
    /\ n.status = Installed => n.heartbeat # Never
    /\ n.net => n.ip # NoIP
    /\ PoolEnd < MaxIP => n.ip \in Known

\* A record, or a copy of one, and the machine's lease.
Reserved(n, l) ==
    n.net => /\ l # NoLease
             /\ n.ip = l.ip \/ (n.ip \in ReportIPs /\ n.heartbeat # Never)

RecordsSound ==
    \A m \in MACs : Recorded(m) => /\ Valid(nodes[m])
                                   /\ boots = 0 => Reserved(nodes[m], leases[m])

CopiesSound ==
    \A h \in Handler :
       tasks[h] # Idle /\ tasks[h].node # NoNode
       => /\ Valid(tasks[h].node)
          /\ boots = 0 => Reserved(tasks[h].node, leases[tasks[h].mac])

\* The places of a DHCP handler after its first Save.
Saved == {"dhcp_build", "dhcp_persist", "dhcp_send"}

\* A handler past its first Save works for a machine with a record.
SavedRecorded ==
    \A h \in Handler : tasks[h] # Idle /\ tasks[h].pc \in Saved => Recorded(tasks[h].mac)

\* Every leased address is one of the configured range.
LeasesInPool == \A m \in MACs : leases[m] # NoLease => isIPInPool(leases[m].ip)

InPool == PoolEnd < MaxIP => LeasesInPool

RecordsInv == RecordsSound /\ CopiesSound /\ SavedRecorded /\ AckedHasRecord /\ InPool

-----------------------------------------------------------------------------
(***************************************************************************)
(* Steps on the pool and on the store.                                     *)
(***************************************************************************)
\* While the server runs a machine keeps the address of its lease.
AddressesKept ==
    \A m \in MACs : leases[m] # NoLease => leases'[m] # NoLease /\ leases'[m].ip = leases[m].ip

\* A record does not disappear.
RecordsKept == \A m \in MACs : Recorded(m) => nodes'[m] # NoNode

LEMMA AllocateKeepsAddresses ==
    ASSUME PoolInv, NEW m \in MACs, NEW req \in IPs \cup {NoIP}, NEW ip,
           AllocateIP(m, req, ip)
    PROVE  AddressesKept
PROOF
<1>1. CASE leases[m] # NoLease
  <2>1. leases[m] \in Lease /\ ip = leases[m].ip /\ leases' = Renewed(m)
    BY <1>1 DEF AllocateIP, PoolInv, PoolTypeOK
  <2>2. leases'[m] # NoLease /\ leases'[m].ip = ip
    BY AllocateReserves
  <2>3. \A n \in MACs \ {m} : leases'[n] = leases[n]
    BY <2>1 DEF Renewed, PoolInv, PoolTypeOK
  <2>4. QED
    BY <2>1, <2>2, <2>3 DEF AddressesKept
<1>2. CASE leases[m] = NoLease
  BY <1>2 DEF AllocateIP, allocateIP, AddressesKept, PoolInv, PoolTypeOK
<1>3. QED
  BY <1>1, <1>2

LEMMA AllocateInPool ==
    ASSUME PoolInv, LeasesInPool, PoolEnd < MaxIP,
           NEW m \in MACs, NEW req \in IPs \cup {NoIP}, NEW ip, AllocateIP(m, req, ip)
    PROVE  LeasesInPool' /\ ip \in PoolStart..PoolEnd
PROOF
<1>1. ip \in IPs /\ leases'[m].ip = ip
  BY AllocateReserves
<1>2. isIPInPool(ip)
  <2>1. CASE leases[m] # NoLease
    BY <2>1 DEF AllocateIP, LeasesInPool
  <2>2. CASE leases[m] = NoLease
    BY <2>2, ChosenInPool DEF AllocateIP
  <2>3. QED
    BY <2>1, <2>2
<1>3. \A n \in MACs \ {m} : leases'[n] = leases[n]
  BY DEF AllocateIP, Renewed, allocateIP, PoolInv, PoolTypeOK
<1>4. LeasesInPool'
  BY <1>1, <1>2, <1>3 DEF LeasesInPool, isIPInPool
<1>5. ip \in PoolStart..PoolEnd
  BY <1>1, <1>2, PoolAssumption, MaxIPAssumption DEF isIPInPool, IPs
<1>6. QED
  BY <1>4, <1>5

\* What is stored differs from the copy in the creation time only.
LEMMA StoredSound ==
    ASSUME TypeInv, NEW m \in MACs, NEW n \in Node
    PROVE  /\ Stored(m, n) \in Node
           /\ Valid(n) => Valid(Stored(m, n))
           /\ \A l : Reserved(n, l) => Reserved(Stored(m, n), l)
PROOF
<1>1. Stored(m, n) \in Node
  BY StoredIsNode DEF TypeInv, TypeOK
<1>2. /\ Stored(m, n).status = n.status /\ Stored(m, n).heartbeat = n.heartbeat
      /\ Stored(m, n).ip = n.ip /\ Stored(m, n).net = n.net
  BY DEF Stored, Node
<1>3. QED
  BY <1>1, <1>2 DEF Valid, Reserved

\* Saving a sound copy leaves every record sound.
LEMMA SaveKeepsSound ==
    ASSUME TypeInv, RecordsSound, NEW m \in MACs, NEW n \in Node, Valid(n),
           boots = 0 => Reserved(n, leases[m]),
           Save(m, n) \/ SaveFails, UNCHANGED <<leases, boots>>
    PROVE  RecordsSound' /\ RecordsKept
PROOF
<1>1. CASE Save(m, n)
  <2> DEFINE s == Stored(m, n)
  <2>1. s \in Node /\ Valid(s) /\ (boots = 0 => Reserved(s, leases[m])) /\ s # NoNode
    BY StoredSound, NoNodeAssumption
  <2>2. nodes' = [nodes EXCEPT ![m] = s]
    BY <1>1 DEF Save
  <2> HIDE DEF s
  <2>3. \A k \in MACs : nodes'[k] = IF k = m THEN s ELSE nodes[k]
    BY <2>2 DEF TypeInv, TypeOK, StoreTypeOK
  <2>4. QED
    BY <2>1, <2>3 DEF RecordsSound, RecordsKept, Recorded
<1>2. CASE SaveFails
  BY <1>2 DEF SaveFails, storeVars, RecordsSound, RecordsKept, Recorded
<1>3. QED
  BY <1>1, <1>2

\* Records that nobody writes stay sound when machines keep their addresses.
LEMMA UnwrittenStaySound ==
    ASSUME RecordsSound, UNCHANGED <<nodes, boots>>, AddressesKept
    PROVE  RecordsSound' /\ RecordsKept
BY DEF RecordsSound, RecordsKept, Recorded, AddressesKept, Reserved

\* A handler's step to a sound task, or to Idle, keeps the handlers' part.
LEMMA TaskStepSound ==
    ASSUME TypeInv, CopiesSound, SavedRecorded, AddressesKept, RecordsKept, UNCHANGED boots,
           NEW h \in Handler, NEW t, tasks' = [tasks EXCEPT ![h] = t],
           t # Idle /\ t.node # NoNode
              => Valid(t.node) /\ (boots = 0 => Reserved(t.node, leases'[t.mac])),
           t # Idle /\ t.pc \in Saved => nodes'[t.mac] # NoNode
    PROVE  CopiesSound' /\ SavedRecorded'
PROOF
<1>1. \A g \in Handler : tasks'[g] = IF g = h THEN t ELSE tasks[g]
  BY DEF TypeInv, TypeOK, TasksTypeOK
<1>2. \A g \in Handler : tasks[g] # Idle => tasks[g].mac \in MACs
  BY DEF TypeInv, TypeOK, TasksTypeOK, Task
<1>3. CopiesSound'
  BY <1>1, <1>2 DEF CopiesSound, AddressesKept, Reserved
<1>4. SavedRecorded'
  BY <1>1, <1>2 DEF SavedRecorded, RecordsKept, Recorded
<1>5. QED
  BY <1>3, <1>4

\* No handler moves.
LEMMA TasksUnmoved ==
    ASSUME TypeInv, CopiesSound, SavedRecorded, AddressesKept, RecordsKept,
           UNCHANGED <<boots, tasks>>
    PROVE  CopiesSound' /\ SavedRecorded'
PROOF
<1>1. \A g \in Handler : tasks[g] # Idle => tasks[g].mac \in MACs
  BY DEF TypeInv, TypeOK, TasksTypeOK, Task
<1>2. QED
  BY <1>1 DEF CopiesSound, SavedRecorded, AddressesKept, RecordsKept, Recorded, Reserved

\* A handler that is somewhere, but not about to update a status, holds a sound copy.
LEMMA AtSound ==
    ASSUME TypeInv, RecordsInv, NEW h \in Handler, NEW pc, At(h, pc), pc # "install_update"
    PROVE  /\ tasks[h] \in Task /\ tasks[h].pc = pc /\ tasks[h] # Idle
           /\ tasks[h].mac \in MACs /\ tasks[h].node \in Node /\ tasks[h].node # NoNode
           /\ Valid(tasks[h].node)
           /\ boots = 0 => Reserved(tasks[h].node, leases[tasks[h].mac])
           /\ pc \in Saved => Recorded(tasks[h].mac)
PROOF
<1>1. /\ tasks[h] \in Task /\ tasks[h].pc = pc /\ tasks[h] # Idle
      /\ tasks[h].mac \in MACs /\ tasks[h].node \in Node /\ tasks[h].node # NoNode
  BY AtTask, NoNodeAssumption DEF WellFormed, At
<1>2. QED
  BY <1>1 DEF RecordsInv, CopiesSound, SavedRecorded

\* A copy of the stored record, or a new record, is sound.
LEMMA CopySound ==
    ASSUME RecordsSound, NEW m \in MACs, NEW n, n = IF Found(m) THEN nodes[m] ELSE NewNode
    PROVE  Valid(n) /\ (boots = 0 => Reserved(n, leases[m]))
BY DEF RecordsSound, Recorded, Found, NewNode, Valid, Reserved, Known,
       Discovered, Installed

-----------------------------------------------------------------------------
(***************************************************************************)
(* The handlers.                                                           *)
(***************************************************************************)
\* The copy of a handler whose reply holds an address of its machine's lease.
LEMMA AssignedSound ==
    ASSUME TypeInv, NEW t \in Task, t.node \in Node, Valid(t.node),
           boots = 0 => Reserved(t.node, leases'[t.mac]),
           NEW ip \in IPs, leases'[t.mac] # NoLease, leases'[t.mac].ip = ip,
           PoolEnd < MaxIP => ip \in Known
    PROVE  /\ Assigned(t, ip).mac = t.mac
           /\ Valid(Assigned(t, ip).node)
           /\ boots = 0 => Reserved(Assigned(t, ip).node, leases'[t.mac])
PROOF
<1> DEFINE n == [t.node EXCEPT !.ip = ip, !.net = TRUE]
<1>1. /\ n.status = t.node.status /\ n.heartbeat = t.node.heartbeat
      /\ n.ip = ip /\ n.net = TRUE
  BY DEF Node
<1>2. ip # NoIP
  BY MaxIPAssumption DEF IPs, NoIP
<1>3. CASE ip = UnspecifiedIP
  <2>1. Assigned(t, ip) = [t EXCEPT !.pc = "dhcp_send", !.ip = ip]
    BY <1>3 DEF Assigned
  <2>2. QED
    BY <2>1 DEF Task
<1>4. CASE ip # UnspecifiedIP
  <2>1. Assigned(t, ip) = [t EXCEPT !.pc = "dhcp_persist", !.ip = ip, !.node = n]
    BY <1>4 DEF Assigned
  <2> HIDE DEF n
  <2>2. Assigned(t, ip).mac = t.mac /\ Assigned(t, ip).node = n
    BY <2>1 DEF Task
  <2>3. QED
    BY <1>1, <1>2, <2>2 DEF Valid, Reserved
<1>5. QED
  BY <1>3, <1>4

\* A step of the pool for the machine of a handler in buildResponse.
LEMMA BuildReserves ==
    ASSUME TypeInv, RecordsInv, NEW h \in Handler, DhcpOffer(h) \/ DhcpAck(h)
    PROVE  /\ AddressesKept /\ InPool'
           /\ \/ tasks' = [tasks EXCEPT ![h] = Idle]
              \/ UNCHANGED tasks
              \/ \E ip \in IPs :
                    /\ tasks' = [tasks EXCEPT ![h] = Assigned(tasks[h], ip)]
                    /\ leases'[tasks[h].mac] # NoLease /\ leases'[tasks[h].mac].ip = ip
                    /\ PoolEnd < MaxIP => ip \in Known
PROOF
<1> USE DEF Continue, Return
<1>1. tasks[h].mac \in MACs /\ tasks[h].ip \in IPs \cup {NoIP}
  <2>1. tasks[h] \in Task
    BY AtTask DEF DhcpOffer, DhcpAck
  <2>2. QED
    BY <2>1 DEF Task
<1>2. InPool
  BY DEF RecordsInv
<1>3. UNCHANGED poolVars => AddressesKept /\ InPool'
  BY <1>2 DEF poolVars, AddressesKept, InPool, LeasesInPool
<1>4. ASSUME NEW ip \in IPs, AllocateIP(tasks[h].mac, tasks[h].ip, ip)
      PROVE  /\ AddressesKept /\ InPool'
             /\ leases'[tasks[h].mac] # NoLease /\ leases'[tasks[h].mac].ip = ip
             /\ PoolEnd < MaxIP => ip \in Known
  <2>1. AddressesKept
    BY <1>1, <1>4, AllocateKeepsAddresses, PoolInvHolds
  <2>2. leases'[tasks[h].mac] # NoLease /\ leases'[tasks[h].mac].ip = ip
    BY <1>1, <1>4, AllocateReserves, PoolInvHolds
  <2>3. PoolEnd < MaxIP => LeasesInPool' /\ ip \in PoolStart..PoolEnd
    BY <1>1, <1>2, <1>4, AllocateInPool, PoolInvHolds DEF InPool
  <2>4. QED
    BY <2>1, <2>2, <2>3 DEF InPool, Known
<1>5. CASE DhcpOffer(h)
  <2>1. UNCHANGED leases => AddressesKept /\ InPool'
    BY <1>2 DEF AddressesKept, InPool, LeasesInPool
  <2>2. QED
    BY <1>4, <1>5, <2>1 DEF DhcpOffer, ScanForever, poolVars
<1>6. CASE DhcpAck(h)
  <2>1. UNCHANGED poolVars
    BY <1>6 DEF DhcpAck
  <2>2. ASSUME NEW ip \in IPs, GetLease(tasks[h].mac, ip)
        PROVE  /\ leases'[tasks[h].mac] # NoLease /\ leases'[tasks[h].mac].ip = ip
               /\ PoolEnd < MaxIP => ip \in Known
    <3>1. leases[tasks[h].mac] # NoLease /\ leases[tasks[h].mac].ip = ip
      BY <2>2 DEF GetLease
    <3>2. PoolEnd < MaxIP => ip \in PoolStart..PoolEnd
      BY <1>1, <1>2, <3>1, PoolAssumption, MaxIPAssumption
         DEF InPool, LeasesInPool, isIPInPool, IPs
    <3>3. QED
      BY <2>1, <3>1, <3>2 DEF poolVars, Known
  <2>3. QED
    BY <1>3, <1>6, <2>1, <2>2 DEF DhcpAck
<1>7. QED
  BY <1>5, <1>6

\* Acknowledgements are sent by handlers past their first Save.
LEMMA SentRecorded ==
    ASSUME TypeInv, RecordsInv, NEW h \in Handler, RecordsKept,
           At(h, "dhcp_persist") \/ At(h, "dhcp_send"), Sent(tasks[h])
    PROVE  AckedHasRecord'
PROOF
<1>1. tasks[h].mac \in MACs /\ Recorded(tasks[h].mac)
  BY AtSound DEF Saved
<1>2. \A m \in MACs \ {tasks[h].mac} : acked'[m] = acked[m]
  BY DEF Sent, TypeInv, TypeOK, DhcpTypeOK
<1>3. \A m \in MACs : acked[m] # NotAcked => Recorded(m)
  BY DEF RecordsInv, AckedHasRecord
<1>4. QED
  BY <1>1, <1>2, <1>3 DEF AckedHasRecord, RecordsKept, Recorded

\* A step that sends no acknowledgement and loses no record.
LEMMA AcksStay ==
    ASSUME RecordsInv, RecordsKept, UNCHANGED acked
    PROVE  AckedHasRecord'
BY DEF RecordsInv, AckedHasRecord, RecordsKept, Recorded

LEMMA DhcpSound ==
    ASSUME TypeInv, RecordsInv, NEW h \in Handler, DhcpNext(h)
    PROVE  RecordsInv'
PROOF
<1> USE DEF Continue, Return, Begin
<1>1. UNCHANGED poolVars => AddressesKept /\ InPool' /\ UNCHANGED leases
  BY DEF RecordsInv, poolVars, AddressesKept, InPool, LeasesInPool
<1>2. UNCHANGED dhcpVars => UNCHANGED boots /\ UNCHANGED acked
  BY DEF dhcpVars
<1>3. UNCHANGED storeVars => UNCHANGED nodes
  BY DEF storeVars
<1>4. CASE DhcpReceive(h)
  <2> DEFINE n(m) == IF Found(m) THEN nodes[m] ELSE NewNode
             t(m, type, req) == [pc |-> "dhcp_save", mac |-> m, type |-> type, ip |-> req,
                                 node |-> n(m)]
  <2>1. PICK m \in MACs, type \in {"discover", "request"}, req \in RequestIPs \cup {NoIP} :
           tasks' = [tasks EXCEPT ![h] = t(m, type, req)]
    BY <1>4 DEF DhcpReceive
  <2>2. RecordsSound' /\ RecordsKept
    BY <1>1, <1>2, <1>3, <1>4, UnwrittenStaySound DEF DhcpReceive, RecordsInv
  <2>3. Valid(n(m)) /\ (boots = 0 => Reserved(n(m), leases'[m]))
    BY <1>1, <1>4, CopySound DEF DhcpReceive, RecordsInv
  <2>4. t(m, type, req).node = n(m) /\ t(m, type, req).mac = m /\ t(m, type, req).pc \notin Saved
    BY DEF Saved
  <2> HIDE DEF n, t
  <2>5. CopiesSound' /\ SavedRecorded'
    BY <1>1, <1>2, <1>4, <2>1, <2>2, <2>3, <2>4, TaskStepSound DEF DhcpReceive, RecordsInv
  <2>6. QED
    BY <1>1, <1>2, <1>4, <2>2, <2>5, AcksStay DEF DhcpReceive, RecordsInv
<1>5. CASE DhcpSave(h)
  <2> DEFINE s == Stored(tasks[h].mac, tasks[h].node)
             t == [tasks[h] EXCEPT !.pc = "dhcp_build", !.node = s]
  <2>1. UNCHANGED poolVars /\ UNCHANGED dhcpVars /\ At(h, "dhcp_save")
    BY <1>5 DEF DhcpSave
  <2>2. RecordsSound' /\ RecordsKept
    BY <1>1, <1>2, <1>5, <2>1, AtSound, SaveKeepsSound DEF DhcpSave, RecordsInv
  <2>3. Valid(s) /\ (boots = 0 => Reserved(s, leases[tasks[h].mac])) /\ s # NoNode
    BY <2>1, AtSound, StoredSound, NoNodeAssumption
  <2>4. t.node = s /\ t.mac = tasks[h].mac
    BY <2>1, AtSound DEF Task
  <2>5. \/ /\ tasks' = [tasks EXCEPT ![h] = t]
           /\ nodes' = [nodes EXCEPT ![tasks[h].mac] = s]
        \/ tasks' = [tasks EXCEPT ![h] = Idle]
    BY <1>5 DEF DhcpSave, Save
  <2> HIDE DEF s, t
  <2>6. tasks' = [tasks EXCEPT ![h] = t] \/ tasks' = [tasks EXCEPT ![h] = Idle]
    BY <2>5
  <2>7. nodes' = [nodes EXCEPT ![tasks[h].mac] = s] => nodes'[tasks[h].mac] # NoNode
    BY <2>1, <2>3, AtSound DEF TypeInv, TypeOK, StoreTypeOK
  <2>8. CopiesSound' /\ SavedRecorded'
    BY <1>1, <1>2, <2>1, <2>2, <2>3, <2>4, <2>5, <2>7, TaskStepSound DEF RecordsInv
  <2>9. QED
    BY <1>1, <1>2, <2>1, <2>2, <2>8, AcksStay DEF RecordsInv
<1>6. CASE DhcpOffer(h) \/ DhcpAck(h)
  <2>1. UNCHANGED storeVars /\ UNCHANGED dhcpVars /\ At(h, "dhcp_build")
    BY <1>6 DEF DhcpOffer, DhcpAck
  <2>2. AddressesKept /\ InPool'
    BY <1>6, BuildReserves
  <2>3. RecordsSound' /\ RecordsKept
    BY <1>2, <1>3, <2>1, <2>2, UnwrittenStaySound DEF RecordsInv
  <2>4. /\ tasks[h] \in Task /\ tasks[h].mac \in MACs /\ tasks[h].node \in Node
        /\ Valid(tasks[h].node) /\ nodes'[tasks[h].mac] # NoNode
        /\ boots = 0 => Reserved(tasks[h].node, leases'[tasks[h].mac])
    BY <2>1, <2>2, <2>3, AtSound DEF Saved, RecordsKept, AddressesKept, Reserved
  <2>5. ASSUME tasks' = [tasks EXCEPT ![h] = Idle]
        PROVE  CopiesSound' /\ SavedRecorded'
    <3>1. UNCHANGED boots
      BY <1>2, <2>1
    <3>2. CopiesSound /\ SavedRecorded
      BY DEF RecordsInv
    <3>3. CopiesSound' /\ SavedRecorded'
      BY <2>2, <2>3, <2>5, <3>1, <3>2, TaskStepSound
    <3>4. QED
      BY <3>3
  <2>6. ASSUME NEW ip \in IPs, tasks' = [tasks EXCEPT ![h] = Assigned(tasks[h], ip)],
               leases'[tasks[h].mac] # NoLease, leases'[tasks[h].mac].ip = ip,
               PoolEnd < MaxIP => ip \in Known
        PROVE  CopiesSound' /\ SavedRecorded'
    <3> DEFINE t == Assigned(tasks[h], ip)
    <3>1. /\ t.mac = tasks[h].mac /\ Valid(t.node)
          /\ boots = 0 => Reserved(t.node, leases'[t.mac])
      BY <2>4, <2>6, AssignedSound
    <3> HIDE DEF t
    <3>2. tasks' = [tasks EXCEPT ![h] = t]
      BY <2>6 DEF t
    <3>3. QED
      BY <1>2, <2>1, <2>2, <2>3, <2>4, <3>1, <3>2, TaskStepSound DEF RecordsInv
  <2>7. ASSUME UNCHANGED tasks PROVE CopiesSound' /\ SavedRecorded'
    BY <1>2, <2>1, <2>2, <2>3, <2>7, TasksUnmoved DEF RecordsInv
  <2>8. CopiesSound' /\ SavedRecorded'
    BY <1>6, <2>5, <2>6, <2>7, BuildReserves
  <2>9. QED
    BY <1>2, <2>1, <2>2, <2>3, <2>8, AcksStay DEF RecordsInv
<1>7. CASE DhcpEcho(h)
  <2> DEFINE t == [tasks[h] EXCEPT !.pc = "dhcp_send"]
  <2>1. UNCHANGED storeVars /\ UNCHANGED poolVars /\ UNCHANGED dhcpVars
        /\ At(h, "dhcp_build") /\ tasks' = [tasks EXCEPT ![h] = t]
    BY <1>7 DEF DhcpEcho
  <2>2. t.node = tasks[h].node /\ t.mac = tasks[h].mac
    BY <2>1, AtSound DEF Task
  <2> HIDE DEF t
  <2>3. RecordsSound' /\ RecordsKept
    BY <1>1, <1>2, <1>3, <2>1, UnwrittenStaySound DEF RecordsInv
  <2>4. CopiesSound' /\ SavedRecorded'
    <3>1. /\ Valid(t.node) /\ Recorded(t.mac) /\ t.mac \in MACs
          /\ boots = 0 => Reserved(t.node, leases'[t.mac])
      BY <1>1, <2>1, <2>2, AtSound DEF Saved
    <3>2. nodes'[t.mac] # NoNode
      BY <2>3, <3>1 DEF RecordsKept
    <3>3. QED
      BY <1>1, <1>2, <2>1, <2>3, <3>1, <3>2, TaskStepSound DEF RecordsInv
  <2>5. QED
    BY <1>1, <1>2, <2>1, <2>3, <2>4, AcksStay DEF RecordsInv
<1>8. CASE DhcpPersist(h) \/ DhcpSend(h)
  <2>1. /\ UNCHANGED poolVars /\ UNCHANGED boots /\ tasks' = [tasks EXCEPT ![h] = Idle]
        /\ At(h, "dhcp_persist") \/ At(h, "dhcp_send")
        /\ Sent(tasks[h])
    BY <1>8 DEF DhcpPersist, DhcpSend, Sent
  <2>2. ASSUME DhcpPersist(h) PROVE RecordsSound' /\ RecordsKept
    <3>1. At(h, "dhcp_persist") /\ (Save(tasks[h].mac, tasks[h].node) \/ SaveFails)
      BY <2>2 DEF DhcpPersist
    <3>2. QED
      BY <1>1, <2>1, <3>1, AtSound, SaveKeepsSound DEF RecordsInv
  <2>3. ASSUME DhcpSend(h) PROVE RecordsSound' /\ RecordsKept
    BY <1>1, <1>3, <2>1, <2>3, UnwrittenStaySound DEF DhcpSend, RecordsInv
  <2>4. RecordsSound' /\ RecordsKept
    BY <1>8, <2>2, <2>3
  <2>5. CopiesSound' /\ SavedRecorded'
    BY <1>1, <2>1, <2>4, TaskStepSound DEF RecordsInv
  <2>6. QED
    BY <1>1, <2>1, <2>4, <2>5, SentRecorded DEF RecordsInv
<1>9. QED
  BY <1>4, <1>5, <1>6, <1>7, <1>8 DEF DhcpNext

\* An update of a sound record to installing leaves it sound.
LEMMA UpdateKeepsSound ==
    ASSUME TypeInv, RecordsSound, NEW m \in MACs,
           UpdateStatus(m, Installing) \/ UpdateStatusFails(m, Installing),
           UNCHANGED <<leases, boots>>
    PROVE  RecordsSound' /\ RecordsKept
PROOF
<1>1. CASE UpdateStatus(m, Installing)
  <2> DEFINE n == [nodes[m] EXCEPT !.status = Installing]
  <2>1. nodes[m] \in Node /\ Recorded(m)
    BY <1>1 DEF UpdateStatus, Found, TypeInv, TypeOK, StoreTypeOK, Recorded
  <2>2. /\ n \in Node /\ n.status = Installing /\ n.heartbeat = nodes[m].heartbeat
        /\ n.ip = nodes[m].ip /\ n.net = nodes[m].net
    BY <2>1 DEF Node, Status
  <2>3. nodes' = [nodes EXCEPT ![m] = n]
    BY <1>1 DEF UpdateStatus
  <2> HIDE DEF n
  <2>4. n # NoNode /\ Valid(n) /\ (boots = 0 => Reserved(n, leases[m]))
    BY <2>1, <2>2, NoNodeAssumption DEF RecordsSound, Valid, Reserved, Installing, Installed
  <2>5. \A k \in MACs : nodes'[k] = IF k = m THEN n ELSE nodes[k]
    BY <2>3 DEF TypeInv, TypeOK, StoreTypeOK
  <2>6. QED
    BY <2>4, <2>5 DEF RecordsSound, RecordsKept, Recorded
<1>2. CASE UpdateStatusFails(m, Installing)
  BY <1>2 DEF UpdateStatusFails, storeVars, RecordsSound, RecordsKept, Recorded
<1>3. QED
  BY <1>1, <1>2

LEMMA ApiSound ==
    ASSUME TypeInv, RecordsInv, NEW h \in Handler, ApiNext(h), UNCHANGED <<poolVars, dhcpVars>>
    PROVE  RecordsInv'
PROOF
<1> USE DEF Continue, Return, Begin
<1>1. AddressesKept /\ InPool' /\ UNCHANGED <<leases, boots, acked>>
  BY DEF RecordsInv, poolVars, dhcpVars, AddressesKept, InPool, LeasesInPool
<1>2. UNCHANGED storeVars => RecordsSound' /\ RecordsKept
  BY <1>1, UnwrittenStaySound DEF RecordsInv, storeVars
<1>3. CASE RegisterReceive(h)
  <2>1. PICK m \in MACs, ip \in RegisterIPs \cup {NoIP} :
           tasks' = [tasks EXCEPT ![h] =
                        Request("register_save", m, [NewNode EXCEPT !.ip = ip])]
    BY <1>3 DEF RegisterReceive
  <2> DEFINE n == [NewNode EXCEPT !.ip = ip]
             t == Request("register_save", m, n)
  <2>2. n.status = Discovered /\ n.net = FALSE /\ n.ip = ip
    BY DEF NewNode
  <2>3. t.node = n /\ t.mac = m /\ t.pc \notin Saved
    BY DEF Request, Saved
  <2>4. tasks' = [tasks EXCEPT ![h] = t]
    BY <2>1
  <2> HIDE DEF n, t
  <2>5. Valid(n) /\ ~n.net
    BY <2>2 DEF Valid, Known, Discovered, Installed
  <2>6. RecordsSound' /\ RecordsKept
    BY <1>2, <1>3 DEF RegisterReceive
  <2>7. CopiesSound' /\ SavedRecorded'
    BY <1>1, <2>3, <2>4, <2>5, <2>6, TaskStepSound DEF RecordsInv, Reserved
  <2>8. QED
    BY <1>1, <2>6, <2>7, AcksStay DEF RecordsInv
<1>4. CASE RegisterSave(h)
  <2>1. At(h, "register_save") /\ tasks' = [tasks EXCEPT ![h] = Idle]
    BY <1>4 DEF RegisterSave
  <2>2. RecordsSound' /\ RecordsKept
    BY <1>1, <1>4, <2>1, AtSound, SaveKeepsSound DEF RegisterSave, RecordsInv
  <2>3. CopiesSound' /\ SavedRecorded'
    BY <1>1, <2>1, <2>2, TaskStepSound DEF RecordsInv
  <2>4. QED
    BY <1>1, <2>2, <2>3, AcksStay DEF RecordsInv
<1>5. CASE InstallReceive(h)
  <2>1. PICK m \in MACs :
           tasks' = [tasks EXCEPT ![h] = Request("install_update", m, NoNode)]
    BY <1>5 DEF InstallReceive
  <2> DEFINE t == Request("install_update", m, NoNode)
  <2>2. t.node = NoNode /\ t.pc \notin Saved
    BY DEF Request, Saved
  <2>3. tasks' = [tasks EXCEPT ![h] = t]
    BY <2>1
  <2> HIDE DEF t
  <2>4. RecordsSound' /\ RecordsKept
    BY <1>2, <1>5 DEF InstallReceive
  <2>5. CopiesSound' /\ SavedRecorded'
    BY <1>1, <2>2, <2>3, <2>4, TaskStepSound DEF RecordsInv
  <2>6. QED
    BY <1>1, <2>4, <2>5, AcksStay DEF RecordsInv
<1>6. CASE InstallUpdate(h)
  <2>1. tasks[h].mac \in MACs /\ tasks' = [tasks EXCEPT ![h] = Idle]
    BY <1>6, AtTask DEF InstallUpdate
  <2>2. RecordsSound' /\ RecordsKept
    BY <1>1, <1>6, <2>1, UpdateKeepsSound DEF InstallUpdate, RecordsInv
  <2>3. CopiesSound' /\ SavedRecorded'
    BY <1>1, <2>1, <2>2, TaskStepSound DEF RecordsInv
  <2>4. QED
    BY <1>1, <2>2, <2>3, AcksStay DEF RecordsInv
<1>7. QED
  BY <1>3, <1>4, <1>5, <1>6 DEF ApiNext

\* A report sets the heartbeat, and the address when it carries one.
LEMMA ReportedSound ==
    ASSUME now \in Nat, NEW n \in Node, Valid(n), NEW s \in Reports,
           NEW ip \in ReportIPs \cup {NoIP}
    PROVE  /\ Valid(Reported(n, s, ip))
           /\ \A l : Reserved(n, l) => Reserved(Reported(n, s, ip), l)
PROOF
<1> DEFINE r == Reported(n, s, ip)
<1>1. /\ r.heartbeat = now /\ r.net = n.net
      /\ r.ip = IF ip = NoIP THEN n.ip ELSE ip
  BY DEF Reported, Node
<1> HIDE DEF r
<1>2. now # Never
  BY DEF Never
<1>3. Valid(r)
  BY <1>1, <1>2 DEF Valid, Known
<1>4. \A l : Reserved(n, l) => Reserved(r, l)
  BY <1>1, <1>2 DEF Reserved
<1>5. QED
  BY <1>3, <1>4 DEF r

LEMMA StatusSound ==
    ASSUME TypeInv, RecordsInv, StatusNext, UNCHANGED <<poolVars, dhcpVars>>
    PROVE  RecordsInv'
PROOF
<1> USE DEF Continue, Return, Begin
<1>1. MqttLoop \in Handler
  BY DEF Handler
<1>2. AddressesKept /\ InPool' /\ UNCHANGED <<leases, boots, acked>>
  BY DEF RecordsInv, poolVars, dhcpVars, AddressesKept, InPool, LeasesInPool
<1>3. CASE ReportReceive
  <2>1. PICK m \in MACs, s \in Reports, ip \in ReportIPs \cup {NoIP} :
           /\ Found(m)
           /\ tasks' = [tasks EXCEPT ![MqttLoop] =
                          [pc |-> "report_save", mac |-> m, type |-> "none",
                           ip |-> NoIP, node |-> Reported(nodes[m], s, ip)]]
    BY <1>3 DEF ReportReceive
  <2> DEFINE n == Reported(nodes[m], s, ip)
             t == [pc |-> "report_save", mac |-> m, type |-> "none", ip |-> NoIP, node |-> n]
  <2>2. /\ nodes[m] \in Node /\ Valid(nodes[m])
        /\ boots = 0 => Reserved(nodes[m], leases[m])
    BY <2>1 DEF Found, RecordsInv, RecordsSound, Recorded, TypeInv, TypeOK, StoreTypeOK
  <2>3. Valid(n) /\ (boots = 0 => Reserved(n, leases[m]))
    BY <2>2, ReportedSound DEF TypeInv, TypeOK
  <2>4. tasks' = [tasks EXCEPT ![MqttLoop] = t]
    BY <2>1
  <2> HIDE DEF n
  <2>5. t.node = n /\ t.mac = m /\ t.pc \notin Saved
    BY DEF Saved
  <2> HIDE DEF t
  <2>6. RecordsSound' /\ RecordsKept
    BY <1>2, <1>3, UnwrittenStaySound DEF ReportReceive, RecordsInv, storeVars
  <2>7. CopiesSound' /\ SavedRecorded'
    BY <1>1, <1>2, <2>3, <2>4, <2>5, <2>6, TaskStepSound DEF RecordsInv
  <2>8. QED
    BY <1>2, <2>6, <2>7, AcksStay DEF RecordsInv
<1>4. CASE ReportSave
  <2>1. At(MqttLoop, "report_save") /\ tasks' = [tasks EXCEPT ![MqttLoop] = Idle]
    BY <1>4 DEF ReportSave
  <2>2. RecordsSound' /\ RecordsKept
    BY <1>1, <1>2, <1>4, <2>1, AtSound, SaveKeepsSound DEF ReportSave, RecordsInv
  <2>3. CopiesSound' /\ SavedRecorded'
    BY <1>1, <1>2, <2>1, <2>2, TaskStepSound DEF RecordsInv
  <2>4. QED
    BY <1>2, <2>2, <2>3, AcksStay DEF RecordsInv
<1>5. QED
  BY <1>3, <1>4 DEF StatusNext

\* A restart empties the pool and the handlers; the records and what clients
\* were told remain.
LEMMA RestartSound ==
    ASSUME TypeInv, RecordsInv, Restart
    PROVE  RecordsInv'
PROOF
<1>1. boots' # 0
  BY DEF Restart, TypeInv, TypeOK, DhcpTypeOK
<1>2. UNCHANGED <<nodes, acked>> /\ leases' = EmptyLeases /\ \A h \in Handler : tasks'[h] = Idle
  BY DEF Restart
<1>3. RecordsSound'
  BY <1>1, <1>2 DEF RecordsInv, RecordsSound, Recorded
<1>4. CopiesSound' /\ SavedRecorded'
  BY <1>2 DEF CopiesSound, SavedRecorded
<1>5. AckedHasRecord'
  BY <1>2 DEF RecordsInv, AckedHasRecord, Recorded
<1>6. InPool'
  BY <1>2 DEF EmptyLeases, InPool, LeasesInPool
<1>7. QED
  BY <1>3, <1>4, <1>5, <1>6 DEF RecordsInv

LEMMA QuietSound ==
    ASSUME RecordsInv, UNCHANGED <<nodes, leases, tasks, boots, acked>>
    PROVE  RecordsInv'
BY DEF RecordsInv, RecordsSound, Recorded, CopiesSound, SavedRecorded, AckedHasRecord,
       InPool, LeasesInPool

-----------------------------------------------------------------------------
(***************************************************************************)
(* The invariant, and the properties that follow from it.                  *)
(***************************************************************************)
LEMMA RecordsInvInit == Init => RecordsInv
BY DEF Init, StoreInit, PoolInit, EmptyLeases, TasksInit, DhcpInit, RecordsInv, RecordsSound,
       Recorded, CopiesSound, SavedRecorded, AckedHasRecord, InPool, LeasesInPool

LEMMA RecordsInvNext == TypeInv /\ RecordsInv /\ [Next]_vars => RecordsInv'
PROOF
<1> SUFFICES ASSUME TypeInv, RecordsInv, [Next]_vars PROVE RecordsInv'
  OBVIOUS
<1>1. CASE Dhcp
  BY <1>1, DhcpSound DEF Dhcp, Handler
<1>2. CASE Api
  BY <1>2, ApiSound DEF Api, Handler
<1>3. CASE Mqtt
  BY <1>3, StatusSound DEF Mqtt
<1>4. CASE Restart
  BY <1>4, RestartSound
<1>5. CASE Shutdown \/ TimePasses \/ UNCHANGED vars
  <2>1. UNCHANGED <<nodes, leases, tasks, boots, acked>>
    BY <1>5 DEF Shutdown, Close, TimePasses, vars, storeVars, poolVars, dhcpVars
  <2>2. QED
    BY <2>1, QuietSound
<1>6. QED
  BY <1>1, <1>2, <1>3, <1>4, <1>5 DEF Next

LEMMA RecordsInvariance == Spec => []RecordsInv
BY TypeInvariance, RecordsInvInit, RecordsInvNext, PTL DEF Spec

\* A machine recorded as installed has reported: no handler writes the status
\* back without the time of a report.
THEOREM InstalledOnReport == Spec => []InstalledHasReported
PROOF
<1>1. RecordsInv => InstalledHasReported
  BY DEF RecordsInv, RecordsSound, Valid, InstalledHasReported
<1>2. QED
  BY RecordsInvariance, <1>1, PTL

\* The network parameters of a record come with an address, whichever of the
\* handlers' copies is written last.
THEOREM NetOnlyWithAddress == Spec => []NetHasAddress
PROOF
<1>1. RecordsInv => NetHasAddress
  BY DEF RecordsInv, RecordsSound, Valid, NetHasAddress
<1>2. QED
  BY RecordsInvariance, <1>1, PTL

\* No machine is given an address by the server before the database holds a
\* record for it.
THEOREM AckAfterRecord == Spec => []AckedHasRecord
PROOF
<1>1. RecordsInv => AckedHasRecord
  BY DEF RecordsInv
<1>2. QED
  BY RecordsInvariance, <1>1, PTL

\* Until the first restart the static address given to the installer is the
\* address the pool keeps for the machine, or one the machine reported, however
\* many copies of the record are written back late.
THEOREM StaticAddressReserved == Spec => []RecordedAddressLeased
PROOF
<1>1. RecordsInv => RecordedAddressLeased
  BY DEF RecordsInv, RecordsSound, Reserved, RecordedAddressLeased
<1>2. QED
  BY RecordsInvariance, <1>1, PTL

\* When the addresses after the pool are still addresses, the address in a
\* record is one of the pool, of an operator or of the machine's reports.
THEOREM AddressesKnown ==
    ASSUME PoolEnd < MaxIP
    PROVE  Spec => []EchoedNotRecorded
PROOF
<1>1. RecordsInv => EchoedNotRecorded
  BY DEF RecordsInv, RecordsSound, Valid, Known, EchoedNotRecorded
<1>2. QED
  BY RecordsInvariance, <1>1, PTL

-----------------------------------------------------------------------------
(***************************************************************************)
(* What no step does to a record.                                          *)
(***************************************************************************)
\* The database is written by Save, or by UpdateStatus for an install request.
Written(m) == (\E n \in Node : Save(m, n)) \/ UpdateStatus(m, Installing)

LEMMA EveryWrite ==
    ASSUME TypeInv, [Next]_vars
    PROVE  UNCHANGED nodes \/ \E m \in MACs : Written(m)
PROOF
<1> USE DEF Continue, Return, SaveFails, UpdateStatusFails, storeVars
<1>1. CASE Dhcp
  <2>1. PICK h \in Handler : DhcpNext(h)
    BY <1>1 DEF Dhcp, Handler
  <2>2. CASE DhcpSave(h) \/ DhcpPersist(h)
    <3>1. At(h, "dhcp_save") \/ At(h, "dhcp_persist")
      BY <2>2 DEF DhcpSave, DhcpPersist
    <3>2. tasks[h].mac \in MACs /\ tasks[h].node \in Node
      BY <3>1, AtTask DEF WellFormed
    <3>3. QED
      BY <2>2, <3>2 DEF DhcpSave, DhcpPersist, Written
  <2>3. CASE DhcpReceive(h) \/ DhcpOffer(h) \/ DhcpAck(h) \/ DhcpEcho(h) \/ DhcpSend(h)
    BY <2>3 DEF DhcpReceive, DhcpOffer, DhcpAck, DhcpEcho, DhcpSend
  <2>4. QED
    BY <2>1, <2>2, <2>3 DEF DhcpNext
<1>2. CASE Api
  <2>1. PICK h \in Handler : ApiNext(h)
    BY <1>2 DEF Api, Handler
  <2>2. CASE RegisterSave(h)
    <3>1. tasks[h].mac \in MACs /\ tasks[h].node \in Node
      BY <2>2, AtTask DEF RegisterSave, WellFormed
    <3>2. QED
      BY <2>2, <3>1 DEF RegisterSave, Written
  <2>3. CASE InstallUpdate(h)
    <3>1. tasks[h].mac \in MACs
      BY <2>3, AtTask DEF InstallUpdate
    <3>2. QED
      BY <2>3, <3>1 DEF InstallUpdate, Written
  <2>4. CASE RegisterReceive(h) \/ InstallReceive(h)
    BY <2>4 DEF RegisterReceive, InstallReceive
  <2>5. QED
    BY <2>1, <2>2, <2>3, <2>4 DEF ApiNext
<1>3. CASE Mqtt
  <2>1. CASE ReportSave
    <3>1. tasks[MqttLoop].mac \in MACs /\ tasks[MqttLoop].node \in Node
      BY <2>1, AtTask DEF ReportSave, WellFormed, Handler
    <3>2. QED
      BY <2>1, <3>1 DEF ReportSave, Written
  <2>2. CASE ReportReceive
    BY <2>2 DEF ReportReceive
  <2>3. QED
    BY <1>3, <2>1, <2>2 DEF Mqtt, StatusNext
<1>4. CASE Shutdown \/ Restart \/ TimePasses \/ UNCHANGED vars
  BY <1>4 DEF Shutdown, Close, Restart, TimePasses, vars
<1>5. QED
  BY <1>1, <1>2, <1>3, <1>4 DEF Next

\* Neither write loses the record it replaces, or its creation time.
LEMMA WrittenKeepsCreation ==
    ASSUME TypeInv, NEW m \in MACs, Written(m), NEW k \in MACs, Recorded(k)
    PROVE  nodes'[k] # NoNode /\ nodes'[k].created = nodes[k].created
PROOF
<1>1. nodes[k] \in Node
  BY DEF Recorded, TypeInv, TypeOK, StoreTypeOK
<1>2. ASSUME NEW n \in Node, Save(m, n)
      PROVE  nodes'[k] # NoNode /\ nodes'[k].created = nodes[k].created
  <2>1. CASE k = m
    <3>1. nodes'[k] = Stored(m, n) /\ Stored(m, n) \in Node
      BY <1>2, <2>1, StoredIsNode DEF Save, TypeInv, TypeOK, StoreTypeOK
    <3>2. Stored(m, n).created = nodes[k].created
      BY <2>1 DEF Stored, Recorded, Node
    <3>3. QED
      BY <3>1, <3>2, NoNodeAssumption
  <2>2. CASE k # m
    BY <1>2, <2>2 DEF Save, Recorded, TypeInv, TypeOK, StoreTypeOK
  <2>3. QED
    BY <2>1, <2>2
<1>3. CASE UpdateStatus(m, Installing)
  <2> DEFINE u == [nodes[m] EXCEPT !.status = Installing]
  <2>1. nodes[m] \in Node
    BY <1>3 DEF UpdateStatus, Found, TypeInv, TypeOK, StoreTypeOK
  <2>2. u \in Node /\ u.created = nodes[m].created
    BY <2>1 DEF Node, Status
  <2>3. nodes' = [nodes EXCEPT ![m] = u]
    BY <1>3 DEF UpdateStatus
  <2> HIDE DEF u
  <2>4. nodes'[k] = IF k = m THEN u ELSE nodes[k]
    BY <2>3 DEF TypeInv, TypeOK, StoreTypeOK
  <2>5. QED
    BY <2>2, <2>4, NoNodeAssumption DEF Recorded
<1>4. QED
  BY <1>2, <1>3 DEF Written

\* A record never disappears, and its creation time is the first one stored,
\* whichever of two racing creators commits first.
THEOREM CreationKept == Spec => CreatedAtFixed
PROOF
<1> DEFINE Kept == \A m \in MACs :
                      Recorded(m) => nodes'[m] # NoNode /\ nodes'[m].created = nodes[m].created
<1>1. TypeInv /\ [Next]_vars => [Kept]_vars
  BY EveryWrite, WrittenKeepsCreation DEF Recorded
<1>2. QED
  BY TypeInvariance, <1>1, PTL DEF Spec, CreatedAtFixed

\* The status is checked when the update commits, so an install request that
\* found the machine discovered does not undo an installation completed since.
THEOREM InstalledNotUndoneByInstall == Spec => LateInstallKeepsInstalled
PROOF
<1> DEFINE KeptFor(h) ==
              At(h, "install_update") /\ tasks'[h] = Idle
              /\ nodes[tasks[h].mac].status = Installed
              => nodes'[tasks[h].mac].status = Installed
<1> USE DEF Continue, Return, Begin
<1>1. ASSUME TypeInv, [Next]_vars, NEW h \in Handler, At(h, "install_update"),
             tasks'[h] = Idle
      PROVE  InstallUpdate(h) \/ UNCHANGED nodes
  <2>1. tasks[h] # Idle /\ tasks[h].pc = "install_update"
    BY <1>1 DEF At
  <2>2. ASSUME NEW g \in Handler, NEW t, tasks' = [tasks EXCEPT ![g] = t]
        PROVE  g = h
    BY <1>1, <2>1, <2>2 DEF TypeInv, TypeOK, TasksTypeOK
  <2>3. CASE Dhcp
    <3>1. PICK g \in Handler : DhcpNext(g)
      BY <2>3 DEF Dhcp, Handler
    <3>2. g = h
      BY <1>1, <2>1, <2>2, <3>1 DEF DhcpNext, DhcpReceive, DhcpSave, DhcpOffer, DhcpAck,
                                   DhcpEcho, DhcpPersist, DhcpSend
    <3>3. QED
      BY <2>1, <3>1, <3>2 DEF DhcpNext, DhcpReceive, DhcpSave, DhcpOffer, DhcpAck, DhcpEcho,
                             DhcpPersist, DhcpSend, At
  <2>4. CASE Api
    <3>1. PICK g \in Handler : ApiNext(g)
      BY <2>4 DEF Api, Handler
    <3>2. g = h
      BY <2>2, <3>1 DEF ApiNext, RegisterReceive, RegisterSave, InstallReceive, InstallUpdate
    <3>3. QED
      BY <2>1, <3>1, <3>2 DEF ApiNext, RegisterReceive, RegisterSave, InstallReceive, At
  <2>5. CASE Mqtt
    <3>1. h = MqttLoop
      BY <2>2, <2>5 DEF Mqtt, StatusNext, ReportReceive, ReportSave, Handler
    <3>2. QED
      BY <2>1, <2>5, <3>1 DEF Mqtt, StatusNext, ReportReceive, ReportSave, At
  <2>6. CASE Shutdown \/ Restart \/ TimePasses \/ UNCHANGED vars
    BY <2>6 DEF Shutdown, Close, Restart, TimePasses, storeVars, vars
  <2>7. QED
    BY <1>1, <2>3, <2>4, <2>5, <2>6 DEF Next
<1>2. ASSUME NEW h \in Handler, InstallUpdate(h),
             nodes[tasks[h].mac].status = Installed
      PROVE  UNCHANGED nodes
  <2>1. ~UpdateStatus(tasks[h].mac, Installing)
    BY <1>2 DEF UpdateStatus, CanTransitionTo, stateTransitions, Status,
                Discovered, Installing, Installed
  <2>2. QED
    BY <1>2, <2>1 DEF InstallUpdate, UpdateStatusFails, storeVars
<1>3. TypeInv /\ [Next]_vars => [\A h \in Handler : KeptFor(h)]_vars
  BY <1>1, <1>2
<1>4. QED
  BY TypeInvariance, <1>3, PTL DEF Spec, LateInstallKeepsInstalled
=============================================================================
