------------------------- MODULE InstallationProofs -------------------------
(***************************************************************************)
(* Proofs that relate the records of the server to the disks of the        *)
(* machines, for any number of machines, handlers, restarts and power      *)
(* failures.                                                               *)
(***************************************************************************)
EXTENDS ProvisioningProofs, RecordProofs

\* The server has m down as installed: in its record, or in a handler's copy.
InstalledRecord(m) == Recorded(m) /\ nodes[m].status = Installed
InstalledCopy(h, m) == /\ tasks[h] # Idle /\ tasks[h].mac = m
                       /\ tasks[h].node # NoNode /\ tasks[h].node.status = Installed
InstalledSeen(m) == InstalledRecord(m) \/ \E h \in Handler : InstalledCopy(h, m)

-----------------------------------------------------------------------------
(***************************************************************************)
(* Only a report makes the server take a machine for installed.            *)
(***************************************************************************)
\* A write shows as installed what was installed before, or in the copy.
LEMMA SaveShows ==
    ASSUME TypeInv, NEW m \in MACs, NEW n \in Node, Save(m, n) \/ SaveFails,
           NEW k \in MACs, InstalledRecord(k)'
    PROVE  InstalledRecord(k) \/ (k = m /\ n.status = Installed)
PROOF
<1>1. CASE Save(m, n)
  <2>1. Stored(m, n).status = n.status
    BY StoredIsNode DEF TypeInv, TypeOK
  <2>2. nodes'[k] = IF k = m THEN Stored(m, n) ELSE nodes[k]
    BY <1>1 DEF Save, TypeInv, TypeOK, StoreTypeOK
  <2>3. QED
    BY <2>1, <2>2 DEF InstalledRecord, Recorded
<1>2. CASE SaveFails
  BY <1>2 DEF SaveFails, storeVars, InstalledRecord, Recorded
<1>3. QED
  BY <1>1, <1>2

\* A handler's step to a task, or to Idle, that is no news.
LEMMA TaskStepShows ==
    ASSUME TypeInv, NEW h \in Handler, NEW t, tasks' = [tasks EXCEPT ![h] = t],
           t # Idle /\ t.node # NoNode /\ t.node.status = Installed => InstalledSeen(t.mac),
           \A k \in MACs : InstalledRecord(k)' => InstalledSeen(k),
           NEW m \in MACs, InstalledSeen(m)'
    PROVE  InstalledSeen(m)
PROOF
<1>1. CASE InstalledRecord(m)'
  BY <1>1
<1>2. CASE \E g \in Handler : InstalledCopy(g, m)'
  <2>1. PICK g \in Handler : InstalledCopy(g, m)'
    BY <1>2
  <2>2. tasks'[g] = IF g = h THEN t ELSE tasks[g]
    BY DEF TypeInv, TypeOK, TasksTypeOK
  <2>3. QED
    BY <2>1, <2>2 DEF InstalledCopy, InstalledSeen
<1>3. QED
  BY <1>1, <1>2 DEF InstalledSeen

\* What the handler at some place holds.
LEMMA AtHolds ==
    ASSUME TypeInv, NEW h \in Handler, NEW pc, At(h, pc), pc # "install_update"
    PROVE  /\ tasks[h] \in Task /\ tasks[h] # Idle
           /\ tasks[h].mac \in MACs /\ tasks[h].node \in Node
           /\ tasks[h].node.status = Installed => InstalledSeen(tasks[h].mac)
PROOF
<1>1. /\ tasks[h] \in Task /\ tasks[h] # Idle
      /\ tasks[h].mac \in MACs /\ tasks[h].node \in Node
  BY AtTask DEF WellFormed, At
<1>2. tasks[h].node # NoNode
  BY <1>1, NoNodeAssumption
<1>3. QED
  BY <1>1, <1>2 DEF InstalledSeen, InstalledCopy

LEMMA DhcpShows ==
    ASSUME TypeInv, NEW h \in Handler, DhcpNext(h), NEW m \in MACs, InstalledSeen(m)'
    PROVE  InstalledSeen(m)
PROOF
<1> USE DEF Continue, Return, Begin
<1>1. UNCHANGED storeVars => \A k \in MACs : InstalledRecord(k)' => InstalledSeen(k)
  BY DEF storeVars, InstalledRecord, Recorded, InstalledSeen
<1>2. CASE DhcpReceive(h)
  <2> DEFINE n(k) == IF Found(k) THEN nodes[k] ELSE NewNode
             t(k, type, req) == [pc |-> "dhcp_save", mac |-> k, type |-> type, ip |-> req,
                                 node |-> n(k)]
  <2>1. PICK k \in MACs, type \in {"discover", "request"}, req \in RequestIPs \cup {NoIP} :
           tasks' = [tasks EXCEPT ![h] = t(k, type, req)]
    BY <1>2 DEF DhcpReceive
  <2>2. n(k).status = Installed => InstalledSeen(k)
    BY DEF Found, NewNode, Discovered, Installed, InstalledSeen, InstalledRecord, Recorded
  <2>3. t(k, type, req).node = n(k) /\ t(k, type, req).mac = k
    OBVIOUS
  <2> HIDE DEF n, t
  <2>4. QED
    BY <1>1, <1>2, <2>1, <2>2, <2>3, TaskStepShows DEF DhcpReceive
<1>3. CASE DhcpSave(h)
  <2> DEFINE s == Stored(tasks[h].mac, tasks[h].node)
             t == [tasks[h] EXCEPT !.pc = "dhcp_build", !.node = s]
  <2>1. /\ tasks[h] \in Task /\ tasks[h].mac \in MACs /\ tasks[h].node \in Node
        /\ tasks[h].node.status = Installed => InstalledSeen(tasks[h].mac)
    BY <1>3, AtHolds DEF DhcpSave
  <2>2. s.status = tasks[h].node.status
    BY <2>1, StoredIsNode DEF TypeInv, TypeOK
  <2>3. \A k \in MACs : InstalledRecord(k)' => InstalledSeen(k)
    BY <1>3, <2>1, SaveShows DEF DhcpSave, InstalledSeen
  <2> HIDE DEF s
  <2>4. t.node = s /\ t.mac = tasks[h].mac
    BY <2>1 DEF Task
  <2>5. tasks' = [tasks EXCEPT ![h] = t] \/ tasks' = [tasks EXCEPT ![h] = Idle]
    BY <1>3 DEF DhcpSave, s
  <2> HIDE DEF t
  <2>6. QED
    BY <2>1, <2>2, <2>3, <2>4, <2>5, TaskStepShows
<1>4. CASE DhcpOffer(h) \/ DhcpAck(h)
  <2>1. At(h, "dhcp_build") /\ UNCHANGED storeVars
    BY <1>4 DEF DhcpOffer, DhcpAck
  <2>2. \/ tasks' = [tasks EXCEPT ![h] = Idle]
        \/ UNCHANGED tasks
        \/ \E ip \in IPs : tasks' = [tasks EXCEPT ![h] = Assigned(tasks[h], ip)]
    BY <1>4 DEF DhcpOffer, DhcpAck
  <2>3. CASE tasks' = [tasks EXCEPT ![h] = Idle]
    BY <1>1, <2>1, <2>3, TaskStepShows
  <2>4. ASSUME NEW ip \in IPs, tasks' = [tasks EXCEPT ![h] = Assigned(tasks[h], ip)]
        PROVE  InstalledSeen(m)
    <3>1. /\ Assigned(tasks[h], ip).mac = tasks[h].mac
          /\ Assigned(tasks[h], ip).node.status = tasks[h].node.status
      BY <2>1, AtHolds, AssignedWellFormed
    <3>2. tasks[h].node.status = Installed => InstalledSeen(tasks[h].mac)
      BY <2>1, AtHolds
    <3>3. QED
      BY <1>1, <2>1, <2>4, <3>1, <3>2, TaskStepShows
  <2>5. CASE UNCHANGED tasks
    BY <1>1, <2>1, <2>5 DEF InstalledSeen, InstalledCopy
  <2>6. QED
    BY <2>2, <2>3, <2>4, <2>5
<1>5. CASE DhcpEcho(h)
  <2> DEFINE t == [tasks[h] EXCEPT !.pc = "dhcp_send"]
  <2>1. At(h, "dhcp_build") /\ UNCHANGED storeVars /\ tasks' = [tasks EXCEPT ![h] = t]
    BY <1>5 DEF DhcpEcho
  <2>2. t.node = tasks[h].node /\ t.mac = tasks[h].mac
    BY <2>1, AtHolds DEF Task
  <2> HIDE DEF t
  <2>3. QED
    BY <1>1, <2>1, <2>2, AtHolds, TaskStepShows
<1>6. CASE DhcpPersist(h)
  <2>1. At(h, "dhcp_persist") /\ tasks' = [tasks EXCEPT ![h] = Idle]
    BY <1>6 DEF DhcpPersist
  <2>2. \A k \in MACs : InstalledRecord(k)' => InstalledSeen(k)
    BY <1>6, <2>1, AtHolds, SaveShows DEF DhcpPersist, InstalledSeen
  <2>3. QED
    BY <2>1, <2>2, TaskStepShows
<1>7. CASE DhcpSend(h)
  BY <1>1, <1>7, TaskStepShows DEF DhcpSend
<1>8. QED
  BY <1>2, <1>3, <1>4, <1>5, <1>6, <1>7 DEF DhcpNext

LEMMA ApiShows ==
    ASSUME TypeInv, NEW h \in Handler, ApiNext(h), NEW m \in MACs, InstalledSeen(m)'
    PROVE  InstalledSeen(m)
PROOF
<1> USE DEF Continue, Return, Begin
<1>1. UNCHANGED storeVars => \A k \in MACs : InstalledRecord(k)' => InstalledSeen(k)
  BY DEF storeVars, InstalledRecord, Recorded, InstalledSeen
<1>2. CASE RegisterReceive(h)
  <2>1. PICK k \in MACs, ip \in RegisterIPs \cup {NoIP} :
           tasks' = [tasks EXCEPT ![h] =
                        Request("register_save", k, [NewNode EXCEPT !.ip = ip])]
    BY <1>2 DEF RegisterReceive
  <2> DEFINE n == [NewNode EXCEPT !.ip = ip]
             t == Request("register_save", k, n)
  <2>2. n.status # Installed
    BY DEF NewNode, Discovered, Installed
  <2>3. t.node = n
    BY DEF Request
  <2>4. tasks' = [tasks EXCEPT ![h] = t]
    BY <2>1
  <2> HIDE DEF n, t
  <2>5. QED
    BY <1>1, <1>2, <2>2, <2>3, <2>4, TaskStepShows DEF RegisterReceive
<1>3. CASE RegisterSave(h)
  <2>1. At(h, "register_save") /\ tasks' = [tasks EXCEPT ![h] = Idle]
    BY <1>3 DEF RegisterSave
  <2>2. \A k \in MACs : InstalledRecord(k)' => InstalledSeen(k)
    BY <1>3, <2>1, AtHolds, SaveShows DEF RegisterSave, InstalledSeen
  <2>3. QED
    BY <2>1, <2>2, TaskStepShows
<1>4. CASE InstallReceive(h)
  <2>1. PICK k \in MACs : tasks' = [tasks EXCEPT ![h] = Request("install_update", k, NoNode)]
    BY <1>4 DEF InstallReceive
  <2>2. Request("install_update", k, NoNode).node = NoNode
    BY DEF Request
  <2>3. QED
    BY <1>1, <1>4, <2>1, <2>2, TaskStepShows DEF InstallReceive
<1>5. CASE InstallUpdate(h)
  <2>1. tasks' = [tasks EXCEPT ![h] = Idle]
    BY <1>5 DEF InstallUpdate
  <2>2. CASE UpdateStatus(tasks[h].mac, Installing)
    <3> DEFINE k == tasks[h].mac
               u == [nodes[k] EXCEPT !.status = Installing]
    <3>1. k \in MACs
      BY <1>5, AtTask DEF InstallUpdate
    <3>2. nodes' = [nodes EXCEPT ![k] = u]
      BY <2>2 DEF UpdateStatus
    <3>3. nodes[k] \in Node
      BY <2>2, <3>1 DEF UpdateStatus, Found, TypeInv, TypeOK, StoreTypeOK
    <3>4. u.status # Installed
      BY <3>3 DEF Node, Installing, Installed
    <3> HIDE DEF k, u
    <3>5. \A j \in MACs : nodes'[j] = IF j = k THEN u ELSE nodes[j]
      BY <3>2 DEF TypeInv, TypeOK, StoreTypeOK
    <3>6. \A j \in MACs : InstalledRecord(j)' => InstalledSeen(j)
      BY <3>4, <3>5 DEF InstalledRecord, Recorded, InstalledSeen
    <3>7. QED
      BY <2>1, <3>6, TaskStepShows
  <2>3. CASE UpdateStatusFails(tasks[h].mac, Installing)
    BY <1>1, <2>1, <2>3, TaskStepShows DEF UpdateStatusFails
  <2>4. QED
    BY <1>5, <2>2, <2>3 DEF InstallUpdate
<1>6. QED
  BY <1>2, <1>3, <1>4, <1>5 DEF ApiNext

\* A report is taken up for the machine that sent it.
LEMMA StatusShows ==
    ASSUME TypeInv, StatusNext, NEW m \in MACs, InstalledSeen(m)'
    PROVE  InstalledSeen(m) \/ (ReportReceive /\ tasks'[MqttLoop].mac = m)
PROOF
<1> USE DEF Continue, Return, Begin
<1>1. MqttLoop \in Handler
  BY DEF Handler
<1>2. CASE ReportReceive
  <2>1. \A g \in Handler : g # MqttLoop => tasks'[g] = tasks[g]
    BY <1>2 DEF ReportReceive, TypeInv, TypeOK, TasksTypeOK
  <2>2. InstalledRecord(m)' => InstalledRecord(m)
    BY <1>2 DEF ReportReceive, storeVars, InstalledRecord, Recorded
  <2>3. QED
    BY <1>2, <2>1, <2>2 DEF InstalledSeen, InstalledCopy
<1>3. CASE ReportSave
  <2>1. At(MqttLoop, "report_save") /\ tasks' = [tasks EXCEPT ![MqttLoop] = Idle]
    BY <1>3 DEF ReportSave
  <2>2. \A k \in MACs : InstalledRecord(k)' => InstalledSeen(k)
    BY <1>1, <1>3, <2>1, AtHolds, SaveShows DEF ReportSave, InstalledSeen
  <2>3. QED
    BY <1>1, <2>1, <2>2, TaskStepShows
<1>4. QED
  BY <1>2, <1>3 DEF StatusNext

\* Among all steps of server and machines, only the arrival of a report does.
LEMMA OnlyReportsShow ==
    ASSUME TypeInv, [ProvNext]_provVars, NEW m \in MACs, InstalledSeen(m)'
    PROVE  InstalledSeen(m) \/ reports[m] # {}
PROOF
<1>1. UNCHANGED <<nodes, tasks>> => InstalledSeen(m)
  BY DEF InstalledSeen, InstalledRecord, InstalledCopy, Recorded
<1>2. ASSUME NEW h \in Workers, DhcpNext(h) \/ ApiNext(h) PROVE InstalledSeen(m)
  BY <1>2, DhcpShows, ApiShows DEF Handler
<1>3. CASE \E h \in Workers : HandlerWork(h) \/ Register(h)
  BY <1>2, <1>3 DEF HandlerWork, DhcpWork, DhcpReplyLost, DhcpReply, ApiWork, Register,
                    DhcpNext, ApiNext
<1>4. CASE \E n \in MACs : DhcpMessage(n) \/ DhcpReplyArrives(n) \/ Install(n)
  BY <1>2, <1>4 DEF DhcpMessage, DhcpReplyArrives, DhcpReply, Install, DhcpNext, ApiNext
<1>5. CASE \E n \in MACs : ReportArrives(n)
  <2>1. PICK n \in MACs : ReportArrives(n)
    BY <1>5
  <2>2. ReportReceive /\ tasks'[MqttLoop].mac = n /\ reports[n] # {}
    BY <2>1 DEF ReportArrives
  <2>3. QED
    BY <2>2, StatusShows DEF StatusNext
<1>6. CASE ReportWork
  <2>1. At(MqttLoop, "report_save") /\ tasks' = [tasks EXCEPT ![MqttLoop] = Idle]
    BY <1>6 DEF ReportWork, ReportSave, Return, Continue
  <2>2. ReportSave
    BY <1>6 DEF ReportWork
  <2>3. tasks'[MqttLoop] = Idle
    BY <2>1 DEF TypeInv, TypeOK, TasksTypeOK, Handler
  <2>4. CASE ReportReceive
    BY <2>1, <2>4 DEF ReportReceive, Begin, At
  <2>5. QED
    BY <2>2, <2>4, StatusShows DEF StatusNext
<1>7. CASE \E n \in MACs : \/ GoesOn(n) \/ PowerFails(n) \/ Reboot(n) \/ Connects(n)
                           \/ Confirms(n) \/ Beats(n) \/ Disturbed(n) \/ LoseReport(n)
  BY <1>1, <1>7, MachineSteps DEF vars, storeVars
<1>8. CASE Stop
  BY <1>1, <1>8 DEF Stop, Shutdown, Close
<1>9. CASE StartAgain
  BY <1>9 DEF StartAgain, Restart, InstalledSeen, InstalledRecord, InstalledCopy, Recorded
<1>10. CASE UNCHANGED provVars
  BY <1>1, <1>10 DEF provVars, vars, storeVars
<1>11. QED
  BY <1>3, <1>4, <1>5, <1>6, <1>7, <1>8, <1>9, <1>10 DEF ProvNext

-----------------------------------------------------------------------------
(***************************************************************************)
(* How a machine moves.                                                    *)
(***************************************************************************)
\* From the first network boot to the installer.
Away == {"discover", "request", "loader", "params", "kernel", "installer"}

\* The steps of a machine between its disk and the network.
Moves(m) ==
    \/ UNCHANGED <<machine[m].phase, machine[m].disk>>
    \/ machine'[m].phase = "firmware" /\ UNCHANGED machine[m].disk
    \/ /\ BootDisk(m) \/ BootNetwork(m) \/ FetchLocal(m)
       /\ UNCHANGED machine[m].disk
    \/ /\ machine[m].phase \in Away /\ machine'[m].phase \in Away
       /\ machine'[m].disk \in {machine[m].disk, "blank"}
    \/ /\ machine[m].phase = "installer" /\ machine'[m].phase = "firmware"
       /\ machine'[m].disk = "os"

LEMMA BecomesMoves ==
    ASSUME ClientTypes, NEW n \in MACs, NEW new, Becomes(n, new), NEW m \in MACs
    PROVE  machine'[m] = IF n = m THEN new ELSE machine[m]
BY DEF Becomes, ClientTypes

LEMMA GoesMoves ==
    ASSUME ClientTypes, NEW n \in MACs, NEW from, NEW to, Goes(n, from, to), NEW m \in MACs
    PROVE  /\ machine[n].phase = from
           /\ n # m => machine'[m] = machine[m]
           /\ n = m => /\ machine'[m].phase = to
                       /\ UNCHANGED <<machine[m].order, machine[m].disk>>
PROOF
<1>1. machine[n].phase = from /\ Becomes(n, [machine[n] EXCEPT !.phase = to])
  BY DEF Goes
<1>2. machine[m] \in Machine /\ machine[n] \in Machine
  BY DEF ClientTypes
<1>3. QED
  BY <1>1, <1>2, BecomesMoves DEF Machine

LEMMA MachineMoves ==
    ASSUME TypeInv, ClientTypes, [ProvNext]_provVars, NEW m \in MACs
    PROVE  Moves(m) /\ UNCHANGED machine[m].order
PROOF
<1>1. machine'[m] = machine[m] => Moves(m) /\ UNCHANGED machine[m].order
  BY DEF Moves
<1>2. ASSUME NEW n \in MACs, BootDisk(n) \/ BootNetwork(n) \/ FetchLocal(n)
      PROVE  Moves(m) /\ UNCHANGED machine[m].order
  <2>1. PICK from, to : Goes(n, from, to)
    BY <1>2 DEF BootDisk, BootNetwork, FetchLocal
  <2>2. QED
    BY <1>1, <1>2, <2>1, GoesMoves DEF Moves
<1>3. ASSUME NEW n \in MACs, FetchInstall(n) \/ DhcpTimeout(n)
      PROVE  Moves(m) /\ UNCHANGED machine[m].order
  <2>1. PICK from \in Away, to \in Away : Goes(n, from, to)
    BY <1>3 DEF FetchInstall, DhcpTimeout, Away
  <2>2. QED
    BY <1>1, <2>1, GoesMoves DEF Moves
<1>4. ASSUME NEW n \in MACs, ProxyBoot(n)
      PROVE  Moves(m) /\ UNCHANGED machine[m].order
  <2> DEFINE new == [machine[n] EXCEPT !.phase = "loader", !.addr = OtherIP]
  <2>1. machine[n].phase = "discover" /\ Becomes(n, new)
    BY <1>4 DEF ProxyBoot
  <2>2. machine[n] \in Machine
    BY DEF ClientTypes
  <2>3. new.phase = "loader" /\ new.order = machine[n].order /\ new.disk = machine[n].disk
    BY <2>2 DEF Machine
  <2> HIDE DEF new
  <2>4. QED
    BY <1>1, <2>1, <2>3, BecomesMoves DEF Moves, Away
<1>5. ASSUME NEW n \in MACs, ReadParams(n)
      PROVE  Moves(m) /\ UNCHANGED machine[m].order
  <2> DEFINE new == [machine[n] EXCEPT !.phase = "kernel", !.query = netParams(n)]
  <2>1. machine[n].phase = "params" /\ Becomes(n, new)
    BY <1>5 DEF ReadParams
  <2>2. machine[n] \in Machine
    BY DEF ClientTypes
  <2>3. new.phase = "kernel" /\ new.order = machine[n].order /\ new.disk = machine[n].disk
    BY <2>2 DEF Machine
  <2> HIDE DEF new
  <2>4. QED
    BY <1>1, <2>1, <2>3, BecomesMoves DEF Moves, Away
<1>6. ASSUME NEW n \in MACs, FetchPreseed(n)
      PROVE  Moves(m) /\ UNCHANGED machine[m].order
  <2>1. PICK config \in NetConfig :
           Becomes(n, [machine[n] EXCEPT !.phase = "installer", !.disk = "blank", !.config = config])
    BY <1>6 DEF FetchPreseed
  <2> DEFINE new == [machine[n] EXCEPT !.phase = "installer", !.disk = "blank", !.config = config]
  <2>2. machine[n].phase = "kernel" /\ Becomes(n, new)
    BY <1>6, <2>1 DEF FetchPreseed
  <2>3. machine[n] \in Machine
    BY DEF ClientTypes
  <2>4. new.phase = "installer" /\ new.order = machine[n].order /\ new.disk = "blank"
    BY <2>3 DEF Machine
  <2> HIDE DEF new
  <2>5. QED
    BY <1>1, <2>2, <2>4, BecomesMoves DEF Moves, Away
<1>7. ASSUME NEW n \in MACs, InstallerDone(n)
      PROVE  Moves(m) /\ UNCHANGED machine[m].order
  <2> DEFINE new == [machine[n] EXCEPT !.phase = "firmware", !.disk = "os"]
  <2>1. machine[n].phase = "installer" /\ Becomes(n, new)
    BY <1>7 DEF InstallerDone
  <2>2. machine[n] \in Machine
    BY DEF ClientTypes
  <2>3. new.phase = "firmware" /\ new.order = machine[n].order /\ new.disk = "os"
    BY <2>2 DEF Machine
  <2> HIDE DEF new
  <2>4. QED
    BY <1>1, <2>1, <2>3, BecomesMoves DEF Moves, Away
<1>8. ASSUME NEW n \in MACs, PowerFails(n) \/ Reboot(n)
      PROVE  Moves(m) /\ UNCHANGED machine[m].order
  <2>1. Becomes(n, [machine[n] EXCEPT !.phase = "firmware"]) /\ machine[n] \in Machine
    BY <1>8 DEF PowerFails, Reboot, StartsOver, ClientTypes
  <2>2. QED
    BY <1>1, <2>1, BecomesMoves DEF Machine, Moves
<1>9. ASSUME NEW n \in MACs, DhcpReplyArrives(n)
      PROVE  Moves(m) /\ UNCHANGED machine[m].order
  <2>1. PICK h \in Workers : Answered(h, n)
    BY <1>9 DEF DhcpReplyArrives
  <2>2. CASE Goes(n, "discover", "request")
    BY <1>1, <2>2, GoesMoves DEF Moves, Away
  <2>3. CASE /\ tasks[h].type # "discover"
             /\ Becomes(n, [machine[n] EXCEPT !.phase = "loader", !.addr = tasks[h].ip])
    <3>1. machine[n] \in Machine
      BY DEF ClientTypes
    <3>2. tasks[h].type \in {"request", "none"} /\ machine[n].phase = tasks[h].type
      BY <2>1, <2>3 DEF Answered, Awaited, Handler, TypeInv, TypeOK, TasksTypeOK, Task
    <3>3. machine[n].phase = "request"
      BY <3>1, <3>2 DEF Machine, Phase
    <3> DEFINE new == [machine[n] EXCEPT !.phase = "loader", !.addr = tasks[h].ip]
    <3>4. new.phase = "loader" /\ new.order = machine[n].order /\ new.disk = machine[n].disk
      BY <3>1 DEF Machine
    <3>5. Becomes(n, new)
      BY <2>3
    <3> HIDE DEF new
    <3>6. QED
      BY <1>1, <3>3, <3>4, <3>5, BecomesMoves DEF Moves, Away
  <2>4. QED
    BY <2>1, <2>2, <2>3 DEF Answered
<1>10. CASE StartAgain
  BY <1>1, <1>10 DEF StartAgain, ClientTypes, Machine, Moves, Away
<1>11. CASE \/ \E h \in Workers : HandlerWork(h) \/ Register(h)
           \/ \E n \in MACs : \/ DhcpMessage(n) \/ Install(n) \/ SystemdStarts(n) \/ Reconnects(n)
                              \/ Connects(n) \/ Confirms(n) \/ Beats(n) \/ Disturbed(n)
                              \/ LoseReport(n) \/ ReportArrives(n)
           \/ ReportWork \/ Stop \/ UNCHANGED provVars
  <2>1. UNCHANGED machine
    BY <1>11 DEF HandlerWork, DhcpWork, DhcpReplyLost, ApiWork, Register, DhcpMessage, Install,
                SystemdStarts, Reconnects, Connects, Confirms, Beats, Disturbed, LoseReport,
                ReportArrives, OnSystem, ReportWork, Stop, provVars, clientVars
  <2>2. QED
    BY <1>1, <2>1
<1>12. QED
  BY <1>2, <1>3, <1>4, <1>5, <1>6, <1>7, <1>8, <1>9, <1>10, <1>11 DEF ProvNext, GoesOn, Boot

-----------------------------------------------------------------------------
(***************************************************************************)
(* A record says installed only of a machine with a system.                *)
(***************************************************************************)
\* The agent of m runs, or a report of it is on its way.
AgentSeen(m) == agent[m] \notin {"stopped", "absent"} \/ reports[m] # {}

\* The steps that leave every agent as it is.
LEMMA AgentsLeft ==
    ASSUME \/ \E h \in Workers : HandlerWork(h) \/ Register(h)
           \/ \E n \in MACs : \/ ProxyBoot(n) \/ BootDisk(n) \/ BootNetwork(n) \/ FetchInstall(n)
                              \/ FetchLocal(n) \/ ReadParams(n) \/ DhcpTimeout(n)
                              \/ DhcpMessage(n) \/ DhcpReplyArrives(n) \/ Install(n)
           \/ ReportWork \/ Stop \/ StartAgain \/ UNCHANGED provVars
    PROVE  UNCHANGED agentVars
BY DEF HandlerWork, DhcpWork, DhcpReplyLost, ApiWork, Register, ProxyBoot, BootDisk, BootNetwork,
       FetchInstall, FetchLocal, ReadParams, DhcpTimeout, DhcpMessage, DhcpReplyArrives, Answered,
       Install, ReportWork, Stop, StartAgain, provVars, clientVars

\* Only the installer removes an agent from the disk, or puts one there.
LEMMA AgentStays ==
    ASSUME ClientTypes, [ProvNext]_provVars, NEW m \in MACs,
           ~FetchPreseed(m), ~InstallerDone(m)
    PROVE  agent'[m] = "absent" <=> agent[m] = "absent"
PROOF
<1> USE DEF ClientTypes, AgentTypeOK
<1>1. CASE UNCHANGED agentVars
  BY <1>1 DEF agentVars
<1>2. CASE \E n \in MACs : \/ SystemdStarts(n) \/ Reconnects(n) \/ Connects(n) \/ Disturbed(n)
                           \/ Confirms(n) \/ Beats(n)
  BY <1>2 DEF SystemdStarts, Reconnects, Connects, Disturbed, Confirms, Beats, AgentStart,
              AgentConnect, AgentReconnects, AgentEnds, AgentLosesLink, AgentConfirm, Heartbeat,
              AgentMoves
<1>3. CASE \E n \in MACs : PowerFails(n) \/ Reboot(n)
  BY <1>3 DEF PowerFails, Reboot, RebootCommand, AgentMoves
<1>4. CASE \E n \in MACs : LoseReport(n) \/ ReportArrives(n)
  BY <1>4 DEF LoseReport, ReportLost, ReportArrives
<1>5. CASE \E n \in MACs : FetchPreseed(n) \/ InstallerDone(n)
  <2>1. PICK n \in MACs : n # m /\ (FetchPreseed(n) \/ InstallerDone(n))
    BY <1>5
  <2>2. QED
    BY <2>1 DEF FetchPreseed, InstallerDone, LateCommand, AgentErased, AgentInstalled,
                AgentMoves, agentVars
<1>6. QED
  BY <1>1, <1>2, <1>3, <1>4, <1>5, AgentsLeft DEF ProvNext, GoesOn, Boot

\* Agents are started by installed systems only, and only where there is one.
LEMMA AgentAppears ==
    ASSUME ClientTypes, [ProvNext]_provVars, NEW m \in MACs, AgentSeen(m)'
    PROVE  AgentSeen(m) \/ (machine[m].phase = "system" /\ agent[m] # "absent")
PROOF
<1> USE DEF ClientTypes, AgentTypeOK, AgentSeen
<1>1. CASE UNCHANGED agentVars
  BY <1>1 DEF agentVars
<1>2. CASE \E n \in MACs : SystemdStarts(n) \/ Reconnects(n) \/ Connects(n) \/ Disturbed(n)
  BY <1>2 DEF SystemdStarts, Reconnects, Connects, Disturbed, OnSystem, AgentStart, AgentConnect,
              AgentReconnects, AgentEnds, AgentLosesLink, AgentMoves
<1>3. CASE \E n \in MACs : Confirms(n) \/ Beats(n)
  BY <1>3 DEF Confirms, Beats, OnSystem, AgentConfirm, Heartbeat, Publish, AgentMoves
<1>4. CASE \E n \in MACs : PowerFails(n) \/ Reboot(n)
  BY <1>4 DEF PowerFails, Reboot, RebootCommand, AgentMoves
<1>5. CASE \E n \in MACs : LoseReport(n) \/ ReportArrives(n)
  BY <1>5 DEF LoseReport, ReportLost, ReportArrives
<1>6. CASE \/ \E h \in Workers : HandlerWork(h) \/ Register(h)
           \/ \E n \in MACs : \/ ProxyBoot(n) \/ BootDisk(n) \/ BootNetwork(n) \/ FetchInstall(n)
                              \/ FetchLocal(n) \/ ReadParams(n) \/ DhcpTimeout(n)
                              \/ DhcpMessage(n) \/ DhcpReplyArrives(n) \/ Install(n)
           \/ ReportWork \/ Stop \/ StartAgain \/ UNCHANGED provVars
  BY <1>1, <1>6, AgentsLeft
<1>7. CASE \E n \in MACs : FetchPreseed(n) \/ InstallerDone(n)
  BY <1>7 DEF FetchPreseed, InstallerDone, LateCommand, AgentErased, AgentInstalled, AgentMoves,
              agentVars
<1>8. QED
  BY <1>2, <1>3, <1>4, <1>5, <1>6, <1>7 DEF ProvNext, GoesOn, Boot

\* What there is of an installed system: it runs, or its agent, or its reports
\* have left a trace on the way to the record.
SystemSeen(m) == InstalledSeen(m) \/ AgentSeen(m) \/ machine[m].phase = "system"

\* A machine with a system, and the disk first in its boot order, stays out of
\* the installer.
AtHome(m) == /\ machine[m].order = "disk" /\ machine[m].disk = "os"
             /\ machine[m].phase \in {"firmware", "system"}

HomeInv ==
    \A m \in MACs :
       machine[m].order # "menu"
       => /\ SystemSeen(m) => AtHome(m)
          /\ machine[m].order = "disk" /\ machine[m].disk = "os" => AtHome(m)
          /\ InstalledSeen(m) \/ AgentSeen(m) => agent[m] # "absent"

LEMMA HomeInvInit == ProvInit => HomeInv
PROOF
<1> SUFFICES ASSUME ProvInit, NEW m \in MACs
             PROVE  /\ ~SystemSeen(m)
                    /\ machine[m].phase = "firmware"
  BY DEF HomeInv, AtHome, SystemSeen
<1>1. machine[m].phase = "firmware"
  BY DEF ProvInit, NewMachine
<1>2. ~InstalledSeen(m)
  BY DEF ProvInit, Init, StoreInit, TasksInit, InstalledSeen, InstalledRecord, Recorded,
         InstalledCopy
<1>3. ~AgentSeen(m)
  BY DEF ProvInit, AgentInit, AgentSeen
<1>4. QED
  BY <1>1, <1>2, <1>3 DEF SystemSeen

LEMMA HomeInvNext == ProvInv /\ HomeInv /\ [ProvNext]_provVars => HomeInv'
PROOF
<1> SUFFICES ASSUME TypeInv, ClientTypes, HomeInv, [ProvNext]_provVars,
                    NEW m \in MACs, machine'[m].order # "menu"
             PROVE  /\ SystemSeen(m)' => AtHome(m)'
                    /\ machine'[m].order = "disk" /\ machine'[m].disk = "os" => AtHome(m)'
                    /\ InstalledSeen(m)' \/ AgentSeen(m)' => agent'[m] # "absent"
  BY DEF HomeInv, ProvInv
<1>1. Moves(m) /\ machine'[m].order = machine[m].order
  BY MachineMoves
<1>2. /\ SystemSeen(m) => AtHome(m)
      /\ machine[m].order = "disk" /\ machine[m].disk = "os" => AtHome(m)
      /\ InstalledSeen(m) \/ AgentSeen(m) => agent[m] # "absent"
  BY <1>1 DEF HomeInv
<1>3. /\ BootDisk(m) => /\ machine[m].order # "network" /\ machine[m].disk = "os"
                        /\ machine'[m].phase = "system"
      /\ BootNetwork(m) => /\ machine[m].order # "disk" \/ machine[m].disk = "blank"
                           /\ machine'[m].phase = "discover"
      /\ FetchLocal(m) => /\ machine[m].phase = "loader" /\ InstalledRecord(m)
                          /\ machine'[m].phase \in {"system", "halted"}
  <2>1. machine[m] \in Machine
    BY DEF ClientTypes
  <2>2. BootDisk(m) => machine'[m].phase = "system"
    BY <2>1, GoesMoves DEF BootDisk
  <2>3. BootNetwork(m) => machine'[m].phase = "discover"
    BY <2>1, GoesMoves DEF BootNetwork
  <2>4. FetchLocal(m) => machine'[m].phase \in {"system", "halted"}
    BY <2>1, GoesMoves DEF FetchLocal
  <2>5. FetchLocal(m) => InstalledRecord(m)
    <3>1. ASSUME FetchLocal(m)
          PROVE  /\ Recorded(m) /\ nodes[m].status \in Status
                 /\ scriptFor[nodes[m].status] = "local"
      BY <3>1 DEF FetchLocal, BootScript, Found, Recorded, TypeInv, TypeOK, StoreTypeOK, Node
    <3>2. QED
      BY <3>1 DEF scriptFor, Status, InstalledRecord, Discovered, Installing, Installed
  <2>6. QED
    BY <2>2, <2>3, <2>4, <2>5 DEF BootDisk, BootNetwork, FetchLocal, Goes
<1>4. ~FetchLocal(m)
  BY <1>2, <1>3 DEF SystemSeen, InstalledSeen, AtHome
<1>5. AtHome(m) => AtHome(m)'
  BY <1>1, <1>3, <1>4 DEF AtHome, Moves, Away
<1>6. SystemSeen(m)' => SystemSeen(m) \/ machine'[m].phase = "system"
  BY OnlyReportsShow, AgentAppears DEF SystemSeen, AgentSeen
<1>7. machine'[m].phase = "system" => machine[m].phase = "system" \/ BootDisk(m)
  BY <1>1, <1>3, <1>4 DEF Moves, Away
<1>8. machine[m].order \in {"disk", "network", "menu"}
  BY BootOrdersAssumption DEF ClientTypes, Machine
<1>9. SystemSeen(m)' => AtHome(m)'
  BY <1>1, <1>2, <1>3, <1>5, <1>6, <1>7, <1>8 DEF SystemSeen
<1>10. ASSUME machine'[m].order = "disk", machine'[m].disk = "os" PROVE AtHome(m)'
  <2>1. CASE machine[m].disk = "os"
    BY <1>1, <1>2, <1>5, <1>10, <2>1
  <2>2. CASE machine[m].disk # "os"
    BY <1>1, <1>3, <1>4, <1>10, <2>2 DEF Moves, AtHome
  <2>3. QED
    BY <2>1, <2>2
<1>11. ASSUME InstalledSeen(m)' \/ AgentSeen(m)' PROVE agent'[m] # "absent"
  <2>1. /\ agent[m] # "absent"
        /\ SystemSeen(m)
    BY <1>2, <1>11, OnlyReportsShow, AgentAppears DEF SystemSeen, AgentSeen
  <2>2. machine[m].phase \in {"firmware", "system"}
    BY <1>2, <2>1 DEF AtHome
  <2>3. ~FetchPreseed(m) /\ ~InstallerDone(m)
    BY <2>2 DEF FetchPreseed, InstallerDone
  <2>4. QED
    BY <2>1, <2>3, AgentStays
<1>12. QED
  BY <1>9, <1>10, <1>11

\* Whatever handlers, reports, power failures and restarts overlap, the server has a
\* machine down as installed only if its disk holds a system and its agent, also where
\* late commands fail, unless someone chooses in its boot menu.
THEOREM InstalledHasSystem == ProvSpec => []InstalledMeansSystem
PROOF
<1>1. HomeInv => InstalledMeansSystem
  BY DEF HomeInv, SystemSeen, InstalledSeen, InstalledRecord, AtHome, Equipped,
         InstalledMeansSystem
<1>2. QED
  BY ProvInvInit, ProvInvNext, HomeInvInit, HomeInvNext, <1>1, PTL DEF ProvSpec

-----------------------------------------------------------------------------
(***************************************************************************)
(* The static address of a machine is the one reserved for it.             *)
(***************************************************************************)
\* A record or a network configuration c, and the machine's lease l.
Clean(c, l) == c.ip # NoIP => c.net /\ l # NoLease /\ l.ip = c.ip

\* The record of m and the handlers' copies of it.
RecordClean(m) == Recorded(m) => Clean(nodes[m], leases[m])
CopiesClean(m) ==
    \A h \in Handler :
       tasks[h] # Idle /\ tasks[h].mac = m /\ tasks[h].node # NoNode
       => Clean(tasks[h].node, leases[m])
AllClean(m) == RecordClean(m) /\ CopiesClean(m)

LEMMA CleanStays ==
    ASSUME AddressesKept, NEW m \in MACs, NEW c, Clean(c, leases[m])
    PROVE  Clean(c, leases'[m])
BY DEF AddressesKept, Clean

LEMMA SaveClean ==
    ASSUME TypeInv, NEW m \in MACs, RecordClean(m), UNCHANGED leases,
           NEW k \in MACs, NEW n \in Node, Save(k, n) \/ SaveFails,
           k = m => Clean(n, leases[m])
    PROVE  RecordClean(m)'
PROOF
<1>1. CASE Save(k, n)
  <2> DEFINE s == Stored(k, n)
  <2>1. s.ip = n.ip /\ s.net = n.net
    BY DEF Stored, Node
  <2>2. nodes' = [nodes EXCEPT ![k] = s]
    BY <1>1 DEF Save
  <2> HIDE DEF s
  <2>3. nodes'[m] = IF m = k THEN s ELSE nodes[m]
    BY <2>2 DEF TypeInv, TypeOK, StoreTypeOK
  <2>4. QED
    BY <2>1, <2>3 DEF RecordClean, Recorded, Clean
<1>2. CASE SaveFails
  BY <1>2 DEF SaveFails, storeVars, RecordClean, Recorded
<1>3. QED
  BY <1>1, <1>2

LEMMA UnwrittenClean ==
    ASSUME NEW m \in MACs, RecordClean(m), UNCHANGED nodes, AddressesKept
    PROVE  RecordClean(m)'
BY CleanStays DEF RecordClean, Recorded

LEMMA TaskStepClean ==
    ASSUME TypeInv, NEW m \in MACs, CopiesClean(m), AddressesKept,
           NEW h \in Handler, NEW t, tasks' = [tasks EXCEPT ![h] = t],
           t # Idle /\ t.mac = m /\ t.node # NoNode => Clean(t.node, leases'[m])
    PROVE  CopiesClean(m)'
PROOF
<1>1. \A g \in Handler : tasks'[g] = IF g = h THEN t ELSE tasks[g]
  BY DEF TypeInv, TypeOK, TasksTypeOK
<1>2. QED
  BY <1>1, CleanStays DEF CopiesClean

\* What the handler at some place holds.
LEMMA AtClean ==
    ASSUME TypeInv, NEW m \in MACs, CopiesClean(m),
           NEW h \in Handler, NEW pc, At(h, pc), pc # "install_update"
    PROVE  /\ tasks[h] \in Task /\ tasks[h].mac \in MACs /\ tasks[h].node \in Node
           /\ tasks[h].mac = m => Clean(tasks[h].node, leases[m])
PROOF
<1>1. tasks[h] # Idle /\ tasks[h].node # NoNode
  BY AtHolds, NoNodeAssumption
<1>2. QED
  BY <1>1, AtHolds DEF CopiesClean

\* An address of the machine's lease makes its copy clean.
LEMMA AssignedClean ==
    ASSUME NEW t \in Task, t.node \in Node, NEW ip \in IPs, NEW l, l # NoLease, l.ip = ip,
           Clean(t.node, l)
    PROVE  Clean(Assigned(t, ip).node, l)
PROOF
<1> DEFINE n == [t.node EXCEPT !.ip = ip, !.net = TRUE]
<1>1. n.ip = ip /\ n.net = TRUE
  BY DEF Node
<1> HIDE DEF n
<1>2. CASE ip = UnspecifiedIP
  <2>1. Assigned(t, ip) = [t EXCEPT !.pc = "dhcp_send", !.ip = ip]
    BY <1>2 DEF Assigned
  <2>2. Assigned(t, ip).node = t.node
    BY <2>1 DEF Task
  <2>3. QED
    BY <2>2
<1>3. CASE ip # UnspecifiedIP
  <2>1. Assigned(t, ip) = [t EXCEPT !.pc = "dhcp_persist", !.ip = ip, !.node = n]
    BY <1>3 DEF Assigned, n
  <2>2. Assigned(t, ip).node = n
    BY <2>1 DEF Task
  <2>3. QED
    BY <1>1, <2>2 DEF Clean
<1>4. QED
  BY <1>2, <1>3

LEMMA DhcpClean ==
    ASSUME TypeInv, RecordsInv, NEW h \in Handler, DhcpNext(h), NEW m \in MACs, AllClean(m)
    PROVE  AllClean(m)' /\ AddressesKept
PROOF
<1> USE DEF Continue, Return, Begin
<1>1. RecordClean(m) /\ CopiesClean(m)
  BY DEF AllClean
<1>2. UNCHANGED poolVars => AddressesKept /\ UNCHANGED leases
  BY DEF poolVars, AddressesKept
<1>3. UNCHANGED storeVars => UNCHANGED nodes
  BY DEF storeVars
<1>4. CASE DhcpReceive(h)
  <2> DEFINE n(k) == IF Found(k) THEN nodes[k] ELSE NewNode
             t(k, type, req) == [pc |-> "dhcp_save", mac |-> k, type |-> type, ip |-> req,
                                 node |-> n(k)]
  <2>1. PICK k \in MACs, type \in {"discover", "request"}, req \in RequestIPs \cup {NoIP} :
           tasks' = [tasks EXCEPT ![h] = t(k, type, req)]
    BY <1>4 DEF DhcpReceive
  <2>2. Clean(n(m), leases[m])
    BY <1>1 DEF Found, NewNode, RecordClean, Recorded, Clean
  <2>3. t(k, type, req).node = n(k) /\ t(k, type, req).mac = k
    OBVIOUS
  <2> HIDE DEF n, t
  <2>4. UNCHANGED poolVars /\ UNCHANGED storeVars
    BY <1>4 DEF DhcpReceive
  <2>5. CopiesClean(m)'
    BY <1>1, <1>2, <2>1, <2>2, <2>3, <2>4, TaskStepClean
  <2>6. QED
    BY <1>1, <1>2, <1>3, <2>4, <2>5, UnwrittenClean DEF AllClean
<1>5. CASE DhcpSave(h)
  <2> DEFINE s == Stored(tasks[h].mac, tasks[h].node)
             t == [tasks[h] EXCEPT !.pc = "dhcp_build", !.node = s]
  <2>1. UNCHANGED poolVars /\ At(h, "dhcp_save")
    BY <1>5 DEF DhcpSave
  <2>2. /\ tasks[h] \in Task /\ tasks[h].mac \in MACs /\ tasks[h].node \in Node
        /\ tasks[h].mac = m => Clean(tasks[h].node, leases[m])
    BY <1>1, <2>1, AtClean
  <2>3. s.ip = tasks[h].node.ip /\ s.net = tasks[h].node.net
    BY <2>2 DEF Stored, Node
  <2>4. RecordClean(m)'
    BY <1>1, <1>2, <1>5, <2>1, <2>2, SaveClean DEF DhcpSave
  <2> HIDE DEF s
  <2>5. t.node = s /\ t.mac = tasks[h].mac
    BY <2>2 DEF Task
  <2>6. tasks' = [tasks EXCEPT ![h] = t] \/ tasks' = [tasks EXCEPT ![h] = Idle]
    BY <1>5 DEF DhcpSave, s
  <2> HIDE DEF t
  <2>7. tasks[h].mac = m => Clean(s, leases'[m])
    BY <1>2, <2>1, <2>2, <2>3 DEF Clean
  <2>8. CopiesClean(m)'
    BY <1>1, <1>2, <2>1, <2>5, <2>6, <2>7, TaskStepClean
  <2>9. QED
    BY <1>2, <2>1, <2>4, <2>8 DEF AllClean
<1>6. CASE DhcpOffer(h) \/ DhcpAck(h)
  <2>1. UNCHANGED storeVars /\ At(h, "dhcp_build")
    BY <1>6 DEF DhcpOffer, DhcpAck
  <2>2. AddressesKept
    BY <1>6, BuildReserves
  <2>3. /\ tasks[h] \in Task /\ tasks[h].mac \in MACs /\ tasks[h].node \in Node
        /\ tasks[h].mac = m => Clean(tasks[h].node, leases'[m])
    BY <1>1, <2>1, <2>2, AtClean, CleanStays
  <2>4. ASSUME tasks' = [tasks EXCEPT ![h] = Idle] PROVE CopiesClean(m)'
    BY <1>1, <2>2, <2>4, TaskStepClean
  <2>5. ASSUME NEW ip \in IPs, tasks' = [tasks EXCEPT ![h] = Assigned(tasks[h], ip)],
               leases'[tasks[h].mac] # NoLease, leases'[tasks[h].mac].ip = ip
        PROVE  CopiesClean(m)'
    <3> DEFINE t == Assigned(tasks[h], ip)
    <3>1. t.mac = tasks[h].mac
      BY <2>3, AssignedWellFormed
    <3>2. tasks[h].mac = m => Clean(t.node, leases'[m])
      BY <2>3, <2>5, AssignedClean
    <3> HIDE DEF t
    <3>3. tasks' = [tasks EXCEPT ![h] = t]
      BY <2>5 DEF t
    <3>4. QED
      BY <1>1, <2>2, <3>1, <3>2, <3>3, TaskStepClean
  <2>6. ASSUME UNCHANGED tasks PROVE CopiesClean(m)'
    BY <1>1, <2>2, <2>6, CleanStays DEF CopiesClean
  <2>7. CopiesClean(m)'
    BY <1>6, <2>4, <2>5, <2>6, BuildReserves
  <2>8. QED
    BY <1>1, <1>3, <2>1, <2>2, <2>7, UnwrittenClean DEF AllClean
<1>7. CASE DhcpEcho(h)
  <2> DEFINE t == [tasks[h] EXCEPT !.pc = "dhcp_send"]
  <2>1. UNCHANGED storeVars /\ UNCHANGED poolVars /\ At(h, "dhcp_build")
        /\ tasks' = [tasks EXCEPT ![h] = t]
    BY <1>7 DEF DhcpEcho
  <2>2. tasks[h].mac = m => Clean(tasks[h].node, leases'[m])
    BY <1>1, <1>2, <2>1, AtClean
  <2>3. t.node = tasks[h].node /\ t.mac = tasks[h].mac
    BY <2>1, AtHolds DEF Task
  <2> HIDE DEF t
  <2>4. CopiesClean(m)'
    BY <1>1, <1>2, <2>1, <2>2, <2>3, TaskStepClean
  <2>5. QED
    BY <1>1, <1>2, <1>3, <2>1, <2>4, UnwrittenClean DEF AllClean
<1>8. CASE DhcpPersist(h)
  <2>1. UNCHANGED poolVars /\ At(h, "dhcp_persist") /\ tasks' = [tasks EXCEPT ![h] = Idle]
    BY <1>8 DEF DhcpPersist
  <2>2. RecordClean(m)'
    BY <1>1, <1>2, <1>8, <2>1, AtClean, SaveClean DEF DhcpPersist
  <2>3. CopiesClean(m)'
    BY <1>1, <1>2, <2>1, TaskStepClean
  <2>4. QED
    BY <1>2, <2>1, <2>2, <2>3 DEF AllClean
<1>9. CASE DhcpSend(h)
  <2>1. UNCHANGED storeVars /\ UNCHANGED poolVars /\ tasks' = [tasks EXCEPT ![h] = Idle]
    BY <1>9 DEF DhcpSend
  <2>2. CopiesClean(m)'
    BY <1>1, <1>2, <2>1, TaskStepClean
  <2>3. QED
    BY <1>1, <1>2, <1>3, <2>1, <2>2, UnwrittenClean DEF AllClean
<1>10. QED
  BY <1>4, <1>5, <1>6, <1>7, <1>8, <1>9 DEF DhcpNext

LEMMA ApiClean ==
    ASSUME TypeInv, RegisterIPs = {}, UNCHANGED poolVars, NEW h \in Handler, ApiNext(h),
           NEW m \in MACs, AllClean(m)
    PROVE  AllClean(m)' /\ AddressesKept
PROOF
<1> USE DEF Continue, Return, Begin
<1>1. RecordClean(m) /\ CopiesClean(m)
  BY DEF AllClean
<1>2. AddressesKept /\ UNCHANGED leases
  BY DEF poolVars, AddressesKept
<1>3. UNCHANGED storeVars => RecordClean(m)'
  BY <1>1, <1>2, UnwrittenClean DEF storeVars
<1>4. CASE RegisterReceive(h)
  <2>1. PICK k \in MACs, ip \in RegisterIPs \cup {NoIP} :
           tasks' = [tasks EXCEPT ![h] =
                        Request("register_save", k, [NewNode EXCEPT !.ip = ip])]
    BY <1>4 DEF RegisterReceive
  <2> DEFINE n == [NewNode EXCEPT !.ip = ip]
             t == Request("register_save", k, n)
  <2>2. n.ip = NoIP
    BY DEF NewNode
  <2>3. t.node = n
    BY DEF Request
  <2>4. tasks' = [tasks EXCEPT ![h] = t]
    BY <2>1
  <2> HIDE DEF n, t
  <2>5. CopiesClean(m)'
    BY <1>1, <1>2, <2>2, <2>3, <2>4, TaskStepClean DEF Clean
  <2>6. QED
    BY <1>2, <1>3, <1>4, <2>5 DEF RegisterReceive, AllClean
<1>5. CASE RegisterSave(h)
  <2>1. At(h, "register_save") /\ tasks' = [tasks EXCEPT ![h] = Idle]
    BY <1>5 DEF RegisterSave
  <2>2. RecordClean(m)'
    BY <1>1, <1>2, <1>5, <2>1, AtClean, SaveClean DEF RegisterSave
  <2>3. CopiesClean(m)'
    BY <1>1, <1>2, <2>1, TaskStepClean
  <2>4. QED
    BY <1>2, <2>2, <2>3 DEF AllClean
<1>6. CASE InstallReceive(h)
  <2>1. PICK k \in MACs : tasks' = [tasks EXCEPT ![h] = Request("install_update", k, NoNode)]
    BY <1>6 DEF InstallReceive
  <2>2. Request("install_update", k, NoNode).node = NoNode
    BY DEF Request
  <2>3. CopiesClean(m)'
    BY <1>1, <1>2, <2>1, <2>2, TaskStepClean
  <2>4. QED
    BY <1>2, <1>3, <1>6, <2>3 DEF InstallReceive, AllClean
<1>7. CASE InstallUpdate(h)
  <2>1. tasks' = [tasks EXCEPT ![h] = Idle]
    BY <1>7 DEF InstallUpdate
  <2>2. CopiesClean(m)'
    BY <1>1, <1>2, <2>1, TaskStepClean
  <2>3. ASSUME UpdateStatus(tasks[h].mac, Installing) PROVE RecordClean(m)'
    <3> DEFINE k == tasks[h].mac
               u == [nodes[k] EXCEPT !.status = Installing]
    <3>1. k \in MACs
      BY <1>7, AtTask DEF InstallUpdate
    <3>2. nodes' = [nodes EXCEPT ![k] = u]
      BY <2>3 DEF UpdateStatus
    <3>3. nodes[k] \in Node /\ nodes[k] # NoNode
      BY <2>3, <3>1 DEF UpdateStatus, Found, TypeInv, TypeOK, StoreTypeOK
    <3>4. u.ip = nodes[k].ip /\ u.net = nodes[k].net
      BY <3>3 DEF Node
    <3> HIDE DEF k, u
    <3>5. nodes'[m] = IF m = k THEN u ELSE nodes[m]
      BY <3>2 DEF TypeInv, TypeOK, StoreTypeOK
    <3>6. QED
      BY <1>1, <1>2, <3>3, <3>4, <3>5 DEF RecordClean, Recorded, Clean
  <2>4. QED
    BY <1>2, <1>3, <1>7, <2>2, <2>3 DEF InstallUpdate, UpdateStatusFails, AllClean
<1>8. QED
  BY <1>4, <1>5, <1>6, <1>7 DEF ApiNext

\* A report of another machine leaves the record of m as it is.
LEMMA StatusClean ==
    ASSUME TypeInv, UNCHANGED poolVars, StatusNext, NEW m \in MACs, AllClean(m),
           ReportReceive => tasks'[MqttLoop].mac # m
    PROVE  AllClean(m)' /\ AddressesKept
PROOF
<1> USE DEF Continue, Return, Begin
<1>1. RecordClean(m) /\ CopiesClean(m)
  BY DEF AllClean
<1>2. AddressesKept /\ UNCHANGED leases /\ MqttLoop \in Handler
  BY DEF poolVars, AddressesKept, Handler
<1>3. CASE ReportReceive
  <2>1. PICK t : tasks' = [tasks EXCEPT ![MqttLoop] = t]
    BY <1>3 DEF ReportReceive
  <2>2. t.mac # m
    BY <1>2, <1>3, <2>1 DEF TypeInv, TypeOK, TasksTypeOK
  <2>3. CopiesClean(m)'
    BY <1>1, <1>2, <2>1, <2>2, TaskStepClean
  <2>4. QED
    BY <1>1, <1>2, <1>3, <2>3, UnwrittenClean DEF ReportReceive, storeVars, AllClean
<1>4. CASE ReportSave
  <2>1. At(MqttLoop, "report_save") /\ tasks' = [tasks EXCEPT ![MqttLoop] = Idle]
    BY <1>4 DEF ReportSave
  <2>2. RecordClean(m)'
    BY <1>1, <1>2, <1>4, <2>1, AtClean, SaveClean DEF ReportSave
  <2>3. CopiesClean(m)'
    BY <1>1, <1>2, <2>1, TaskStepClean
  <2>4. QED
    BY <1>2, <2>2, <2>3 DEF AllClean
<1>5. QED
  BY <1>3, <1>4 DEF StatusNext

LEMMA AddressesStay ==
    ASSUME TypeInv, RecordsInv, [Next]_vars, boots' = 0
    PROVE  AddressesKept
PROOF
<1>1. UNCHANGED leases => AddressesKept
  BY DEF AddressesKept
<1>2. ASSUME NEW h \in Workers, DhcpNext(h) PROVE AddressesKept
  <2>1. h \in Handler
    BY DEF Handler
  <2>2. CASE DhcpOffer(h) \/ DhcpAck(h)
    BY <2>1, <2>2, BuildReserves
  <2>3. CASE \/ DhcpReceive(h) \/ DhcpSave(h) \/ DhcpEcho(h) \/ DhcpPersist(h) \/ DhcpSend(h)
    BY <1>1, <2>3 DEF DhcpReceive, DhcpSave, DhcpEcho, DhcpPersist, DhcpSend, poolVars
  <2>4. QED
    BY <1>2, <2>2, <2>3 DEF DhcpNext
<1>3. ~Restart
  BY DEF Restart, TypeInv, TypeOK, DhcpTypeOK
<1>4. CASE Api \/ Mqtt \/ Shutdown \/ TimePasses \/ UNCHANGED vars
  BY <1>1, <1>4 DEF Api, Mqtt, Shutdown, TimePasses, vars, poolVars
<1>5. QED
  BY <1>2, <1>3, <1>4 DEF Next, Dhcp

LEMMA BootsKept ==
    ASSUME [Next]_vars, ~Restart
    PROVE  UNCHANGED boots
PROOF
<1>1. CASE Dhcp
  BY <1>1 DEF Dhcp, DhcpNext, DhcpReceive, DhcpSave, DhcpOffer, DhcpAck, DhcpEcho, DhcpPersist,
              DhcpSend, Sent, dhcpVars
<1>2. CASE Api \/ Mqtt \/ Shutdown \/ TimePasses \/ UNCHANGED vars
  BY <1>2 DEF Api, Mqtt, Shutdown, TimePasses, vars, dhcpVars
<1>3. QED
  BY <1>1, <1>2 DEF Next

\* As long as m sends no report, its record and the copies of it stay clean.
LEMMA AllCleanStays ==
    ASSUME TypeInv, RecordsInv, RegisterIPs = {}, [ProvNext]_provVars, boots' = 0,
           NEW m \in MACs, AllClean(m), reports[m] = {}
    PROVE  AllClean(m)'
PROOF
<1>1. AddressesKept
  BY StepImplemented, AddressesStay
<1>2. UNCHANGED <<nodes, tasks>> => AllClean(m)'
  BY <1>1, CleanStays DEF AllClean, RecordClean, CopiesClean, Recorded
<1>3. ASSUME NEW h \in Workers, DhcpNext(h) \/ (ApiNext(h) /\ UNCHANGED poolVars)
      PROVE  AllClean(m)'
  BY <1>3, DhcpClean, ApiClean DEF Handler
<1>4. CASE \E h \in Workers : HandlerWork(h) \/ Register(h)
  BY <1>3, <1>4 DEF HandlerWork, DhcpWork, DhcpReplyLost, DhcpReply, ApiWork, Register,
                    DhcpNext, ApiNext
<1>5. CASE \E n \in MACs : DhcpMessage(n) \/ DhcpReplyArrives(n) \/ Install(n)
  BY <1>3, <1>5 DEF DhcpMessage, DhcpReplyArrives, DhcpReply, Install, DhcpNext, ApiNext
<1>6. CASE \E n \in MACs : ReportArrives(n)
  <2>1. PICK n \in MACs : ReportArrives(n)
    BY <1>6
  <2>2. /\ ReportReceive /\ tasks'[MqttLoop].mac = n /\ reports[n] # {}
        /\ UNCHANGED poolVars
    BY <2>1 DEF ReportArrives
  <2>3. QED
    BY <2>2, StatusClean DEF StatusNext
<1>7. CASE ReportWork
  <2>1. ReportSave /\ At(MqttLoop, "report_save") /\ UNCHANGED poolVars
    BY <1>7 DEF ReportWork, ReportSave, Return, Continue
  <2>2. ~ReportReceive
    BY <2>1 DEF ReportReceive, Begin, At
  <2>3. QED
    BY <2>1, <2>2, StatusClean DEF StatusNext
<1>8. CASE \E n \in MACs : \/ GoesOn(n) \/ PowerFails(n) \/ Reboot(n) \/ Connects(n)
                           \/ Confirms(n) \/ Beats(n) \/ Disturbed(n) \/ LoseReport(n)
  BY <1>2, <1>8, MachineSteps DEF vars, storeVars
<1>9. CASE Stop
  BY <1>2, <1>9 DEF Stop, Shutdown, Close
<1>10. ~StartAgain
  BY DEF StartAgain, Restart, TypeInv, TypeOK, DhcpTypeOK
<1>11. CASE UNCHANGED provVars
  BY <1>2, <1>11 DEF provVars, vars, storeVars
<1>12. QED
  BY <1>4, <1>5, <1>6, <1>7, <1>8, <1>9, <1>10, <1>11 DEF ProvNext

\* The network configuration of a machine comes from its record, on the way to the
\* installer.
Configures(m) ==
    /\ \/ machine'[m].query = machine[m].query
       \/ machine[m].phase = "params" /\ machine'[m].query = RecordConfig(m)
    /\ \/ machine'[m].config = machine[m].config
       \/ machine[m].phase = "kernel" /\ machine'[m].config \in {machine[m].query, RecordConfig(m)}

\* m keeps the configuration it has.
KeepsConfig(m) == UNCHANGED <<machine[m].query, machine[m].config>>

LEMMA MachineConfigures ==
    ASSUME TypeInv, ClientTypes, [ProvNext]_provVars, NEW m \in MACs
    PROVE  Configures(m)
PROOF
<1>1. KeepsConfig(m) => Configures(m)
  BY DEF KeepsConfig, Configures
<1>2. machine'[m] = machine[m] => KeepsConfig(m)
  BY DEF KeepsConfig
<1>3. ASSUME NEW n \in MACs, NEW from, NEW to, Goes(n, from, to)
      PROVE  Configures(m)
  <2>1. Becomes(n, [machine[n] EXCEPT !.phase = to]) /\ machine[n] \in Machine
    BY <1>3 DEF Goes, ClientTypes
  <2>2. QED
    BY <1>1, <1>2, <2>1, BecomesMoves DEF Machine, KeepsConfig
<1>4. ASSUME NEW n \in MACs, \/ BootDisk(n) \/ BootNetwork(n) \/ FetchLocal(n)
                             \/ FetchInstall(n) \/ DhcpTimeout(n)
      PROVE  Configures(m)
  <2>1. PICK from, to : Goes(n, from, to)
    BY <1>4 DEF BootDisk, BootNetwork, FetchLocal, FetchInstall, DhcpTimeout
  <2>2. QED
    BY <1>3, <2>1
<1>5. ASSUME NEW n \in MACs, NEW ip, Becomes(n, [machine[n] EXCEPT !.phase = "loader", !.addr = ip])
      PROVE  Configures(m)
  <2> DEFINE new == [machine[n] EXCEPT !.phase = "loader", !.addr = ip]
  <2>1. machine[n] \in Machine
    BY DEF ClientTypes
  <2>2. new.query = machine[n].query /\ new.config = machine[n].config
    BY <2>1 DEF Machine
  <2>3. Becomes(n, new)
    BY <1>5
  <2> HIDE DEF new
  <2>4. QED
    BY <1>1, <1>2, <2>2, <2>3, BecomesMoves DEF KeepsConfig
<1>6. ASSUME NEW n \in MACs, InstallerDone(n)
      PROVE  Configures(m)
  <2> DEFINE new == [machine[n] EXCEPT !.phase = "firmware", !.disk = "os"]
  <2>1. machine[n] \in Machine /\ Becomes(n, new)
    BY <1>6 DEF ClientTypes, InstallerDone
  <2>2. new.query = machine[n].query /\ new.config = machine[n].config
    BY <2>1 DEF Machine
  <2> HIDE DEF new
  <2>3. QED
    BY <1>1, <1>2, <2>1, <2>2, BecomesMoves DEF KeepsConfig
<1>7. ASSUME NEW n \in MACs, PowerFails(n) \/ Reboot(n)
      PROVE  Configures(m)
  <2>1. Becomes(n, [machine[n] EXCEPT !.phase = "firmware"]) /\ machine[n] \in Machine
    BY <1>7 DEF PowerFails, Reboot, StartsOver, ClientTypes
  <2>2. QED
    BY <1>1, <1>2, <2>1, BecomesMoves DEF Machine, KeepsConfig
<1>8. ASSUME NEW n \in MACs, ReadParams(n)
      PROVE  Configures(m)
  <2> DEFINE c == RecordConfig(n)
             new == [machine[n] EXCEPT !.phase = "kernel", !.query = c]
  <2>1. machine[n].phase = "params" /\ Becomes(n, new) /\ machine[n] \in Machine
    BY <1>8 DEF ReadParams, netParams, ClientTypes
  <2>2. new.query = c /\ new.config = machine[n].config
    BY <2>1 DEF Machine
  <2> HIDE DEF new
  <2>3. QED
    BY <1>1, <1>2, <2>1, <2>2, BecomesMoves DEF Configures
<1>9. ASSUME NEW n \in MACs, FetchPreseed(n)
      PROVE  Configures(m)
  <2>1. PICK config \in NetConfig :
           /\ Preseed(n, machine[n].query, config)
           /\ Becomes(n, [machine[n] EXCEPT !.phase = "installer", !.disk = "blank",
                                            !.config = config])
    BY <1>9 DEF FetchPreseed
  <2> DEFINE new == [machine[n] EXCEPT !.phase = "installer", !.disk = "blank", !.config = config]
  <2>2. machine[n].phase = "kernel" /\ machine[n] \in Machine
    BY <1>9 DEF FetchPreseed, ClientTypes
  <2>3. config \in {machine[n].query, RecordConfig(n)}
    BY <2>1 DEF Preseed
  <2>4. new.query = machine[n].query /\ new.config = config
    BY <2>2 DEF Machine
  <2>5. Becomes(n, new)
    BY <2>1
  <2> HIDE DEF new
  <2>6. QED
    BY <1>1, <1>2, <2>2, <2>3, <2>4, <2>5, BecomesMoves DEF Configures
<1>10. ASSUME NEW n \in MACs, ProxyBoot(n) \/ DhcpReplyArrives(n)
       PROVE  Configures(m)
  BY <1>3, <1>5, <1>10 DEF ProxyBoot, DhcpReplyArrives, Answered
<1>11. CASE StartAgain
  <2>1. machine[m] \in Machine
    BY DEF ClientTypes
  <2>2. machine'[m] = machine[m] \/ machine'[m] = [machine[m] EXCEPT !.phase = "loader"]
    BY <1>11 DEF StartAgain
  <2>3. QED
    BY <1>1, <1>2, <2>1, <2>2 DEF Machine, KeepsConfig
<1>12. CASE \/ \E h \in Workers : HandlerWork(h) \/ Register(h)
            \/ \E n \in MACs : \/ DhcpMessage(n) \/ Install(n) \/ SystemdStarts(n) \/ Reconnects(n)
                               \/ Connects(n) \/ Confirms(n) \/ Beats(n) \/ Disturbed(n)
                               \/ LoseReport(n) \/ ReportArrives(n)
            \/ ReportWork \/ Stop \/ UNCHANGED provVars
  <2>1. UNCHANGED machine
    BY <1>12 DEF HandlerWork, DhcpWork, DhcpReplyLost, ApiWork, Register, DhcpMessage, Install,
                 SystemdStarts, Reconnects, Connects, Confirms, Beats, Disturbed, LoseReport,
                 ReportArrives, OnSystem, ReportWork, Stop, provVars, clientVars
  <2>2. QED
    BY <1>1, <1>2, <2>1
<1>13. QED
  BY <1>4, <1>6, <1>7, <1>8, <1>9, <1>10, <1>11, <1>12 DEF ProvNext, GoesOn, Boot

StaticInv ==
    boots = 0 /\ RegisterIPs = {}
    => \A m \in MACs :
          machine[m].order = "disk"
          => /\ Clean(machine[m].query, leases[m]) /\ Clean(machine[m].config, leases[m])
             /\ machine[m].disk = "blank" => AllClean(m)

LEMMA StaticInvInit == ProvInit => StaticInv
PROOF
<1> SUFFICES ASSUME ProvInit, NEW m \in MACs
             PROVE  /\ Clean(machine[m].query, leases[m]) /\ Clean(machine[m].config, leases[m])
                    /\ AllClean(m)
  BY DEF StaticInv
<1>1. machine[m].query = UseDhcp /\ machine[m].config = UseDhcp
  BY DEF ProvInit, NewMachine
<1>2. nodes[m] = NoNode /\ \A h \in Handler : tasks[h] = Idle
  BY DEF ProvInit, Init, StoreInit, TasksInit
<1>3. QED
  BY <1>1, <1>2 DEF Clean, UseDhcp, AllClean, RecordClean, CopiesClean, Recorded

LEMMA StaticInvNext ==
    ProvInv /\ RecordsInv /\ HomeInv /\ StaticInv /\ [ProvNext]_provVars => StaticInv'
PROOF
<1> SUFFICES ASSUME TypeInv, ClientTypes, RecordsInv, HomeInv, StaticInv, [ProvNext]_provVars,
                    boots' = 0, RegisterIPs = {}, NEW m \in MACs, machine'[m].order = "disk"
             PROVE  /\ Clean(machine'[m].query, leases'[m])
                    /\ Clean(machine'[m].config, leases'[m])
                    /\ machine'[m].disk = "blank" => AllClean(m)'
  BY DEF StaticInv, ProvInv
<1>1. AddressesKept
  BY StepImplemented, AddressesStay
<1>2. boots = 0
  <2>1. boots \in Nat
    BY DEF TypeInv, TypeOK, DhcpTypeOK
  <2>2. [Next]_vars
    BY StepImplemented
  <2>3. CASE Restart
    BY <2>1, <2>3 DEF Restart
  <2>4. CASE ~Restart
    BY <2>2, <2>4, BootsKept
  <2>5. QED
    BY <2>3, <2>4
<1>3. Moves(m) /\ machine[m].order = "disk" /\ Configures(m)
  BY MachineMoves, MachineConfigures
<1>4. /\ Clean(machine[m].query, leases[m]) /\ Clean(machine[m].config, leases[m])
      /\ machine[m].disk = "blank" => AllClean(m)
  BY <1>2, <1>3 DEF StaticInv
<1>5. /\ SystemSeen(m) => AtHome(m)
      /\ machine[m].disk = "os" => AtHome(m)
  BY <1>3 DEF HomeInv
<1>6. machine[m].disk \in {"blank", "os"}
  BY DEF ClientTypes, Machine
<1>7. machine[m].phase \in Away => machine[m].disk = "blank"
  BY <1>5, <1>6 DEF AtHome, Away
<1>8. machine[m].disk = "blank" => Clean(RecordConfig(m), leases[m])
  BY <1>4 DEF AllClean, RecordClean, Recorded, RecordConfig, Found, UseDhcp, Clean
<1>9. Clean(machine'[m].query, leases'[m]) /\ Clean(machine'[m].config, leases'[m])
  <2>1. Clean(machine'[m].query, leases[m]) /\ Clean(machine'[m].config, leases[m])
    BY <1>3, <1>4, <1>7, <1>8 DEF Configures, Away
  <2>2. QED
    BY <1>1, <2>1, CleanStays
<1>10. ASSUME machine'[m].disk = "blank" PROVE AllClean(m)'
  <2>1. machine[m].disk = "blank"
    BY <1>3, <1>7, <1>10 DEF Moves
  <2>2. reports[m] = {}
    BY <1>5, <2>1 DEF AtHome, SystemSeen, AgentSeen
  <2>3. QED
    BY <1>2, <1>4, <2>1, <2>2, AllCleanStays
<1>11. QED
  BY <1>9, <1>10

\* Until the first restart, and unless operators register addresses, a machine with
\* the disk first in its boot order is installed with no static address but the one
\* the pool keeps for it, and never without the netmask.
THEOREM StaticConfigReserved == ProvSpec => []StaticReserved
PROOF
<1>1. StaticInv => StaticReserved
  BY DEF StaticInv, StaticReserved, Clean
<1>2. ProvSpec => []RecordsInv
  BY ServerImplemented, RecordsInvariance, PTL
<1>3. QED
  BY ProvInvInit, ProvInvNext, HomeInvInit, HomeInvNext, StaticInvInit, StaticInvNext,
     <1>1, <1>2, PTL DEF ProvSpec

-----------------------------------------------------------------------------
(***************************************************************************)
(* Server and machines implement the installation.                         *)
(***************************************************************************)
\* What they show of it.
ByHand == {m \in MACs : machine[m].order = "menu"}
AtWork == {m \in MACs : machine[m].phase = "installer"}
WithSystem == {m \in MACs : Equipped(m)}
Done == {m \in MACs : Recorded(m) /\ nodes[m].status = Installed}

\* Apart from the installer's own steps, and what interrupts it, no step enters or
\* leaves it, and no disk changes.
Aside(m) == /\ UNCHANGED <<machine[m].order, machine[m].disk>>
            /\ machine'[m].phase = "installer" <=> machine[m].phase = "installer"

LEMMA StepsAside ==
    ASSUME TypeInv, ClientTypes, [ProvNext]_provVars, NEW m \in MACs,
           ~\E n \in MACs : FetchPreseed(n) \/ InstallerDone(n) \/ PowerFails(n) \/ Reboot(n)
    PROVE  Aside(m)
PROOF
<1>1. machine'[m] = machine[m] => Aside(m)
  BY DEF Aside
<1>2. ASSUME NEW n \in MACs, NEW from, NEW to, Goes(n, from, to),
             from # "installer" /\ to # "installer"
      PROVE  Aside(m)
  BY <1>1, <1>2, GoesMoves DEF Aside
<1>3. ASSUME NEW n \in MACs, \/ BootDisk(n) \/ BootNetwork(n) \/ FetchLocal(n)
                             \/ FetchInstall(n) \/ DhcpTimeout(n)
      PROVE  Aside(m)
  <2>1. PICK from, to : Goes(n, from, to) /\ from # "installer" /\ to # "installer"
    BY <1>3 DEF BootDisk, BootNetwork, FetchLocal, FetchInstall, DhcpTimeout
  <2>2. QED
    BY <1>2, <2>1
<1>4. ASSUME NEW n \in MACs, NEW ip, machine[n].phase # "installer",
             Becomes(n, [machine[n] EXCEPT !.phase = "loader", !.addr = ip])
      PROVE  Aside(m)
  <2> DEFINE new == [machine[n] EXCEPT !.phase = "loader", !.addr = ip]
  <2>1. machine[n] \in Machine /\ Becomes(n, new)
    BY <1>4 DEF ClientTypes
  <2>2. new.phase = "loader" /\ new.order = machine[n].order /\ new.disk = machine[n].disk
    BY <2>1 DEF Machine
  <2> HIDE DEF new
  <2>3. QED
    BY <1>1, <1>4, <2>1, <2>2, BecomesMoves DEF Aside
<1>5. ASSUME NEW n \in MACs, ReadParams(n)
      PROVE  Aside(m)
  <2> DEFINE new == [machine[n] EXCEPT !.phase = "kernel", !.query = netParams(n)]
  <2>1. machine[n].phase = "params" /\ machine[n] \in Machine /\ Becomes(n, new)
    BY <1>5 DEF ReadParams, ClientTypes
  <2>2. new.phase = "kernel" /\ new.order = machine[n].order /\ new.disk = machine[n].disk
    BY <2>1 DEF Machine
  <2> HIDE DEF new
  <2>3. QED
    BY <1>1, <2>1, <2>2, BecomesMoves DEF Aside
<1>6. ASSUME NEW n \in MACs, DhcpReplyArrives(n)
      PROVE  Aside(m)
  <2>1. PICK h \in Workers : Answered(h, n)
    BY <1>6 DEF DhcpReplyArrives
  <2>2. machine[n].phase # "installer"
    <3>1. tasks[h].type \in {"discover", "request", "none"} /\ machine[n].phase = tasks[h].type
      BY <2>1 DEF Answered, Awaited, Handler, TypeInv, TypeOK, TasksTypeOK, Task
    <3>2. QED
      BY <3>1
  <2>3. QED
    BY <1>2, <1>4, <2>1, <2>2 DEF Answered
<1>7. ASSUME NEW n \in MACs, ProxyBoot(n)
      PROVE  Aside(m)
  BY <1>4, <1>7 DEF ProxyBoot
<1>8. CASE StartAgain
  <2>1. machine[m] \in Machine
    BY DEF ClientTypes
  <2>2. \/ machine'[m] = machine[m]
        \/ machine[m].phase = "params" /\ machine'[m] = [machine[m] EXCEPT !.phase = "loader"]
    BY <1>8 DEF StartAgain
  <2>3. QED
    BY <1>1, <2>1, <2>2 DEF Machine, Aside
<1>9. CASE \/ \E h \in Workers : HandlerWork(h) \/ Register(h)
           \/ \E n \in MACs : \/ DhcpMessage(n) \/ Install(n) \/ SystemdStarts(n) \/ Reconnects(n)
                              \/ Connects(n) \/ Confirms(n) \/ Beats(n) \/ Disturbed(n)
                              \/ LoseReport(n) \/ ReportArrives(n)
           \/ ReportWork \/ Stop \/ UNCHANGED provVars
  <2>1. UNCHANGED machine
    BY <1>9 DEF HandlerWork, DhcpWork, DhcpReplyLost, ApiWork, Register, DhcpMessage, Install,
                SystemdStarts, Reconnects, Connects, Confirms, Beats, Disturbed, LoseReport,
                ReportArrives, OnSystem, ReportWork, Stop, provVars, clientVars
  <2>2. QED
    BY <1>1, <2>1
<1>10. QED
  BY <1>3, <1>5, <1>6, <1>7, <1>8, <1>9 DEF ProvNext, GoesOn, Boot

\* The installer's steps are steps of the abstract installer.
LEMMA InstallerInstalls ==
    ASSUME ClientTypes, HomeInv, InstallerOnlyOnRequest, NEW n \in MACs,
           FetchPreseed(n) \/ InstallerDone(n) \/ PowerFails(n) \/ Reboot(n)
    PROVE  Installs!Next \/ UNCHANGED <<authorised, ByHand, AtWork, WithSystem, Done>>
PROOF
<1>1. UNCHANGED <<authorised, Done>>
  <2>1. UNCHANGED vars
    BY MachineSteps DEF GoesOn, Boot
  <2>2. QED
    BY <2>1 DEF vars, storeVars, Done, Recorded
<1>2. machine[n] \in Machine
  BY DEF ClientTypes
<1>3. CASE FetchPreseed(n)
  <2>1. PICK config \in NetConfig :
           Becomes(n, [machine[n] EXCEPT !.phase = "installer", !.disk = "blank",
                                         !.config = config])
    BY <1>3 DEF FetchPreseed
  <2> DEFINE new == [machine[n] EXCEPT !.phase = "installer", !.disk = "blank", !.config = config]
  <2>2. new.phase = "installer" /\ new.disk = "blank" /\ new.order = machine[n].order
    BY <1>2 DEF Machine
  <2>3. machine[n].phase = "kernel" /\ Becomes(n, new)
    BY <1>3, <2>1 DEF FetchPreseed
  <2> HIDE DEF new
  <2>4. \A m \in MACs : machine'[m] = IF n = m THEN new ELSE machine[m]
    BY <2>3, BecomesMoves
  <2>5. UNCHANGED ByHand
    BY <2>2, <2>4 DEF ByHand
  <2>6. AtWork' = AtWork \cup {n} /\ WithSystem' = WithSystem \ {n}
    BY <1>3, <2>2, <2>4 DEF AtWork, WithSystem, Equipped, FetchPreseed, AgentErased,
                            ClientTypes, AgentTypeOK
  <2>7. n \in authorised \ AtWork
    BY <2>3 DEF InstallerOnlyOnRequest, AtWork
  <2>8. n \in Done => n \in ByHand
    BY <2>3 DEF HomeInv, SystemSeen, InstalledSeen, InstalledRecord, AtHome, Done, ByHand
  <2>9. Installs!Erase(n)
    BY <1>1, <2>5, <2>6, <2>7, <2>8 DEF Installs!Erase, ByHand, AtWork, WithSystem, Done
  <2>10. QED
    BY <2>9 DEF Installs!Next
<1>4. CASE InstallerDone(n)
  <2> DEFINE new == [machine[n] EXCEPT !.phase = "firmware", !.disk = "os"]
  <2>1. new.phase = "firmware" /\ new.disk = "os" /\ new.order = machine[n].order
    BY <1>2 DEF Machine
  <2>2. machine[n].phase = "installer" /\ Becomes(n, new)
    BY <1>4 DEF InstallerDone
  <2> HIDE DEF new
  <2>3. \A m \in MACs : machine'[m] = IF n = m THEN new ELSE machine[m]
    BY <2>2, BecomesMoves
  <2>4. UNCHANGED ByHand
    BY <2>1, <2>3 DEF ByHand
  <2>5. AtWork' = AtWork \ {n} /\ n \in AtWork
    BY <2>1, <2>2, <2>3 DEF AtWork
  <2>6. AgentInstalled(n) \/ UNCHANGED agentVars
    BY <1>4 DEF InstallerDone, LateCommand
  <2>7. CASE agent'[n] # "absent"
    <3>1. WithSystem' = WithSystem \cup {n}
      BY <2>1, <2>3, <2>6, <2>7 DEF WithSystem, Equipped, AgentInstalled, AgentMoves, agentVars,
                                   ClientTypes, AgentTypeOK
    <3>2. Installs!Complete(n)
      BY <1>1, <2>4, <2>5, <3>1 DEF Installs!Complete, ByHand, AtWork, WithSystem, Done
    <3>3. QED
      BY <3>2 DEF Installs!Next
  <2>8. CASE agent'[n] = "absent"
    <3>1. UNCHANGED agent /\ agent[n] = "absent"
      BY <2>6, <2>8 DEF AgentInstalled, AgentMoves, agentVars, ClientTypes, AgentTypeOK
    <3>2. UNCHANGED WithSystem
      BY <2>3, <3>1 DEF WithSystem, Equipped
    <3>3. Installs!BreakOff(n)
      BY <1>1, <2>4, <2>5, <3>2 DEF Installs!BreakOff, ByHand, AtWork, WithSystem, Done
    <3>4. QED
      BY <3>3 DEF Installs!Next
  <2>9. QED
    BY <2>7, <2>8
<1>5. CASE PowerFails(n) \/ Reboot(n)
  <2> DEFINE new == [machine[n] EXCEPT !.phase = "firmware"]
  <2>1. /\ new.phase = "firmware"
        /\ new.disk = machine[n].disk /\ new.order = machine[n].order
    BY <1>2 DEF Machine
  <2>2. Becomes(n, new)
    BY <1>5 DEF PowerFails, Reboot, StartsOver
  <2> HIDE DEF new
  <2>3. \A m \in MACs : machine'[m] = IF n = m THEN new ELSE machine[m]
    BY <2>2, BecomesMoves
  <2>4. UNCHANGED <<ByHand, WithSystem>>
    <3>1. UNCHANGED ByHand
      BY <2>1, <2>3 DEF ByHand
    <3>2. \A m \in MACs : agent'[m] = "absent" <=> agent[m] = "absent"
      BY <1>5 DEF PowerFails, Reboot, RebootCommand, AgentMoves, ClientTypes, AgentTypeOK
    <3>3. UNCHANGED WithSystem
      BY <2>1, <2>3, <3>2 DEF WithSystem, Equipped
    <3>4. QED
      BY <3>1, <3>3
  <2>5. AtWork' = AtWork \ {n}
    BY <2>1, <2>3 DEF AtWork
  <2>6. CASE n \in AtWork
    <3>1. Installs!BreakOff(n)
      BY <1>1, <2>4, <2>5, <2>6 DEF Installs!BreakOff, ByHand, AtWork, WithSystem, Done
    <3>2. QED
      BY <3>1 DEF Installs!Next
  <2>7. CASE n \notin AtWork
    BY <1>1, <2>4, <2>5, <2>7
  <2>8. QED
    BY <2>6, <2>7
<1>6. QED
  BY <1>3, <1>4, <1>5

\* Only an install request that commits authorises, and it leaves the machine not
\* installed.
LEMMA AuthorisedStep ==
    ASSUME TypeInv, [Next]_vars, authorised' # authorised
    PROVE  \E k \in MACs : authorised' = authorised \cup {k} /\ UNCHANGED Done
PROOF
<1>1. PICK h \in Workers : InstallUpdate(h)
  <2>1. CASE Api
    BY <2>1 DEF Api, ApiNext, RegisterReceive, RegisterSave, InstallReceive
  <2>2. CASE Dhcp \/ Mqtt \/ Shutdown \/ Restart \/ TimePasses \/ UNCHANGED vars
    BY <2>2 DEF Dhcp, Mqtt, Shutdown, Restart, TimePasses, vars
  <2>3. QED
    BY <2>1, <2>2 DEF Next
<1> DEFINE k == tasks[h].mac
           u == [nodes[k] EXCEPT !.status = Installing]
<1>2. k \in MACs
  BY <1>1, AtTask DEF InstallUpdate, Return, Continue, Handler
<1>3. authorised' = authorised \cup {k} /\ UpdateStatus(k, Installing)
  BY <1>1 DEF InstallUpdate
<1>4. nodes[k] \in Node /\ nodes[k].status # Installed
  <2>1. nodes[k] \in Node /\ CanTransitionTo(nodes[k].status, Installing)
    BY <1>2, <1>3 DEF UpdateStatus, Found, TypeInv, TypeOK, StoreTypeOK
  <2>2. nodes[k].status \in Status
    BY <2>1 DEF Node
  <2>3. QED
    BY <2>1, <2>2 DEF CanTransitionTo, stateTransitions, Status, Discovered, Installing, Installed
<1>5. nodes' = [nodes EXCEPT ![k] = u]
  BY <1>3 DEF UpdateStatus
<1>6. u.status # Installed
  BY <1>4 DEF Node, Installing, Installed
<1> HIDE DEF k, u
<1>7. \A m \in MACs : nodes'[m] = IF m = k THEN u ELSE nodes[m]
  BY <1>5 DEF TypeInv, TypeOK, StoreTypeOK
<1>8. Done' = Done
  BY <1>4, <1>6, <1>7 DEF Done, Recorded
<1>9. QED
  BY <1>2, <1>3, <1>8

\* The other steps write at most one record; what it then says, InstallAuthorised
\* and HomeInv allow.
LEMMA ServerInstalls ==
    ASSUME TypeInv, [Next]_vars, InstallAuthorised', HomeInv',
           UNCHANGED <<ByHand, AtWork, WithSystem>>
    PROVE  Installs!Next \/ UNCHANGED <<authorised, ByHand, AtWork, WithSystem, Done>>
PROOF
<1>1. CASE authorised' # authorised
  <2>1. PICK k \in MACs : authorised' = authorised \cup {k} /\ UNCHANGED Done
    BY <1>1, AuthorisedStep
  <2>2. Installs!Request(k)
    BY <2>1 DEF Installs!Request, ByHand, AtWork, WithSystem, Done
  <2>3. QED
    BY <2>2 DEF Installs!Next
<1>2. CASE authorised' = authorised /\ UNCHANGED nodes
  BY <1>2 DEF Done, Recorded
<1>3. CASE authorised' = authorised /\ \E k \in MACs : Written(k)
  <2>1. PICK k \in MACs : Written(k)
    BY <1>3
  <2>2. \A m \in MACs : m # k => nodes'[m] = nodes[m]
    BY <2>1 DEF Written, Save, UpdateStatus, TypeInv, TypeOK, StoreTypeOK
  <2>3. \A m \in MACs : m # k => (m \in Done' <=> m \in Done)
    BY <2>2 DEF Done, Recorded
  <2>4. CASE k \in Done'
    <3>1. Done' = Done \cup {k}
      BY <2>3, <2>4 DEF Done
    <3>2. k \in authorised
      BY <1>3, <2>4 DEF Done, InstallAuthorised, Recorded, Discovered, Installed
    <3>3. k \in WithSystem' \cup ByHand'
      BY <2>4 DEF HomeInv, SystemSeen, InstalledSeen, InstalledRecord, AtHome, Done,
                  WithSystem, Equipped, ByHand, Recorded
    <3>4. Installs!Record(k)
      BY <1>3, <3>1, <3>2, <3>3 DEF Installs!Record, ByHand, AtWork, WithSystem, Done
    <3>5. QED
      BY <3>4 DEF Installs!Next
  <2>5. CASE k \notin Done'
    <3>1. Done' = Done \ {k}
      BY <2>3, <2>5 DEF Done
    <3>2. Installs!Undo(k)
      BY <1>3, <3>1 DEF Installs!Undo, ByHand, AtWork, WithSystem, Done
    <3>3. QED
      BY <3>2 DEF Installs!Next
  <2>6. QED
    BY <2>4, <2>5
<1>4. QED
  BY <1>1, <1>2, <1>3, EveryWrite

\* For any number of machines and handlers: if agents do not report installing, server
\* and machines together implement the abstract installation.
THEOREM InstallationImplemented ==
    ASSUME Installing \notin Reports
    PROVE  ProvSpec => ImplementsInstallation
PROOF
<1>1. ProvInit => Installs!Init
  BY DEF ProvInit, Init, StoreInit, ApiInit, NewMachine, Recorded, Installs!Init
<1>2. ProvInv /\ HomeInv /\ HomeInv' /\ InstallAuthorised' /\ InstallerOnlyOnRequest
      /\ [ProvNext]_provVars => [Installs!Next]_Installs!installationVars
  <2> SUFFICES ASSUME TypeInv, ClientTypes, HomeInv, HomeInv', InstallAuthorised',
                      InstallerOnlyOnRequest, [ProvNext]_provVars
               PROVE  Installs!Next \/ UNCHANGED <<authorised, ByHand, AtWork, WithSystem, Done>>
    BY DEF ProvInv, Installs!installationVars, ByHand, AtWork, WithSystem, Done
  <2>1. CASE \E n \in MACs : FetchPreseed(n) \/ InstallerDone(n) \/ PowerFails(n) \/ Reboot(n)
    BY <2>1, InstallerInstalls
  <2>2. CASE ~\E n \in MACs : FetchPreseed(n) \/ InstallerDone(n) \/ PowerFails(n) \/ Reboot(n)
    <3>1. \A m \in MACs : Aside(m)
      BY <2>2, StepsAside
    <3>2. \A m \in MACs : agent'[m] = "absent" <=> agent[m] = "absent"
      BY <2>2, AgentStays
    <3>3. UNCHANGED <<ByHand, AtWork, WithSystem>>
      BY <3>1, <3>2 DEF Aside, ByHand, AtWork, WithSystem, Equipped
    <3>4. QED
      BY <3>3, StepImplemented, ServerInstalls
  <2>3. QED
    BY <2>1, <2>2
<1>3. ProvSpec => []InstallAuthorised
  BY ServerImplemented, InstallOnlyOnRequest, PTL
<1>4. ProvSpec => []InstallerOnlyOnRequest
  BY InstallerRequested, PTL
<1>5. ProvSpec => [](ProvInv /\ HomeInv)
  BY ProvInvInit, ProvInvNext, HomeInvInit, HomeInvNext, PTL DEF ProvSpec
<1>6. QED
  BY <1>1, <1>2, <1>3, <1>4, <1>5, PTL
     DEF ProvSpec, ImplementsInstallation, Installs!Spec
=============================================================================
