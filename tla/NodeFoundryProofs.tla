------------------------- MODULE NodeFoundryProofs -------------------------
(***************************************************************************)
(* Proofs about the server process, for any number of machines, handlers,  *)
(* addresses and restarts.                                                 *)
(***************************************************************************)
EXTENDS NodeFoundry, IPPoolProofs

\* What a handler about to save or answer holds: a record, and with a pool the
\* address of the answer.
WellFormed(t) ==
    /\ t.pc # "install_update" => t.node \in Node
    /\ HasPool /\ t.pc \in {"dhcp_persist", "dhcp_send"} => t.ip \in IPs

\* Inductive: the types, what the handlers hold, and the pool's agreement.
TypeInv ==
    /\ TypeOK
    /\ \A h \in Handler : tasks[h] # Idle => WellFormed(tasks[h])
    /\ IndexConsistent

-----------------------------------------------------------------------------
(***************************************************************************)
(* The helpers of the store and of the handlers.                           *)
(***************************************************************************)
LEMMA StoredIsNode ==
    ASSUME now \in Nat, StoreTypeOK, NEW m \in MACs, NEW node \in Node
    PROVE  Stored(m, node) \in Node /\ Stored(m, node).status = node.status
PROOF
<1>1. CASE nodes[m] = NoNode
  BY <1>1 DEF Stored, Node
<1>2. CASE nodes[m] # NoNode
  <2>1. nodes[m] \in Node
    BY <1>2 DEF StoreTypeOK
  <2>2. nodes[m].created \in Nat
    BY <2>1 DEF Node
  <2>3. QED
    BY <1>2, <2>2 DEF Stored, Node
<1>3. QED
  BY <1>1, <1>2

LEMMA SaveKeepsTypes ==
    ASSUME now \in Nat, StoreTypeOK, NEW m \in MACs, NEW node \in Node,
           Save(m, node) \/ SaveFails
    PROVE  StoreTypeOK'
PROOF
<1>1. CASE Save(m, node)
  BY <1>1, StoredIsNode DEF Save, StoreTypeOK
<1>2. CASE SaveFails
  BY <1>2 DEF SaveFails, storeVars, StoreTypeOK
<1>3. QED
  BY <1>1, <1>2

LEMMA UpdateStatusKeepsTypes ==
    ASSUME StoreTypeOK, NEW m \in MACs, UpdateStatus(m, Installing)
    PROVE  StoreTypeOK'
PROOF
<1>1. nodes[m] \in Node
  BY DEF UpdateStatus, Found, StoreTypeOK
<1>2. [nodes[m] EXCEPT !.status = Installing] \in Node
  BY <1>1 DEF Node, Status
<1>3. QED
  BY <1>2 DEF UpdateStatus, StoreTypeOK

LEMMA NewNodeIsNode ==
    ASSUME now \in Nat
    PROVE  NewNode \in Node
BY DEF NewNode, Node, Status

\* One handler's step to a well-formed task, or to Idle, keeps the tasks typed.
LEMMA TaskStep ==
    ASSUME TypeInv, NEW h \in Handler, NEW t \in Task \cup {Idle},
           t # Idle => WellFormed(t), tasks' = [tasks EXCEPT ![h] = t]
    PROVE  TasksTypeOK' /\ \A g \in Handler : tasks'[g] # Idle => WellFormed(tasks'[g])
BY DEF TypeInv, TypeOK, TasksTypeOK

\* A handler whose call does not return stays where it is.
LEMMA TaskStays ==
    ASSUME TypeInv, NEW h \in Handler, UNCHANGED tasks
    PROVE  tasks' = [tasks EXCEPT ![h] = tasks[h]]
BY DEF TypeInv, TypeOK, TasksTypeOK

\* A handler that is somewhere has a task, and the task is well formed.
LEMMA AtTask ==
    ASSUME TypeInv, NEW h \in Handler, NEW pc, At(h, pc)
    PROVE  /\ tasks[h] \in Task /\ tasks[h].pc = pc /\ tasks[h].mac \in MACs
           /\ WellFormed(tasks[h])
BY DEF TypeInv, TypeOK, TasksTypeOK, At, Task

\* The well-formedness of a task depends on nothing but the mode.
LEMMA WellFormedStays ==
    ASSUME \A h \in Handler : tasks'[h] # Idle => WellFormed(tasks'[h]), UNCHANGED mode
    PROVE  (\A h \in Handler : tasks[h] # Idle => WellFormed(tasks[h]))'
BY DEF WellFormed, HasPool

\* Components a step leaves alone keep their part of the invariant.
LEMMA Frames ==
    ASSUME TypeInv
    PROVE  /\ UNCHANGED now => now' \in Nat
           /\ UNCHANGED storeVars => StoreTypeOK'
           /\ UNCHANGED poolVars => PoolTypeOK' /\ IndexConsistent'
           /\ UNCHANGED dhcpVars => DhcpTypeOK' /\ UNCHANGED mode
           /\ UNCHANGED authorised => ApiTypeOK'
BY DEF TypeInv, TypeOK, StoreTypeOK, PoolTypeOK, IndexConsistent, DhcpTypeOK, ApiTypeOK,
       storeVars, poolVars, dhcpVars

LEMMA PoolInvHolds == TypeInv => PoolInv
BY DEF TypeInv, TypeOK, PoolInv

-----------------------------------------------------------------------------
(***************************************************************************)
(* Types: the steps of the DHCP handlers.                                  *)
(***************************************************************************)
\* The reply recorded in acked is one of the pool's addresses.
LEMMA SentKeepsTypes ==
    ASSUME TypeInv, NEW t \in Task, WellFormed(t), Sent(t),
           t.pc \in {"dhcp_persist", "dhcp_send"}
    PROVE  DhcpTypeOK' /\ UNCHANGED mode
PROOF
<1>1. t.mac \in MACs /\ now + LeaseTime \in Nat /\ boots \in Nat
  BY LeaseTimeAssumption DEF Task, TypeInv, TypeOK, DhcpTypeOK
<1>2. CASE HasPool /\ t.type = "request"
  <2>1. [ip |-> t.ip, until |-> now + LeaseTime, boot |-> boots] \in Ack
    BY <1>1, <1>2 DEF WellFormed, Ack
  <2>2. QED
    BY <1>1, <1>2, <2>1 DEF Sent, DhcpTypeOK, TypeInv, TypeOK
<1>3. CASE ~(HasPool /\ t.type = "request")
  BY <1>3 DEF Sent, DhcpTypeOK, TypeInv, TypeOK
<1>4. QED
  BY <1>2, <1>3

\* The copy that holds an address of the pool is a record.
LEMMA AssignedWellFormed ==
    ASSUME NEW t \in Task, t.node \in Node, NEW ip \in IPs
    PROVE  /\ Assigned(t, ip) \in Task /\ WellFormed(Assigned(t, ip))
           /\ Assigned(t, ip).mac = t.mac
           /\ Assigned(t, ip).node.status = t.node.status
PROOF
<1> DEFINE n == [t.node EXCEPT !.ip = ip, !.net = TRUE]
<1>1. n \in Node /\ n.status = t.node.status
  BY DEF Node
<1>2. CASE ip = UnspecifiedIP
  <2>1. Assigned(t, ip) = [t EXCEPT !.pc = "dhcp_send", !.ip = ip]
    BY <1>2 DEF Assigned
  <2>2. QED
    BY <2>1 DEF Task, WellFormed
<1>3. CASE ip # UnspecifiedIP
  <2>1. Assigned(t, ip) = [t EXCEPT !.pc = "dhcp_persist", !.ip = ip, !.node = n]
    BY <1>3 DEF Assigned
  <2> HIDE DEF n
  <2>2. QED
    BY <1>1, <2>1 DEF Task, WellFormed
<1>4. QED
  BY <1>2, <1>3

LEMMA DhcpReceiveTypes ==
    ASSUME TypeInv, NEW h \in Handler, DhcpReceive(h), UNCHANGED authorised
    PROVE  TypeInv'
PROOF
<1>1. PICK m \in MACs, type \in {"discover", "request"}, req \in RequestIPs \cup {NoIP} :
         Begin(h, [pc |-> "dhcp_save", mac |-> m, type |-> type, ip |-> req,
                   node |-> IF Found(m) THEN nodes[m] ELSE NewNode])
  BY DEF DhcpReceive
<1> DEFINE n == IF Found(m) THEN nodes[m] ELSE NewNode
           t == [pc |-> "dhcp_save", mac |-> m, type |-> type, ip |-> req, node |-> n]
<1>2. n \in Node
  BY NewNodeIsNode DEF Found, TypeInv, TypeOK, StoreTypeOK
<1> HIDE DEF n
<1>3. t \in Task /\ WellFormed(t)
  BY <1>2, RequestIPsAssumption DEF Task, WellFormed
<1>4. tasks' = [tasks EXCEPT ![h] = t]
  BY <1>1 DEF Begin, n
<1> HIDE DEF t
<1>5. TasksTypeOK' /\ \A g \in Handler : tasks'[g] # Idle => WellFormed(tasks'[g])
  BY <1>3, <1>4, TaskStep
<1>6. QED
  BY <1>5, WellFormedStays, Frames DEF DhcpReceive, TypeInv, TypeOK

LEMMA DhcpSaveTypes ==
    ASSUME TypeInv, NEW h \in Handler, DhcpSave(h), UNCHANGED authorised
    PROVE  TypeInv'
PROOF
<1>1. /\ At(h, "dhcp_save") /\ tasks[h] \in Task /\ tasks[h].mac \in MACs
      /\ tasks[h].node \in Node
  <2>1. At(h, "dhcp_save")
    BY DEF DhcpSave, Return, Continue
  <2>2. QED
    BY <2>1, AtTask DEF WellFormed
<1> DEFINE s == Stored(tasks[h].mac, tasks[h].node)
           t == [tasks[h] EXCEPT !.pc = "dhcp_build", !.node = s]
<1>2. s \in Node
  BY <1>1, StoredIsNode DEF TypeInv, TypeOK
<1>3. t \in Task /\ WellFormed(t)
  <2> HIDE DEF s
  <2>1. QED
    BY <1>1, <1>2 DEF Task, WellFormed
<1>4. /\ StoreTypeOK'
      /\ tasks' = [tasks EXCEPT ![h] = t] \/ tasks' = [tasks EXCEPT ![h] = Idle]
  BY <1>1, SaveKeepsTypes DEF DhcpSave, Continue, Return, TypeInv, TypeOK
<1> HIDE DEF t
<1>5. TasksTypeOK' /\ \A g \in Handler : tasks'[g] # Idle => WellFormed(tasks'[g])
  BY <1>3, <1>4, TaskStep
<1>6. QED
  BY <1>4, <1>5, WellFormedStays, Frames DEF DhcpSave, TypeInv, TypeOK

LEMMA DhcpBuildTypes ==
    ASSUME TypeInv, NEW h \in Handler, DhcpOffer(h) \/ DhcpAck(h), UNCHANGED authorised
    PROVE  TypeInv'
PROOF
<1>1. /\ tasks[h] \in Task /\ tasks[h].mac \in MACs /\ tasks[h].ip \in IPs \cup {NoIP}
      /\ tasks[h].node \in Node
  <2>1. At(h, "dhcp_build")
    BY DEF DhcpOffer, DhcpAck
  <2>2. tasks[h] \in Task /\ tasks[h].mac \in MACs /\ tasks[h].node \in Node
    BY <2>1, AtTask DEF WellFormed
  <2>3. QED
    BY <2>2 DEF Task
<1>2. PoolTypeOK' /\ IndexConsistent'
  BY <1>1, AllocateKeepsInv, HangKeepsInv, PoolInvHolds, Frames DEF DhcpOffer, DhcpAck
<1>3. \/ \E ip \in IPs : tasks' = [tasks EXCEPT ![h] = Assigned(tasks[h], ip)]
      \/ tasks' = [tasks EXCEPT ![h] = Idle]
      \/ UNCHANGED tasks
  BY DEF DhcpOffer, DhcpAck, Continue, Return
<1>4. TasksTypeOK' /\ \A g \in Handler : tasks'[g] # Idle => WellFormed(tasks'[g])
  <2>1. CASE tasks' = [tasks EXCEPT ![h] = Idle]
    BY <2>1, TaskStep
  <2>2. CASE \E ip \in IPs : tasks' = [tasks EXCEPT ![h] = Assigned(tasks[h], ip)]
    <3>1. PICK ip \in IPs : tasks' = [tasks EXCEPT ![h] = Assigned(tasks[h], ip)]
      BY <2>2
    <3>2. Assigned(tasks[h], ip) \in Task /\ WellFormed(Assigned(tasks[h], ip))
      BY <1>1, AssignedWellFormed
    <3>3. QED
      BY <3>1, <3>2, TaskStep
  <2>3. CASE UNCHANGED tasks
    BY <2>3 DEF TypeInv, TypeOK, TasksTypeOK
  <2>4. QED
    BY <1>3, <2>1, <2>2, <2>3
<1>5. QED
  BY <1>2, <1>4, WellFormedStays, Frames DEF DhcpOffer, DhcpAck, TypeInv, TypeOK

LEMMA DhcpReplyTypes ==
    ASSUME TypeInv, NEW h \in Handler, DhcpPersist(h) \/ DhcpSend(h), UNCHANGED authorised
    PROVE  TypeInv'
PROOF
<1>1. At(h, "dhcp_persist") \/ At(h, "dhcp_send")
  BY DEF DhcpPersist, DhcpSend, Return, Continue
<1>2. /\ tasks[h] \in Task /\ tasks[h].mac \in MACs /\ WellFormed(tasks[h])
      /\ tasks[h].pc \in {"dhcp_persist", "dhcp_send"}
  BY <1>1, AtTask
<1>3. tasks[h].node \in Node
  BY <1>2 DEF WellFormed
<1>4. StoreTypeOK'
  BY <1>2, <1>3, SaveKeepsTypes, Frames DEF DhcpPersist, DhcpSend, TypeInv, TypeOK
<1>5. DhcpTypeOK' /\ UNCHANGED mode
  BY <1>2, SentKeepsTypes DEF DhcpPersist, DhcpSend
<1>6. tasks' = [tasks EXCEPT ![h] = Idle]
  BY DEF DhcpPersist, DhcpSend, Return, Continue
<1>7. TasksTypeOK' /\ \A g \in Handler : tasks'[g] # Idle => WellFormed(tasks'[g])
  BY <1>6, TaskStep
<1>8. QED
  BY <1>4, <1>5, <1>7, WellFormedStays, Frames DEF DhcpPersist, DhcpSend, TypeInv, TypeOK

LEMMA DhcpEchoTypes ==
    ASSUME TypeInv, NEW h \in Handler, DhcpEcho(h), UNCHANGED authorised
    PROVE  TypeInv'
PROOF
<1>1. tasks[h] \in Task /\ tasks[h].node \in Node /\ ~HasPool
  BY AtTask DEF DhcpEcho, WellFormed, HasPool
<1> DEFINE t == [tasks[h] EXCEPT !.pc = "dhcp_send"]
<1>2. t \in Task /\ WellFormed(t)
  BY <1>1 DEF Task, WellFormed
<1>3. tasks' = [tasks EXCEPT ![h] = t]
  BY DEF DhcpEcho, Continue
<1> HIDE DEF t
<1>4. TasksTypeOK' /\ \A g \in Handler : tasks'[g] # Idle => WellFormed(tasks'[g])
  BY <1>2, <1>3, TaskStep
<1>5. QED
  BY <1>4, WellFormedStays, Frames DEF DhcpEcho, TypeInv, TypeOK

-----------------------------------------------------------------------------
(***************************************************************************)
(* Types: the steps of the HTTP and MQTT handlers.                         *)
(***************************************************************************)
\* A request is taken up with a well-formed task.
LEMMA ApiReceiveTypes ==
    ASSUME TypeInv, NEW h \in Handler, RegisterReceive(h) \/ InstallReceive(h),
           UNCHANGED <<poolVars, dhcpVars>>
    PROVE  TypeInv'
PROOF
<1>1. \E t \in Task : WellFormed(t) /\ tasks' = [tasks EXCEPT ![h] = t]
  <2>1. CASE RegisterReceive(h)
    <3>1. PICK m \in MACs, ip \in RegisterIPs \cup {NoIP} :
             Begin(h, Request("register_save", m, [NewNode EXCEPT !.ip = ip]))
      BY <2>1 DEF RegisterReceive
    <3>2. [NewNode EXCEPT !.ip = ip] \in Node
      BY NewNodeIsNode, ApiAssumption DEF TypeInv, TypeOK, Node
    <3>3. /\ Request("register_save", m, [NewNode EXCEPT !.ip = ip]) \in Task
          /\ WellFormed(Request("register_save", m, [NewNode EXCEPT !.ip = ip]))
      BY <3>2 DEF Request, Task, WellFormed
    <3>4. QED
      BY <3>1, <3>3 DEF Begin
  <2>2. CASE InstallReceive(h)
    <3>1. PICK m \in MACs : Begin(h, Request("install_update", m, NoNode))
      BY <2>2 DEF InstallReceive
    <3>2. /\ Request("install_update", m, NoNode) \in Task
          /\ WellFormed(Request("install_update", m, NoNode))
      BY DEF Request, Task, WellFormed
    <3>3. QED
      BY <3>1, <3>2 DEF Begin
  <2>3. QED
    BY <2>1, <2>2
<1>2. TasksTypeOK' /\ \A g \in Handler : tasks'[g] # Idle => WellFormed(tasks'[g])
  BY <1>1, TaskStep
<1>3. QED
  BY <1>2, WellFormedStays, Frames DEF RegisterReceive, InstallReceive, TypeInv, TypeOK

LEMMA ApiReplyTypes ==
    ASSUME TypeInv, NEW h \in Handler, RegisterSave(h) \/ InstallUpdate(h),
           UNCHANGED <<poolVars, dhcpVars>>
    PROVE  TypeInv'
PROOF
<1>1. At(h, "register_save") \/ At(h, "install_update")
  BY DEF RegisterSave, InstallUpdate, Return, Continue
<1>2. tasks[h].mac \in MACs
  BY <1>1, AtTask
<1>3. StoreTypeOK'
  <2>1. CASE RegisterSave(h)
    <3>1. tasks[h].node \in Node
      BY <2>1, AtTask DEF RegisterSave, Return, Continue, WellFormed
    <3>2. QED
      BY <1>2, <2>1, <3>1, SaveKeepsTypes DEF RegisterSave, TypeInv, TypeOK
  <2>2. CASE InstallUpdate(h)
    BY <1>2, <2>2, UpdateStatusKeepsTypes, Frames
       DEF InstallUpdate, UpdateStatusFails, TypeInv, TypeOK
  <2>3. QED
    BY <2>1, <2>2
<1>4. ApiTypeOK'
  BY <1>2 DEF RegisterSave, InstallUpdate, TypeInv, TypeOK, ApiTypeOK
<1>5. tasks' = [tasks EXCEPT ![h] = Idle]
  BY DEF RegisterSave, InstallUpdate, Return, Continue
<1>6. TasksTypeOK' /\ \A g \in Handler : tasks'[g] # Idle => WellFormed(tasks'[g])
  BY <1>5, TaskStep
<1>7. QED
  BY <1>3, <1>4, <1>6, WellFormedStays, Frames
     DEF RegisterSave, InstallUpdate, TypeInv, TypeOK

\* A report changes a copy of a record into a record; the status it leaves there
\* is the old one or the one reported.
LEMMA ReportedIsNode ==
    ASSUME now \in Nat, NEW node \in Node, NEW s \in Reports, NEW ip \in ReportIPs \cup {NoIP}
    PROVE  /\ Reported(node, s, ip) \in Node
           /\ Reported(node, s, ip).status # node.status
              => s = Reported(node, s, ip).status /\ CanTransitionTo(node.status, s)
PROOF
<1> DEFINE st == IF CanTransitionTo(node.status, s) THEN s ELSE node.status
           a  == IF ip = NoIP THEN node.ip ELSE ip
<1>1. st \in Status /\ a \in IPs \cup {NoIP}
  BY ReportsAssumption DEF Node
<1>2. st # node.status => s = st /\ CanTransitionTo(node.status, s)
  OBVIOUS
<1>3. Reported(node, s, ip) = [node EXCEPT !.status = st, !.heartbeat = now, !.ip = a]
  BY DEF Reported
<1> HIDE DEF st, a
<1>4. QED
  BY <1>1, <1>2, <1>3 DEF Node

LEMMA StatusTypes ==
    ASSUME TypeInv, StatusNext, UNCHANGED <<poolVars, dhcpVars, authorised>>
    PROVE  TypeInv'
PROOF
<1>1. MqttLoop \in Handler
  BY DEF Handler
<1>2. CASE ReportReceive
  <2>1. PICK m \in MACs, s \in Reports, ip \in ReportIPs \cup {NoIP} :
           /\ Found(m)
           /\ Begin(MqttLoop, [pc |-> "report_save", mac |-> m, type |-> "none",
                               ip |-> NoIP, node |-> Reported(nodes[m], s, ip)])
    BY <1>2 DEF ReportReceive
  <2> DEFINE n == Reported(nodes[m], s, ip)
             t == [pc |-> "report_save", mac |-> m, type |-> "none", ip |-> NoIP, node |-> n]
  <2>2. n \in Node
    BY <2>1, ReportedIsNode DEF Found, TypeInv, TypeOK, StoreTypeOK
  <2>3. tasks' = [tasks EXCEPT ![MqttLoop] = t]
    BY <2>1 DEF Begin
  <2> HIDE DEF n
  <2>4. t \in Task /\ WellFormed(t)
    BY <2>2 DEF Task, WellFormed
  <2> HIDE DEF t
  <2>5. TasksTypeOK' /\ \A g \in Handler : tasks'[g] # Idle => WellFormed(tasks'[g])
    BY <1>1, <2>3, <2>4, TaskStep
  <2>6. QED
    BY <1>2, <2>5, WellFormedStays, Frames DEF ReportReceive, TypeInv, TypeOK
<1>3. CASE ReportSave
  <2>1. tasks[MqttLoop].mac \in MACs /\ tasks[MqttLoop].node \in Node
    BY <1>1, <1>3, AtTask DEF ReportSave, Return, Continue, WellFormed
  <2>2. StoreTypeOK'
    BY <1>3, <2>1, SaveKeepsTypes DEF ReportSave, TypeInv, TypeOK
  <2>3. tasks' = [tasks EXCEPT ![MqttLoop] = Idle]
    BY <1>3 DEF ReportSave, Return, Continue
  <2>4. TasksTypeOK' /\ \A g \in Handler : tasks'[g] # Idle => WellFormed(tasks'[g])
    BY <1>1, <2>3, TaskStep
  <2>5. QED
    BY <1>3, <2>2, <2>4, WellFormedStays, Frames DEF ReportSave, TypeInv, TypeOK
<1>4. QED
  BY <1>2, <1>3 DEF StatusNext

-----------------------------------------------------------------------------
(***************************************************************************)
(* Type correctness.                                                       *)
(***************************************************************************)
LEMMA ProcessTypes ==
    ASSUME TypeInv, Shutdown \/ Restart \/ TimePasses \/ UNCHANGED vars
    PROVE  TypeInv'
PROOF
<1>1. CASE Shutdown
  BY <1>1 DEF Shutdown, Close, TypeInv, TypeOK, StoreTypeOK, PoolTypeOK, IndexConsistent,
              TasksTypeOK, DhcpTypeOK, ApiTypeOK, WellFormed, HasPool, poolVars, dhcpVars
<1>2. CASE Restart
  <2>1. StoreTypeOK' /\ DhcpTypeOK' /\ ApiTypeOK' /\ now' \in Nat
    BY <1>2 DEF Restart, TypeInv, TypeOK, StoreTypeOK, DhcpTypeOK, ApiTypeOK
  <2>2. PoolTypeOK' /\ IndexConsistent'
    BY <1>2, NoMACAssumption
       DEF Restart, EmptyLeases, EmptyAllocated, PoolTypeOK, IndexConsistent
  <2>3. TasksTypeOK' /\ \A h \in Handler : tasks'[h] = Idle
    BY <1>2 DEF Restart, TasksTypeOK
  <2>4. QED
    BY <2>1, <2>2, <2>3 DEF TypeInv, TypeOK
<1>3. CASE TimePasses
  BY <1>3 DEF TimePasses, Tick, TypeInv, TypeOK, StoreTypeOK, PoolTypeOK, IndexConsistent,
              TasksTypeOK, DhcpTypeOK, ApiTypeOK, WellFormed, HasPool, storeVars,
              poolVars, dhcpVars
<1>4. CASE UNCHANGED vars
  BY <1>4 DEF vars, TypeInv, TypeOK, StoreTypeOK, PoolTypeOK, IndexConsistent,
              TasksTypeOK, DhcpTypeOK, ApiTypeOK, WellFormed, HasPool, storeVars,
              poolVars, dhcpVars
<1>5. QED
  BY <1>1, <1>2, <1>3, <1>4

LEMMA TypeInvInit == Init => TypeInv
BY NoMACAssumption, PoolInvInit
   DEF Init, ClockInit, StoreInit, PoolInit, EmptyLeases, EmptyAllocated, TasksInit, DhcpInit,
       ApiInit, TypeInv, TypeOK, StoreTypeOK, PoolTypeOK, TasksTypeOK, DhcpTypeOK, ApiTypeOK,
       PoolInv

LEMMA TypeInvNext == TypeInv /\ [Next]_vars => TypeInv'
PROOF
<1> SUFFICES ASSUME TypeInv, [Next]_vars PROVE TypeInv'
  OBVIOUS
<1>1. CASE Dhcp
  <2>1. PICK h \in Handler : DhcpNext(h) /\ UNCHANGED authorised
    BY <1>1 DEF Dhcp, Handler
  <2>2. QED
    BY <2>1, DhcpReceiveTypes, DhcpSaveTypes, DhcpBuildTypes, DhcpEchoTypes, DhcpReplyTypes
       DEF DhcpNext
<1>2. CASE Api
  <2>1. PICK h \in Handler : ApiNext(h) /\ UNCHANGED <<poolVars, dhcpVars>>
    BY <1>2 DEF Api, Handler
  <2>2. QED
    BY <2>1, ApiReceiveTypes, ApiReplyTypes DEF ApiNext
<1>3. CASE Mqtt
  BY <1>3, StatusTypes DEF Mqtt
<1>4. CASE Shutdown \/ Restart \/ TimePasses \/ UNCHANGED vars
  BY <1>4, ProcessTypes
<1>5. QED
  BY <1>1, <1>2, <1>3, <1>4 DEF Next

LEMMA TypeInvariance == Spec => []TypeInv
BY TypeInvInit, TypeInvNext, PTL DEF Spec

\* Every variable of the server keeps its type.
THEOREM TypeCorrect == Spec => []TypeOK
PROOF
<1>1. TypeInv => TypeOK
  BY DEF TypeInv
<1>2. QED
  BY TypeInvariance, <1>1, PTL

-----------------------------------------------------------------------------
(***************************************************************************)
(* No machine is installed without a request.                              *)
(***************************************************************************)
\* InstallAuthorised is not inductive: a handler may write back a copy it took
\* long ago.  The copies have to satisfy it too.
CopiesAuthorised ==
    \A h \in Handler :
       tasks[h] # Idle /\ tasks[h].node # NoNode /\ tasks[h].node.status # Discovered
       => tasks[h].mac \in authorised

\* A copy of the stored record, or a new record, is covered by an install
\* request when it is not discovered.
LEMMA CopyAuthorised ==
    ASSUME InstallAuthorised, NEW m \in MACs,
           NEW n, n = IF Found(m) THEN nodes[m] ELSE NewNode, n.status # Discovered
    PROVE  m \in authorised
BY DEF InstallAuthorised, Recorded, Found, NewNode

\* Saving a covered copy leaves every record covered.
LEMMA SaveKeepsAuthorised ==
    ASSUME TypeInv, InstallAuthorised, NEW m \in MACs, NEW node \in Node,
           node.status # Discovered => m \in authorised,
           Save(m, node) \/ SaveFails, UNCHANGED authorised
    PROVE  InstallAuthorised'
PROOF
<1>1. CASE Save(m, node)
  <2>1. Stored(m, node).status = node.status
    BY StoredIsNode DEF TypeInv, TypeOK
  <2>2. nodes' = [nodes EXCEPT ![m] = Stored(m, node)]
    BY <1>1 DEF Save
  <2>3. QED
    BY <2>1, <2>2 DEF InstallAuthorised, Recorded, TypeInv, TypeOK, StoreTypeOK
<1>2. CASE SaveFails
  BY <1>2 DEF SaveFails, storeVars, InstallAuthorised, Recorded
<1>3. QED
  BY <1>1, <1>2

\* A handler's step to a covered task, or to Idle, keeps the copies covered.
LEMMA TaskStepAuthorised ==
    ASSUME TypeInv, CopiesAuthorised, NEW h \in Handler, NEW t,
           tasks' = [tasks EXCEPT ![h] = t], authorised \subseteq authorised',
           t # Idle /\ t.node # NoNode /\ t.node.status # Discovered => t.mac \in authorised
    PROVE  CopiesAuthorised'
BY DEF TypeInv, TypeOK, TasksTypeOK, CopiesAuthorised

LEMMA DhcpAuthorised ==
    ASSUME TypeInv, InstallAuthorised, CopiesAuthorised,
           NEW h \in Handler, DhcpNext(h), UNCHANGED authorised
    PROVE  InstallAuthorised' /\ CopiesAuthorised'
PROOF
<1> USE DEF Continue, Return, Begin
<1>1. ASSUME NEW pc, At(h, pc), pc # "install_update"
      PROVE  /\ tasks[h] \in Task /\ tasks[h].mac \in MACs /\ tasks[h].node \in Node
             /\ tasks[h] # Idle /\ tasks[h].node # NoNode
             /\ tasks[h].node.status # Discovered => tasks[h].mac \in authorised
  BY <1>1, AtTask, NoNodeAssumption DEF WellFormed, CopiesAuthorised, At
<1>2. CASE DhcpReceive(h)
  <2>1. PICK m \in MACs, type \in {"discover", "request"}, req \in RequestIPs \cup {NoIP} :
           tasks' = [tasks EXCEPT ![h] =
                       [pc |-> "dhcp_save", mac |-> m, type |-> type, ip |-> req,
                        node |-> IF Found(m) THEN nodes[m] ELSE NewNode]]
    BY <1>2 DEF DhcpReceive
  <2>2. CopiesAuthorised'
    BY <2>1, CopyAuthorised, TaskStepAuthorised
  <2>3. QED
    BY <1>2, <2>2 DEF DhcpReceive, storeVars, InstallAuthorised, Recorded
<1>3. CASE DhcpSave(h)
  <2>1. At(h, "dhcp_save")
    BY <1>3 DEF DhcpSave
  <2> DEFINE s == Stored(tasks[h].mac, tasks[h].node)
             t == [tasks[h] EXCEPT !.pc = "dhcp_build", !.node = s]
  <2>2. InstallAuthorised'
    BY <1>1, <1>3, <2>1, SaveKeepsAuthorised DEF DhcpSave
  <2>3. t.node.status = tasks[h].node.status /\ t.mac = tasks[h].mac
    BY <1>1, <2>1, StoredIsNode DEF TypeInv, TypeOK, Task
  <2>4. tasks' = [tasks EXCEPT ![h] = t] \/ tasks' = [tasks EXCEPT ![h] = Idle]
    BY <1>3 DEF DhcpSave
  <2> HIDE DEF t
  <2>5. CopiesAuthorised'
    BY <1>1, <2>1, <2>3, <2>4, TaskStepAuthorised
  <2>6. QED
    BY <2>2, <2>5
<1>4. CASE DhcpOffer(h) \/ DhcpAck(h)
  <2>1. At(h, "dhcp_build")
    BY <1>4 DEF DhcpOffer, DhcpAck
  <2>2. \/ \E ip \in IPs : tasks' = [tasks EXCEPT ![h] = Assigned(tasks[h], ip)]
        \/ tasks' = [tasks EXCEPT ![h] = Idle]
        \/ UNCHANGED tasks
    BY <1>4 DEF DhcpOffer, DhcpAck
  <2>3. \A ip \in IPs : /\ Assigned(tasks[h], ip).mac = tasks[h].mac
                        /\ Assigned(tasks[h], ip).node.status = tasks[h].node.status
    BY <1>1, <2>1, AssignedWellFormed
  <2>4. CopiesAuthorised'
    <3>1. CASE UNCHANGED tasks
      BY <3>1 DEF CopiesAuthorised
    <3>2. QED
      BY <1>1, <2>1, <2>2, <2>3, <3>1, TaskStepAuthorised
  <2>5. QED
    BY <1>4, <2>4 DEF DhcpOffer, DhcpAck, storeVars, InstallAuthorised, Recorded
<1>5. CASE DhcpEcho(h)
  <2> DEFINE t == [tasks[h] EXCEPT !.pc = "dhcp_send"]
  <2>1. At(h, "dhcp_build") /\ tasks' = [tasks EXCEPT ![h] = t]
    BY <1>5 DEF DhcpEcho
  <2>2. t.node = tasks[h].node /\ t.mac = tasks[h].mac
    BY <1>1, <2>1 DEF Task
  <2> HIDE DEF t
  <2>3. CopiesAuthorised'
    BY <1>1, <2>1, <2>2, TaskStepAuthorised
  <2>4. QED
    BY <1>5, <2>3 DEF DhcpEcho, storeVars, InstallAuthorised, Recorded
<1>6. CASE DhcpPersist(h) \/ DhcpSend(h)
  <2>1. tasks' = [tasks EXCEPT ![h] = Idle]
    BY <1>6 DEF DhcpPersist, DhcpSend
  <2>2. CopiesAuthorised'
    BY <2>1, TaskStepAuthorised
  <2>3. CASE DhcpPersist(h)
    BY <1>1, <2>2, <2>3, SaveKeepsAuthorised DEF DhcpPersist
  <2>4. CASE DhcpSend(h)
    BY <2>2, <2>4 DEF DhcpSend, storeVars, InstallAuthorised, Recorded
  <2>5. QED
    BY <1>6, <2>3, <2>4
<1>7. QED
  BY <1>2, <1>3, <1>4, <1>5, <1>6 DEF DhcpNext

LEMMA ApiAuthorised ==
    ASSUME TypeInv, InstallAuthorised, CopiesAuthorised, NEW h \in Handler, ApiNext(h)
    PROVE  InstallAuthorised' /\ CopiesAuthorised'
PROOF
<1> USE DEF Continue, Return, Begin
<1>1. CASE RegisterReceive(h)
  <2>1. PICK m \in MACs, ip \in RegisterIPs \cup {NoIP} :
           tasks' = [tasks EXCEPT ![h] =
                       Request("register_save", m, [NewNode EXCEPT !.ip = ip])]
    BY <1>1 DEF RegisterReceive
  <2>2. Request("register_save", m, [NewNode EXCEPT !.ip = ip]).node.status = Discovered
    BY DEF Request, NewNode
  <2>3. CopiesAuthorised'
    BY <1>1, <2>1, <2>2, TaskStepAuthorised DEF RegisterReceive
  <2>4. QED
    BY <1>1, <2>3 DEF RegisterReceive, storeVars, InstallAuthorised, Recorded
<1>2. CASE RegisterSave(h)
  <2>1. At(h, "register_save") /\ tasks' = [tasks EXCEPT ![h] = Idle]
    BY <1>2 DEF RegisterSave
  <2>2. /\ tasks[h].mac \in MACs /\ tasks[h].node \in Node
        /\ tasks[h].node.status # Discovered => tasks[h].mac \in authorised
    BY <2>1, AtTask, NoNodeAssumption DEF WellFormed, CopiesAuthorised, At
  <2>3. CopiesAuthorised'
    BY <1>2, <2>1, TaskStepAuthorised DEF RegisterSave
  <2>4. QED
    BY <1>2, <2>2, <2>3, SaveKeepsAuthorised DEF RegisterSave
<1>3. CASE InstallReceive(h)
  <2>1. PICK m \in MACs : tasks' = [tasks EXCEPT ![h] = Request("install_update", m, NoNode)]
    BY <1>3 DEF InstallReceive
  <2>2. CopiesAuthorised'
    BY <1>3, <2>1, TaskStepAuthorised DEF InstallReceive, Request
  <2>3. QED
    BY <1>3, <2>2 DEF InstallReceive, storeVars, InstallAuthorised, Recorded
<1>4. CASE InstallUpdate(h)
  <2>1. At(h, "install_update") /\ tasks' = [tasks EXCEPT ![h] = Idle]
    BY <1>4 DEF InstallUpdate
  <2>2. authorised \subseteq authorised'
    BY <1>4 DEF InstallUpdate
  <2>3. CopiesAuthorised'
    BY <2>1, <2>2, TaskStepAuthorised
  <2>4. CASE UpdateStatus(tasks[h].mac, Installing) /\ authorised' = authorised \cup {tasks[h].mac}
    <3>1. tasks[h].mac \in MACs
      BY <2>1, AtTask
    <3>2. QED
      BY <2>3, <2>4, <3>1
         DEF UpdateStatus, InstallAuthorised, Recorded, TypeInv, TypeOK, StoreTypeOK
  <2>5. CASE UpdateStatusFails(tasks[h].mac, Installing) /\ UNCHANGED authorised
    BY <2>3, <2>5 DEF UpdateStatusFails, storeVars, InstallAuthorised, Recorded
  <2>6. QED
    BY <1>4, <2>4, <2>5 DEF InstallUpdate
<1>5. QED
  BY <1>1, <1>2, <1>3, <1>4 DEF ApiNext

\* A report other than installing can only complete an installation: it takes no
\* machine out of the status discovered.
LEMMA ReportKeepsDiscovered ==
    ASSUME NEW s, s # Installing, CanTransitionTo(Discovered, s)
    PROVE  s = Discovered
BY DEF CanTransitionTo, stateTransitions, Status, Discovered, Installing, Installed

LEMMA StatusAuthorised ==
    ASSUME TypeInv, InstallAuthorised, CopiesAuthorised, Installing \notin Reports,
           StatusNext, UNCHANGED authorised
    PROVE  InstallAuthorised' /\ CopiesAuthorised'
PROOF
<1> USE DEF Continue, Return, Begin
<1>1. MqttLoop \in Handler
  BY DEF Handler
<1>2. CASE ReportReceive
  <2>1. PICK m \in MACs, s \in Reports, ip \in ReportIPs \cup {NoIP} :
           /\ Found(m)
           /\ tasks' = [tasks EXCEPT ![MqttLoop] =
                          [pc |-> "report_save", mac |-> m, type |-> "none",
                           ip |-> NoIP, node |-> Reported(nodes[m], s, ip)]]
    BY <1>2 DEF ReportReceive
  <2>2. nodes[m] \in Node /\ (nodes[m].status # Discovered => m \in authorised)
    BY <2>1 DEF Found, InstallAuthorised, Recorded, TypeInv, TypeOK, StoreTypeOK
  <2>3. Reported(nodes[m], s, ip).status # Discovered => m \in authorised
    BY <2>2, ReportedIsNode, ReportKeepsDiscovered DEF TypeInv, TypeOK
  <2>4. CopiesAuthorised'
    BY <1>1, <2>1, <2>3, TaskStepAuthorised
  <2>5. QED
    BY <1>2, <2>4 DEF ReportReceive, storeVars, InstallAuthorised, Recorded
<1>3. CASE ReportSave
  <2>1. At(MqttLoop, "report_save") /\ tasks' = [tasks EXCEPT ![MqttLoop] = Idle]
    BY <1>3 DEF ReportSave
  <2>2. /\ tasks[MqttLoop].mac \in MACs /\ tasks[MqttLoop].node \in Node
        /\ tasks[MqttLoop].node.status # Discovered => tasks[MqttLoop].mac \in authorised
    BY <1>1, <2>1, AtTask, NoNodeAssumption DEF WellFormed, CopiesAuthorised, At
  <2>3. CopiesAuthorised'
    BY <1>1, <2>1, TaskStepAuthorised
  <2>4. QED
    BY <1>3, <2>2, <2>3, SaveKeepsAuthorised DEF ReportSave
<1>4. QED
  BY <1>2, <1>3 DEF StatusNext

\* As long as no agent reports installing, and the agent of this repository does
\* not, a machine leaves discovered only on an operator's request.
THEOREM InstallOnlyOnRequest ==
    ASSUME Installing \notin Reports
    PROVE  Spec => []InstallAuthorised
PROOF
<1> DEFINE Covered == InstallAuthorised /\ CopiesAuthorised
<1>1. Init => Covered
  BY DEF Init, StoreInit, TasksInit, InstallAuthorised, Recorded, CopiesAuthorised
<1>2. TypeInv /\ Covered /\ [Next]_vars => Covered'
  <2> SUFFICES ASSUME TypeInv, InstallAuthorised, CopiesAuthorised, [Next]_vars
               PROVE  InstallAuthorised' /\ CopiesAuthorised'
    OBVIOUS
  <2>1. CASE Dhcp
    <3>1. PICK h \in Handler : DhcpNext(h) /\ UNCHANGED authorised
      BY <2>1 DEF Dhcp, Handler
    <3>2. QED
      BY <3>1, DhcpAuthorised
  <2>2. CASE Api
    <3>1. PICK h \in Handler : ApiNext(h)
      BY <2>2 DEF Api, Handler
    <3>2. QED
      BY <3>1, ApiAuthorised
  <2>3. CASE Mqtt
    BY <2>3, StatusAuthorised DEF Mqtt
  <2>4. CASE Restart
    BY <2>4 DEF Restart, InstallAuthorised, Recorded, CopiesAuthorised
  <2>5. CASE Shutdown \/ TimePasses \/ UNCHANGED vars
    BY <2>5 DEF Shutdown, Close, TimePasses, vars, storeVars,
                InstallAuthorised, Recorded, CopiesAuthorised
  <2>6. QED
    BY <2>1, <2>2, <2>3, <2>4, <2>5 DEF Next
<1>3. Covered => InstallAuthorised
  OBVIOUS
<1> HIDE DEF Covered
<1>4. QED
  BY TypeInvariance, <1>1, <1>2, <1>3, PTL DEF Spec

-----------------------------------------------------------------------------
(***************************************************************************)
(* No address is acknowledged to two machines.                             *)
(***************************************************************************)
\* The handlers' part of the invariant: a handler that is about to answer holds
\* an address the pool has given to its machine.
AnswersOwned ==
    \A h \in Handler :
       HasPool /\ tasks[h] # Idle /\ tasks[h].pc \in {"dhcp_persist", "dhcp_send"}
       => allocated[tasks[h].ip] = tasks[h].mac

\* The clients' part: what this run of the server has acknowledged is still
\* theirs in the pool.  Earlier runs are bounded away, their book is gone.
AcksOwned ==
    \A m \in MACs :
       acked[m] # NotAcked
       => acked[m].boot <= boots /\ (acked[m].boot = boots => allocated[acked[m].ip] = m)

Owned == AnswersOwned /\ AcksOwned /\ AckedUnique

\* An address that has an owner keeps it until the server restarts.
OwnersKept == \A i \in IPs : allocated[i] # NoMAC => allocated'[i] = allocated[i]

\* A step that sends no answer, takes no address away and adds no handler that
\* is about to answer for an address its machine does not own.
LEMMA QuietStep ==
    ASSUME TypeInv, Owned, OwnersKept, UNCHANGED dhcpVars,
           NEW h \in Handler, NEW t, tasks' = [tasks EXCEPT ![h] = t],
           HasPool /\ t # Idle /\ t.pc \in {"dhcp_persist", "dhcp_send"}
              => allocated'[t.ip] = t.mac
    PROVE  Owned'
PROOF
<1>1. AnswersOwned'
  <2> SUFFICES ASSUME NEW g \in Handler, HasPool, tasks'[g] # Idle,
                      tasks'[g].pc \in {"dhcp_persist", "dhcp_send"}
               PROVE  allocated'[tasks'[g].ip] = tasks'[g].mac
    BY DEF AnswersOwned, HasPool, dhcpVars
  <2>1. CASE g = h
    BY <2>1 DEF TypeInv, TypeOK, TasksTypeOK
  <2>2. CASE g # h
    <3>1. tasks'[g] = tasks[g] /\ tasks[g] \in Task
      BY <2>2 DEF TypeInv, TypeOK, TasksTypeOK
    <3>2. tasks[g].ip \in IPs /\ tasks[g].mac \in MACs /\ allocated[tasks[g].ip] = tasks[g].mac
      BY <3>1 DEF Owned, AnswersOwned, TypeInv, WellFormed, Task
    <3>3. QED
      BY <3>1, <3>2, NoMACAssumption DEF OwnersKept
  <2>3. QED
    BY <2>1, <2>2
<1>2. AcksOwned'
  <2>1. \A m \in MACs : acked[m] # NotAcked => acked[m].ip \in IPs
    BY DEF TypeInv, TypeOK, DhcpTypeOK, Ack
  <2>2. QED
    BY <2>1, NoMACAssumption DEF Owned, AcksOwned, OwnersKept, dhcpVars
<1>3. AckedUnique'
  BY DEF Owned, AckedUnique, dhcpVars
<1>4. QED
  BY <1>1, <1>2, <1>3 DEF Owned

\* The answer itself: the pool has given the address to this machine, so to no
\* other that was acknowledged it.
LEMMA AnswerStep ==
    ASSUME TypeInv, Owned, NEW h \in Handler, UNCHANGED poolVars,
           At(h, "dhcp_persist") \/ At(h, "dhcp_send"),
           tasks' = [tasks EXCEPT ![h] = Idle], Sent(tasks[h])
    PROVE  Owned'
PROOF
<1>1. /\ tasks[h] \in Task /\ tasks[h].mac \in MACs /\ WellFormed(tasks[h]) /\ tasks[h] # Idle
      /\ tasks[h].pc \in {"dhcp_persist", "dhcp_send"}
  BY AtTask, IdleAssumption
<1>2. AnswersOwned'
  BY DEF Owned, AnswersOwned, Sent, HasPool, poolVars, TypeInv, TypeOK, TasksTypeOK
<1>3. CASE ~(HasPool /\ tasks[h].type = "request")
  BY <1>2, <1>3 DEF Sent, Owned, AcksOwned, AckedUnique, poolVars
<1>4. CASE HasPool /\ tasks[h].type = "request"
  <2> DEFINE m == tasks[h].mac
             a == [ip |-> tasks[h].ip, until |-> now + LeaseTime, boot |-> boots]
  <2>1. allocated[a.ip] = m /\ a.boot = boots /\ boots \in Nat
    BY <1>1, <1>4 DEF Owned, AnswersOwned, TypeInv, TypeOK, DhcpTypeOK
  <2>2. acked' = [acked EXCEPT ![m] = a] /\ boots' = boots /\ allocated' = allocated
    BY <1>4 DEF Sent, poolVars
  <2> HIDE DEF m, a
  <2>3. \A n \in MACs : acked'[n] = IF n = m THEN a ELSE acked[n]
    BY <2>2 DEF TypeInv, TypeOK, DhcpTypeOK
  <2>4. AcksOwned'
    BY <2>1, <2>2, <2>3 DEF Owned, AcksOwned
  <2>5. ASSUME NEW n \in MACs, n # m, acked[n] # NotAcked, acked[n].boot = a.boot
        PROVE  acked[n].ip # a.ip
    BY <2>1, <2>5 DEF Owned, AcksOwned
  <2>6. AckedUnique'
    BY <2>3, <2>5 DEF Owned, AckedUnique
  <2>7. QED
    BY <1>2, <2>4, <2>6 DEF Owned
<1>5. QED
  BY <1>3, <1>4

LEMMA DhcpOwned ==
    ASSUME TypeInv, Owned, NEW h \in Handler, DhcpNext(h)
    PROVE  Owned'
PROOF
<1> USE DEF Continue, Return, Begin
<1>1. UNCHANGED poolVars => OwnersKept
  BY DEF poolVars, OwnersKept
<1>2. CASE DhcpReceive(h)
  <2>1. PICK m \in MACs, type \in {"discover", "request"}, req \in RequestIPs \cup {NoIP} :
           tasks' = [tasks EXCEPT ![h] =
                       [pc |-> "dhcp_save", mac |-> m, type |-> type, ip |-> req,
                        node |-> IF Found(m) THEN nodes[m] ELSE NewNode]]
    BY <1>2 DEF DhcpReceive
  <2>2. QED
    BY <1>1, <1>2, <2>1, QuietStep DEF DhcpReceive
<1>3. CASE DhcpSave(h)
  <2> DEFINE t == [tasks[h] EXCEPT !.pc = "dhcp_build",
                                   !.node = Stored(tasks[h].mac, tasks[h].node)]
  <2>1. tasks' = [tasks EXCEPT ![h] = t] \/ tasks' = [tasks EXCEPT ![h] = Idle]
    BY <1>3 DEF DhcpSave
  <2>2. t.pc = "dhcp_build"
    BY <1>3, AtTask DEF DhcpSave, Task
  <2> HIDE DEF t
  <2>3. QED
    BY <1>1, <1>3, <2>1, <2>2, QuietStep DEF DhcpSave
<1>4. CASE DhcpOffer(h) \/ DhcpAck(h)
  <2>1. /\ tasks[h] \in Task /\ tasks[h].mac \in MACs /\ tasks[h].ip \in IPs \cup {NoIP}
        /\ tasks[h].node \in Node
    <3>1. tasks[h] \in Task /\ tasks[h].mac \in MACs /\ tasks[h].node \in Node
      BY <1>4, AtTask DEF DhcpOffer, DhcpAck, WellFormed
    <3>2. QED
      BY <3>1 DEF Task
  <2>2. OwnersKept
    BY <1>1, <1>4, <2>1, AllocateKeepsOwners, PoolInvHolds
       DEF DhcpOffer, DhcpAck, OwnersKept, ScanForever
  <2>3. \/ tasks' = [tasks EXCEPT ![h] = Idle]
        \/ tasks' = [tasks EXCEPT ![h] = tasks[h]] /\ tasks[h].pc = "dhcp_build"
        \/ \E ip \in IPs : /\ tasks' = [tasks EXCEPT ![h] = Assigned(tasks[h], ip)]
                           /\ allocated'[ip] = tasks[h].mac
    <3>1. CASE DhcpOffer(h)
      <4>1. ASSUME NEW ip \in IPs, AllocateIP(tasks[h].mac, tasks[h].ip, ip)
            PROVE  allocated'[ip] = tasks[h].mac
        <5>1. IndexConsistent'
          BY <2>1, <4>1, AllocateKeepsInv, PoolInvHolds
        <5>2. leases'[tasks[h].mac] # NoLease /\ leases'[tasks[h].mac].ip = ip
          BY <2>1, <4>1, AllocateReserves, PoolInvHolds
        <5>3. QED
          BY <2>1, <5>1, <5>2 DEF IndexConsistent
      <4>2. CASE UNCHANGED tasks
        BY <3>1, <4>2, AtTask, TaskStays DEF DhcpOffer
      <4>3. QED
        BY <3>1, <4>1, <4>2 DEF DhcpOffer
    <3>2. CASE DhcpAck(h)
      <4>1. ASSUME NEW ip \in IPs, GetLease(tasks[h].mac, ip)
            PROVE  allocated[ip] = tasks[h].mac
        BY <2>1, <4>1 DEF GetLease, TypeInv, IndexConsistent
      <4>2. QED
        BY <3>2, <4>1 DEF DhcpAck, poolVars
    <3>3. QED
      BY <1>4, <3>1, <3>2
  <2>4. \A ip \in IPs : Assigned(tasks[h], ip).mac = tasks[h].mac
    BY <2>1, AssignedWellFormed
  <2>5. \A ip \in IPs : Assigned(tasks[h], ip).ip = ip
    BY <2>1 DEF Assigned, Task
  <2>6. QED
    BY <1>4, <2>2, <2>3, <2>4, <2>5, QuietStep DEF DhcpOffer, DhcpAck
<1>5. CASE DhcpEcho(h)
  BY <1>1, <1>5, QuietStep DEF DhcpEcho, HasPool
<1>6. CASE DhcpPersist(h) \/ DhcpSend(h)
  BY <1>6, AnswerStep DEF DhcpPersist, DhcpSend
<1>7. QED
  BY <1>2, <1>3, <1>4, <1>5, <1>6 DEF DhcpNext

LEMMA OwnedInvariance == Spec => []Owned
PROOF
<1>1. Init => Owned
  BY DEF Init, TasksInit, DhcpInit, Owned, AnswersOwned, AcksOwned, AckedUnique
<1>2. TypeInv /\ Owned /\ [Next]_vars => Owned'
  <2> SUFFICES ASSUME TypeInv, Owned, [Next]_vars PROVE Owned'
    OBVIOUS
  <2>1. CASE Dhcp
    <3>1. PICK h \in Handler : DhcpNext(h)
      BY <2>1 DEF Dhcp, Handler
    <3>2. QED
      BY <3>1, DhcpOwned
  <2>2. UNCHANGED poolVars => OwnersKept
    BY DEF poolVars, OwnersKept
  <2>3. CASE Api
    <3>1. PICK h \in Handler : ApiNext(h) /\ UNCHANGED <<poolVars, dhcpVars>>
      BY <2>3 DEF Api, Handler
    <3>2. \/ tasks' = [tasks EXCEPT ![h] = Idle]
          \/ \E m, n : tasks' = [tasks EXCEPT ![h] = Request("register_save", m, n)]
          \/ \E m : tasks' = [tasks EXCEPT ![h] = Request("install_update", m, NoNode)]
      BY <3>1 DEF ApiNext, RegisterReceive, RegisterSave, InstallReceive, InstallUpdate,
                  Begin, Return, Continue
    <3>3. QED
      BY <2>2, <3>1, <3>2, QuietStep DEF Request
  <2>4. CASE Mqtt
    <3>1. MqttLoop \in Handler /\ UNCHANGED <<poolVars, dhcpVars>>
      BY <2>4 DEF Mqtt, Handler
    <3>2. \/ tasks' = [tasks EXCEPT ![MqttLoop] = Idle]
          \/ \E m, n : tasks' = [tasks EXCEPT ![MqttLoop] =
                                   [pc |-> "report_save", mac |-> m, type |-> "none",
                                    ip |-> NoIP, node |-> n]]
      BY <2>4 DEF Mqtt, StatusNext, ReportReceive, ReportSave, Begin, Return, Continue
    <3>3. QED
      BY <2>2, <3>1, <3>2, QuietStep
  <2>5. CASE Restart
    <3>1. \A m \in MACs : acked[m] # NotAcked => acked[m].boot \in Nat
      BY DEF TypeInv, TypeOK, DhcpTypeOK, Ack
    <3>2. QED
      BY <2>5, <3>1 DEF Restart, Owned, AnswersOwned, AcksOwned, AckedUnique,
                        TypeInv, TypeOK, DhcpTypeOK
  <2>6. CASE Shutdown \/ TimePasses \/ UNCHANGED vars
    BY <2>6 DEF Shutdown, TimePasses, vars, poolVars, dhcpVars,
                HasPool, Owned, AnswersOwned, AcksOwned, AckedUnique
  <2>7. QED
    BY <2>1, <2>3, <2>4, <2>5, <2>6 DEF Next
<1> HIDE DEF Owned
<1>3. QED
  BY TypeInvariance, <1>1, <1>2, PTL DEF Spec

\* Within one run of the server no two machines are acknowledged the same
\* address.
THEOREM AddressesAckedUnique == Spec => []AckedUnique
PROOF
<1>1. Owned => AckedUnique
  BY DEF Owned
<1>2. QED
  BY OwnedInvariance, <1>1, PTL

-----------------------------------------------------------------------------
(***************************************************************************)
(* The server implements the address service.                              *)
(***************************************************************************)
LEMMA DhcpServes ==
    ASSUME TypeInv, Owned, NEW h \in Handler, DhcpNext(h)
    PROVE  Service!Next \/ UNCHANGED <<boots, allocated, Told>>
PROOF
<1> USE DEF Continue, Return, Begin
<1>1. UNCHANGED acked => UNCHANGED Told
  BY DEF Told
<1>2. CASE DhcpReceive(h) \/ DhcpSave(h) \/ DhcpAck(h) \/ DhcpEcho(h)
  BY <1>1, <1>2 DEF DhcpReceive, DhcpSave, DhcpAck, DhcpEcho, poolVars, dhcpVars
<1>3. CASE DhcpOffer(h)
  <2>1. tasks[h].mac \in MACs /\ tasks[h].ip \in IPs \cup {NoIP}
    BY <1>3, AtTask DEF DhcpOffer, Task
  <2>2. UNCHANGED <<boots, acked>>
    BY <1>3 DEF DhcpOffer, dhcpVars
  <2>3. CASE UNCHANGED poolVars
    BY <1>1, <2>2, <2>3 DEF poolVars
  <2>4. CASE \E ip \in IPs : AllocateIP(tasks[h].mac, tasks[h].ip, ip)
    <3>1. PICK ip \in IPs : AllocateIP(tasks[h].mac, tasks[h].ip, ip)
      BY <2>4
    <3>2. UNCHANGED allocated \/ Book!Grant(tasks[h].mac, ip)
      BY <2>1, <3>1, AllocateGrants, PoolInvHolds
    <3>3. Book!Grant(tasks[h].mac, ip) => Service!Give(tasks[h].mac, ip)
      BY <1>1, <2>2 DEF Book!Grant, Service!Give, Service!Book!Grant
    <3>4. QED
      BY <1>1, <2>1, <2>2, <3>2, <3>3 DEF Service!Next
  <2>5. CASE ScanForever(tasks[h].mac, tasks[h].ip)
    BY <1>1, <2>2, <2>5 DEF ScanForever
  <2>6. QED
    BY <1>3, <2>3, <2>4, <2>5 DEF DhcpOffer
<1>4. CASE DhcpPersist(h) \/ DhcpSend(h)
  <2> DEFINE m == tasks[h].mac
             i == tasks[h].ip
  <2>1. /\ tasks[h] # Idle /\ tasks[h].pc \in {"dhcp_persist", "dhcp_send"}
        /\ m \in MACs /\ (HasPool => i \in IPs)
    BY <1>4, AtTask DEF DhcpPersist, DhcpSend, At, WellFormed
  <2>2. Sent(tasks[h]) /\ UNCHANGED <<boots, allocated>>
    BY <1>4 DEF DhcpPersist, DhcpSend, Sent, poolVars
  <2>3. CASE ~(HasPool /\ tasks[h].type = "request")
    BY <1>1, <2>2, <2>3 DEF Sent
  <2>4. CASE HasPool /\ tasks[h].type = "request"
    <3> DEFINE a == [ip |-> i, until |-> now + LeaseTime, boot |-> boots]
    <3>1. acked' = [acked EXCEPT ![m] = a]
      BY <2>2, <2>4 DEF Sent
    <3>2. a.ip = i /\ a.boot = boots /\ a # NotAcked
      <4>1. a \in Ack
        BY <2>1, <2>4, LeaseTimeAssumption DEF Ack, TypeInv, TypeOK, DhcpTypeOK
      <4>2. QED
        BY <4>1, NotAckedAssumption
    <3>3. allocated[i] = m
      BY <2>1, <2>4 DEF Owned, AnswersOwned
    <3> HIDE DEF a, m, i
    <3>4. \A n \in MACs : acked'[n] = IF n = m THEN a ELSE acked[n]
      BY <3>1 DEF TypeInv, TypeOK, DhcpTypeOK
    <3>5. Told' = [Told EXCEPT ![m] = [address |-> i, run |-> boots]]
      BY <3>2, <3>4 DEF Told
    <3>6. Service!Tell(m, i)
      BY <2>2, <3>3, <3>5 DEF Service!Tell
    <3>7. QED
      BY <2>1, <2>4, <3>6 DEF Service!Next, i, m
  <2>5. QED
    BY <2>3, <2>4
<1>5. QED
  BY <1>2, <1>3, <1>4 DEF DhcpNext

\* With any number of machines, handlers, addresses and restarts the server tells
\* a machine only what the pool of this run has given it, and takes no address
\* back before the run ends.
THEOREM ServerServesAddresses == Spec => ServesAddresses
PROOF
<1>1. Init => Service!Init
  BY DEF Init, PoolInit, EmptyAllocated, DhcpInit, Told, Service!Init, Service!Book!Init
<1>2. TypeInv /\ Owned /\ [Next]_vars => [Service!Next]_<<boots, allocated, Told>>
  <2> SUFFICES ASSUME TypeInv, Owned, [Next]_vars
               PROVE  Service!Next \/ UNCHANGED <<boots, allocated, Told>>
    OBVIOUS
  <2>1. UNCHANGED acked => UNCHANGED Told
    BY DEF Told
  <2>2. CASE Dhcp
    <3>1. PICK h \in Handler : DhcpNext(h)
      BY <2>2 DEF Dhcp, Handler
    <3>2. QED
      BY <3>1, DhcpServes
  <2>3. CASE Api \/ Mqtt \/ Shutdown \/ TimePasses \/ UNCHANGED vars
    BY <2>1, <2>3 DEF Api, Mqtt, Shutdown, TimePasses, vars, poolVars, dhcpVars
  <2>4. CASE Restart
    BY <2>1, <2>4 DEF Restart, EmptyAllocated, Service!Next, Service!StartOver
  <2>5. QED
    BY <2>2, <2>3, <2>4 DEF Next
<1>3. QED
  BY TypeInvariance, OwnedInvariance, <1>1, <1>2, PTL
     DEF Spec, ServesAddresses, Service!Spec, Service!serviceVars
=============================================================================
