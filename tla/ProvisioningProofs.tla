------------------------- MODULE ProvisioningProofs -------------------------
(***************************************************************************)
(* Proofs about the server together with the machines it installs: the     *)
(* server keeps its specification, whatever the machines do.               *)
(***************************************************************************)
EXTENDS Provisioning, NodeFoundryProofs

-----------------------------------------------------------------------------
(***************************************************************************)
(* Every step of the whole is a step of the server, or none of it.         *)
(***************************************************************************)
LEMMA MachineSteps ==
    ASSUME NEW m \in MACs, GoesOn(m) \/ PowerFails(m) \/ Reboot(m) \/ Connects(m)
                           \/ Confirms(m) \/ Beats(m) \/ Disturbed(m) \/ LoseReport(m)
    PROVE  UNCHANGED vars
PROOF
<1>1. CASE Boot(m) \/ DhcpTimeout(m)
  BY <1>1 DEF Boot, ProxyBoot, BootDisk, BootNetwork, FetchInstall, FetchLocal, ReadParams,
              FetchPreseed, InstallerDone, DhcpTimeout
<1>2. CASE PowerFails(m) \/ Reboot(m) \/ LoseReport(m)
  BY <1>2 DEF PowerFails, Reboot, LoseReport
<1>3. CASE SystemdStarts(m) \/ Reconnects(m) \/ Connects(m) \/ Confirms(m) \/ Beats(m)
           \/ Disturbed(m)
  BY <1>3 DEF SystemdStarts, Reconnects, Connects, Confirms, Beats, Disturbed, OnSystem
<1>4. QED
  BY <1>1, <1>2, <1>3 DEF GoesOn

LEMMA StepImplemented == [ProvNext]_provVars => [Next]_vars
PROOF
<1> SUFFICES ASSUME [ProvNext]_provVars PROVE [Next]_vars
  OBVIOUS
<1>1. CASE \E h \in Workers : HandlerWork(h) \/ Register(h)
  <2>1. PICK h \in Workers : HandlerWork(h) \/ Register(h)
    BY <1>1
  <2>2. CASE DhcpWork(h) \/ DhcpReplyLost(h)
    BY <2>2 DEF DhcpWork, DhcpReplyLost, DhcpReply, Dhcp, DhcpNext, Next
  <2>3. CASE ApiWork(h) \/ Register(h)
    BY <2>3 DEF ApiWork, Register, Api, ApiNext, Next
  <2>4. QED
    BY <2>1, <2>2, <2>3 DEF HandlerWork
<1>2. CASE \E m \in MACs : DhcpMessage(m) \/ DhcpReplyArrives(m)
  <2>1. PICK m \in MACs, h \in Workers :
             \/ DhcpReceive(h) /\ UNCHANGED authorised
             \/ DhcpReply(h)
    BY <1>2 DEF DhcpMessage, DhcpReplyArrives
  <2>2. QED
    BY <2>1 DEF DhcpReply, Dhcp, DhcpNext, Next
<1>3. CASE \E m \in MACs : Install(m)
  BY <1>3 DEF Install, Api, ApiNext, Next
<1>4. CASE \E m \in MACs : ReportArrives(m)
  BY <1>4 DEF ReportArrives, Mqtt, StatusNext, Next
<1>5. CASE \E m \in MACs : GoesOn(m) \/ PowerFails(m) \/ Reboot(m) \/ Connects(m)
                           \/ Confirms(m) \/ Beats(m) \/ Disturbed(m) \/ LoseReport(m)
  BY <1>5, MachineSteps
<1>6. CASE ReportWork
  BY <1>6 DEF ReportWork, Mqtt, StatusNext, Next
<1>7. CASE Stop \/ StartAgain
  BY <1>7 DEF Stop, StartAgain, Next
<1>8. CASE UNCHANGED provVars
  BY <1>8 DEF provVars
<1>9. QED
  BY <1>1, <1>2, <1>3, <1>4, <1>5, <1>6, <1>7, <1>8 DEF ProvNext

\* The server with its machines implements the specification of the server alone,
\* in which anybody may send it anything: whatever is proved of that holds here.
THEOREM ServerImplemented == ProvSpec => Spec
PROOF
<1>1. ProvInit => Init
  BY DEF ProvInit
<1>2. QED
  BY <1>1, StepImplemented, PTL DEF ProvSpec, Spec

-----------------------------------------------------------------------------
(***************************************************************************)
(* Types.                                                                  *)
(***************************************************************************)
ClientTypes == /\ AgentTypeOK
               /\ machine \in [MACs -> Machine]
               /\ resets \in [MACs -> 0..MaxResets]

LEMMA BecomesTyped ==
    ASSUME machine \in [MACs -> Machine], NEW m \in MACs, NEW new \in Machine, Becomes(m, new)
    PROVE  machine' \in [MACs -> Machine]
BY DEF Becomes

LEMMA GoesTyped ==
    ASSUME machine \in [MACs -> Machine], NEW m \in MACs, NEW from, NEW to \in Phase,
           Goes(m, from, to)
    PROVE  machine' \in [MACs -> Machine]
PROOF
<1>1. machine[m] \in Machine
  OBVIOUS
<1>2. [machine[m] EXCEPT !.phase = to] \in Machine
  BY <1>1 DEF Machine
<1>3. QED
  BY <1>2, BecomesTyped DEF Goes

LEMMA RecordConfigTyped ==
    ASSUME TypeInv, NEW m \in MACs
    PROVE  netParams(m) \in NetConfig
BY DEF netParams, RecordConfig, UseDhcp, NetConfig, TypeInv, TypeOK, StoreTypeOK, Found, Node

LEMMA StartsOverTyped ==
    ASSUME ClientTypes, NEW m \in MACs, StartsOver(m)
    PROVE  machine' \in [MACs -> Machine] /\ resets' \in [MACs -> 0..MaxResets]
PROOF
<1>1. [machine[m] EXCEPT !.phase = "firmware"] \in Machine
  BY DEF ClientTypes, Machine, Phase
<1>2. machine' \in [MACs -> Machine]
  BY <1>1, BecomesTyped DEF ClientTypes, StartsOver
<1>3. resets[m] + 1 \in 0..MaxResets
  BY MaxResetsAssumption DEF ClientTypes, StartsOver
<1>4. QED
  BY <1>2, <1>3 DEF ClientTypes, StartsOver

LEMMA SystemIPTyped ==
    ASSUME ClientTypes, NEW m \in MACs
    PROVE  SystemIP(m) \in IPs \cup {NoIP}
PROOF
<1>1. machine[m] \in Machine
  BY DEF ClientTypes
<1>2. QED
  BY <1>1 DEF SystemIP, Machine, NetConfig

LEMMA BootTypes ==
    ASSUME TypeInv, ClientTypes, NEW m \in MACs, Boot(m) \/ DhcpTimeout(m)
    PROVE  ClientTypes'
PROOF
<1>1. UNCHANGED resets
  BY DEF Boot, ProxyBoot, BootDisk, BootNetwork, FetchInstall, FetchLocal, ReadParams,
         FetchPreseed, InstallerDone, DhcpTimeout
<1>2. machine[m] \in Machine
  BY DEF ClientTypes
<1>3. AgentTypeOK'
  <2>1. CASE ProxyBoot(m) \/ BootDisk(m) \/ BootNetwork(m) \/ FetchInstall(m) \/ FetchLocal(m)
             \/ ReadParams(m) \/ DhcpTimeout(m)
    BY <2>1 DEF ProxyBoot, BootDisk, BootNetwork, FetchInstall, FetchLocal, ReadParams,
                DhcpTimeout, agentVars, ClientTypes, AgentTypeOK
  <2>2. CASE FetchPreseed(m) \/ InstallerDone(m)
    BY <2>2 DEF FetchPreseed, InstallerDone, LateCommand, AgentErased, AgentInstalled,
                AgentMoves, agentVars, ClientTypes, AgentTypeOK, AgentState
  <2>3. QED
    BY <2>1, <2>2 DEF Boot
<1>4. CASE BootDisk(m) \/ BootNetwork(m) \/ FetchInstall(m) \/ FetchLocal(m) \/ DhcpTimeout(m)
  <2>1. PICK from, to \in Phase : Goes(m, from, to)
    BY <1>4 DEF BootDisk, BootNetwork, FetchInstall, FetchLocal, DhcpTimeout, Phase
  <2>2. machine' \in [MACs -> Machine]
    BY <2>1, GoesTyped DEF ClientTypes
  <2>3. QED
    BY <1>1, <1>3, <2>2 DEF ClientTypes
<1>5. CASE ProxyBoot(m) \/ ReadParams(m) \/ FetchPreseed(m) \/ InstallerDone(m)
  <2> SUFFICES machine' \in [MACs -> Machine]
    BY <1>1, <1>3 DEF ClientTypes
  <2>1. CASE ProxyBoot(m)
    <3>1. [machine[m] EXCEPT !.phase = "loader", !.addr = OtherIP] \in Machine
      BY <1>2, OtherIPAssumption DEF Machine, Phase
    <3>2. QED
      BY <2>1, <3>1, BecomesTyped DEF ProxyBoot, ClientTypes
  <2>2. CASE ReadParams(m)
    <3>1. [machine[m] EXCEPT !.phase = "kernel", !.query = netParams(m)] \in Machine
      BY <1>2, RecordConfigTyped DEF Machine, Phase
    <3>2. QED
      BY <2>2, <3>1, BecomesTyped DEF ReadParams, ClientTypes
  <2>3. CASE FetchPreseed(m)
    <3>1. PICK config \in NetConfig :
               Becomes(m, [machine[m] EXCEPT !.phase = "installer", !.disk = "blank",
                                             !.config = config])
      BY <2>3 DEF FetchPreseed
    <3>2. [machine[m] EXCEPT !.phase = "installer", !.disk = "blank", !.config = config]
             \in Machine
      BY <1>2 DEF Machine, Phase
    <3>3. QED
      BY <3>1, <3>2, BecomesTyped DEF ClientTypes
  <2>4. CASE InstallerDone(m)
    <3>1. [machine[m] EXCEPT !.phase = "firmware", !.disk = "os"] \in Machine
      BY <1>2 DEF Machine, Phase
    <3>2. QED
      BY <2>4, <3>1, BecomesTyped DEF InstallerDone, ClientTypes
  <2>5. QED
    BY <1>5, <2>1, <2>2, <2>3, <2>4
<1>6. QED
  BY <1>4, <1>5 DEF Boot

LEMMA AgentTypes ==
    ASSUME ClientTypes, NEW m \in MACs,
           SystemdStarts(m) \/ Reconnects(m) \/ Connects(m) \/ Confirms(m) \/ Beats(m)
           \/ Disturbed(m) \/ LoseReport(m)
    PROVE  ClientTypes'
PROOF
<1>1. UNCHANGED <<machine, resets>>
  BY DEF SystemdStarts, Reconnects, Connects, Confirms, Beats, Disturbed, LoseReport, OnSystem
<1>2. SystemIP(m) \in IPs \cup {NoIP}
  BY SystemIPTyped
<1>3. AgentTypeOK
  BY DEF ClientTypes
<1>4. CASE SystemdStarts(m) \/ Reconnects(m) \/ Connects(m) \/ Disturbed(m)
  <2>1. AgentTypeOK'
    BY <1>3, <1>4 DEF SystemdStarts, Reconnects, Connects, Disturbed, AgentStart, AgentConnect,
                      AgentEnds, AgentLosesLink, AgentReconnects, AgentMoves, AgentTypeOK,
                      AgentState
  <2>2. QED
    BY <1>1, <2>1 DEF ClientTypes
<1>5. CASE Confirms(m) \/ Beats(m) \/ LoseReport(m)
  <2>1. AgentTypeOK'
    BY <1>2, <1>3, <1>5 DEF Confirms, Beats, LoseReport, AgentConfirm, Heartbeat, ReportLost,
                            Publish, AgentMoves, AgentTypeOK, AgentState
  <2>2. QED
    BY <1>1, <2>1 DEF ClientTypes
<1>6. QED
  BY <1>4, <1>5

LEMMA ResetTypes ==
    ASSUME ClientTypes, NEW m \in MACs, PowerFails(m) \/ Reboot(m)
    PROVE  ClientTypes'
PROOF
<1>1. machine' \in [MACs -> Machine] /\ resets' \in [MACs -> 0..MaxResets]
  BY StartsOverTyped DEF PowerFails, Reboot
<1>2. AgentTypeOK'
  BY DEF ClientTypes, PowerFails, Reboot, RebootCommand, AgentMoves, AgentTypeOK, AgentState
<1>3. QED
  BY <1>1, <1>2 DEF ClientTypes

LEMMA ServerStepTypes ==
    ASSUME TypeInv, ClientTypes, NEW m \in MACs,
           DhcpReplyArrives(m) \/ ReportArrives(m) \/ StartAgain
    PROVE  ClientTypes'
PROOF
<1>1. machine[m] \in Machine
  BY DEF ClientTypes
<1>2. CASE DhcpReplyArrives(m)
  <2>1. PICK h \in Workers : Answered(h, m)
    BY <1>2 DEF DhcpReplyArrives
  <2>2. CASE Goes(m, "discover", "request")
    <3>1. machine' \in [MACs -> Machine]
      BY <2>2, GoesTyped DEF ClientTypes, Phase
    <3>2. QED
      BY <2>1, <3>1 DEF Answered, ClientTypes, AgentTypeOK, agentVars
  <2>3. CASE Becomes(m, [machine[m] EXCEPT !.phase = "loader", !.addr = tasks[h].ip])
    <3>1. tasks[h].ip \in IPs \cup {NoIP}
      BY <2>1 DEF Answered, Awaited, TypeInv, TypeOK, TasksTypeOK, Handler, Task
    <3>2. [machine[m] EXCEPT !.phase = "loader", !.addr = tasks[h].ip] \in Machine
      BY <1>1, <3>1 DEF Machine, Phase
    <3>3. machine' \in [MACs -> Machine]
      BY <2>3, <3>2, BecomesTyped DEF ClientTypes
    <3>4. QED
      BY <2>1, <3>3 DEF Answered, ClientTypes, AgentTypeOK, agentVars
  <2>4. QED
    BY <2>1, <2>2, <2>3 DEF Answered
<1>3. CASE ReportArrives(m)
  BY <1>3 DEF ReportArrives, ClientTypes, AgentTypeOK
<1>4. CASE StartAgain
  <2>1. \A n \in MACs : [machine[n] EXCEPT !.phase = "loader"] \in Machine
    BY DEF ClientTypes, Machine, Phase
  <2>2. machine' \in [MACs -> Machine]
    BY <1>4, <2>1 DEF StartAgain, ClientTypes
  <2>3. QED
    BY <1>4, <2>2 DEF StartAgain, ClientTypes, AgentTypeOK, agentVars
<1>5. QED
  BY <1>2, <1>3, <1>4

ProvInv == TypeInv /\ ClientTypes

LEMMA ProvInvInit == ProvInit => ProvInv
PROOF
<1> SUFFICES ASSUME ProvInit PROVE ProvInv
  OBVIOUS
<1>1. TypeInv
  BY TypeInvInit DEF ProvInit
<1>2. AgentTypeOK /\ resets \in [MACs -> 0..MaxResets]
  BY MaxResetsAssumption DEF ProvInit, AgentInit, AgentTypeOK, AgentState
<1>3. \A o \in BootOrders, d \in {"blank", "os"} : NewMachine(o, d) \in Machine
  BY OtherIPAssumption DEF NewMachine, Machine, Phase, NetConfig, UseDhcp
<1>4. machine \in [MACs -> Machine]
  BY <1>3 DEF ProvInit
<1>5. QED
  BY <1>1, <1>2, <1>4 DEF ProvInv, ClientTypes

LEMMA ProvInvNext == ProvInv /\ [ProvNext]_provVars => ProvInv'
PROOF
<1> SUFFICES ASSUME TypeInv, ClientTypes, [ProvNext]_provVars PROVE ProvInv'
  BY DEF ProvInv
<1>1. TypeInv'
  BY StepImplemented, TypeInvNext
<1>2. CASE UNCHANGED clientVars
  BY <1>1, <1>2 DEF clientVars, agentVars, ProvInv, ClientTypes, AgentTypeOK
<1>3. CASE \E m \in MACs : \/ GoesOn(m) \/ PowerFails(m) \/ Reboot(m) \/ Connects(m)
                           \/ Confirms(m) \/ Beats(m) \/ Disturbed(m) \/ LoseReport(m)
                           \/ DhcpReplyArrives(m) \/ ReportArrives(m)
  BY <1>1, <1>3, BootTypes, AgentTypes, ResetTypes, ServerStepTypes DEF GoesOn, ProvInv
<1>4. CASE StartAgain
  <2>1. CASE MACs = {}
    BY <1>1, <1>4, <2>1 DEF StartAgain, ProvInv, ClientTypes, AgentTypeOK, agentVars
  <2>2. CASE MACs # {}
    BY <1>1, <1>4, <2>2, ServerStepTypes DEF ProvInv
  <2>3. QED
    BY <2>1, <2>2
<1>5. CASE \/ \E h \in Workers : HandlerWork(h) \/ Register(h)
           \/ \E m \in MACs : DhcpMessage(m) \/ Install(m)
           \/ ReportWork \/ Stop \/ UNCHANGED provVars
  <2>1. UNCHANGED clientVars
    BY <1>5 DEF HandlerWork, DhcpWork, DhcpReplyLost, ApiWork, Register, DhcpMessage, Install,
                ReportWork, Stop, provVars
  <2>2. QED
    BY <1>2, <2>1
<1>6. QED
  BY <1>3, <1>4, <1>5 DEF ProvNext

\* Every variable of the server and of the machines keeps its type.
THEOREM ProvTypeCorrect == ProvSpec => []ProvTypeOK
PROOF
<1>1. ProvInv => ProvTypeOK
  BY DEF ProvInv, ClientTypes, TypeInv, ProvTypeOK
<1>2. QED
  BY ProvInvInit, ProvInvNext, <1>1, PTL DEF ProvSpec

-----------------------------------------------------------------------------
(***************************************************************************)
(* No disk is erased without a request.                                    *)
(***************************************************************************)
LEMMA AuthorisedKept == [Next]_vars => authorised \subseteq authorised'
PROOF
<1> SUFFICES ASSUME [Next]_vars PROVE authorised \subseteq authorised'
  OBVIOUS
<1>1. CASE Api
  BY <1>1 DEF Api, ApiNext, RegisterReceive, RegisterSave, InstallReceive, InstallUpdate
<1>2. CASE Dhcp \/ Mqtt \/ Shutdown \/ Restart \/ TimePasses \/ UNCHANGED vars
  BY <1>2 DEF Dhcp, Mqtt, Shutdown, Restart, TimePasses, vars
<1>3. QED
  BY <1>1, <1>2 DEF Next

Started == {"params", "kernel", "installer"}

\* Only the first read of the boot script takes a machine into the installer.
LEMMA InstallerEntered ==
    ASSUME ClientTypes, [ProvNext]_provVars, NEW m \in MACs, machine'[m].phase \in Started
    PROVE  machine[m].phase \in Started \/ FetchInstall(m)
PROOF
<1> USE DEF ClientTypes, Started
<1>1. \A n \in MACs, new \in Machine :
         Becomes(n, new) => machine'[m].phase = IF n = m THEN new.phase ELSE machine[m].phase
  BY DEF Becomes
<1>2. \A n \in MACs : \A from, to \in Phase :
         Goes(n, from, to) => machine'[m].phase = IF n = m THEN to ELSE machine[m].phase
  <2> SUFFICES ASSUME NEW n \in MACs, NEW from \in Phase, NEW to \in Phase, Goes(n, from, to)
               PROVE  machine'[m].phase = IF n = m THEN to ELSE machine[m].phase
    OBVIOUS
  <2>1. [machine[n] EXCEPT !.phase = to] \in Machine /\ [machine[n] EXCEPT !.phase = to].phase = to
    BY DEF Machine
  <2>2. QED
    BY <1>1, <2>1 DEF Goes
<1>3. CASE UNCHANGED machine
  BY <1>3
<1>4. CASE StartAgain
  BY <1>4 DEF StartAgain, Machine
<1>5. ASSUME NEW n \in MACs, BootDisk(n) \/ BootNetwork(n) \/ FetchLocal(n) \/ DhcpTimeout(n)
      PROVE  machine[m].phase \in Started
  BY <1>2, <1>5 DEF BootDisk, BootNetwork, FetchLocal, DhcpTimeout, Phase
<1>6. ASSUME NEW n \in MACs, FetchInstall(n)
      PROVE  machine[m].phase \in Started \/ FetchInstall(m)
  BY <1>2, <1>6 DEF FetchInstall, Phase
<1>7. ASSUME NEW n \in MACs, ReadParams(n) \/ FetchPreseed(n)
      PROVE  machine[m].phase \in Started
  BY <1>7 DEF ReadParams, FetchPreseed, Becomes
<1>8. ASSUME NEW n \in MACs,
             ProxyBoot(n) \/ InstallerDone(n) \/ PowerFails(n) \/ Reboot(n) \/ DhcpReplyArrives(n)
      PROVE  machine[m].phase \in Started
  <2>1. machine'[m].phase = machine[m].phase \/ machine'[m].phase \in {"loader", "firmware", "request"}
    <3>1. CASE ProxyBoot(n) \/ InstallerDone(n)
      BY <3>1 DEF ProxyBoot, InstallerDone, Becomes, Machine
    <3>2. CASE PowerFails(n) \/ Reboot(n)
      BY <3>2 DEF PowerFails, Reboot, StartsOver, Becomes, Machine
    <3>3. CASE DhcpReplyArrives(n)
      BY <3>3 DEF DhcpReplyArrives, Answered, Goes, Becomes, Machine
    <3>4. QED
      BY <1>8, <3>1, <3>2, <3>3
  <2>2. QED
    BY <2>1
<1>9. CASE \/ \E h \in Workers : HandlerWork(h) \/ Register(h)
           \/ \E n \in MACs : DhcpMessage(n) \/ Install(n)
           \/ ReportWork \/ Stop \/ UNCHANGED provVars
  BY <1>3, <1>9 DEF HandlerWork, DhcpWork, DhcpReplyLost, ApiWork, Register, DhcpMessage, Install,
                    ReportWork, Stop, provVars, clientVars
<1>10. ASSUME NEW n \in MACs, \/ SystemdStarts(n) \/ Reconnects(n) \/ Connects(n) \/ Confirms(n)
                              \/ Beats(n) \/ Disturbed(n) \/ LoseReport(n) \/ ReportArrives(n)
       PROVE  machine[m].phase \in Started
  BY <1>3, <1>10 DEF SystemdStarts, Reconnects, Connects, Confirms, Beats, Disturbed, LoseReport,
                     ReportArrives, OnSystem
<1>11. QED
  BY <1>4, <1>5, <1>6, <1>7, <1>8, <1>9, <1>10 DEF ProvNext, GoesOn, Boot

\* As long as no agent reports installing, no machine starts the installer unless an
\* operator has asked for it.
THEOREM InstallerRequested ==
    ASSUME Installing \notin Reports
    PROVE  ProvSpec => []InstallerOnlyOnRequest
PROOF
<1>1. ProvInit => InstallerOnlyOnRequest
  BY DEF ProvInit, NewMachine, InstallerOnlyOnRequest
<1>2. ProvInv /\ InstallAuthorised /\ InstallerOnlyOnRequest /\ [ProvNext]_provVars
      => InstallerOnlyOnRequest'
  <2> SUFFICES ASSUME TypeInv, ClientTypes, InstallAuthorised, InstallerOnlyOnRequest,
                      [ProvNext]_provVars, NEW m \in MACs, machine'[m].phase \in Started
               PROVE  m \in authorised'
    BY DEF ProvInv, InstallerOnlyOnRequest, Started
  <2>1. authorised \subseteq authorised'
    BY StepImplemented, AuthorisedKept
  <2>2. CASE machine[m].phase \in Started
    BY <2>1, <2>2 DEF InstallerOnlyOnRequest, Started
  <2>3. CASE FetchInstall(m)
    <3>1. nodes[m] # NoNode /\ nodes[m].status \in Status
          /\ scriptFor[nodes[m].status] = "install"
      BY <2>3 DEF FetchInstall, BootScript, Found, TypeInv, TypeOK, StoreTypeOK, Node
    <3>2. nodes[m].status # Discovered
      BY <3>1 DEF scriptFor, Status, Discovered, Installing, Installed
    <3>3. QED
      BY <2>1, <3>1, <3>2 DEF InstallAuthorised, Recorded
  <2>4. QED
    BY <2>2, <2>3, InstallerEntered
<1>3. QED
  BY ProvInvInit, ProvInvNext, ServerImplemented, InstallOnlyOnRequest, <1>1, <1>2, PTL
     DEF ProvSpec
=============================================================================
