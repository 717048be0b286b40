---------------------------- MODULE Provisioning ----------------------------
(***************************************************************************)
(* The server together with the machines it installs: firmware and iPXE,   *)
(* the Debian installer, the installed system and its agent.               *)
(*                                                                         *)
(* The machine is external: its steps are those the boot script, the       *)
(* preseed file and the service file of the source tell it to take.  It    *)
(* starts over whenever its power fails.  Messages between the two may be  *)
(* lost: one that is lost on its way to the server is no step.             *)
(***************************************************************************)
EXTENDS NodeFoundry, BootScripts, Agent

CONSTANTS
    BootOrders,   \* what machines boot first: the disk, the network, or what
                  \* someone chooses in the boot menu each time
    OtherIP,      \* the address the other DHCP server gives in proxy mode
    MaxResets     \* bound: so often a machine loses power or is rebooted

ASSUME BootOrdersAssumption == BootOrders \subseteq {"disk", "network", "menu"}
ASSUME OtherIPAssumption == OtherIP \in IPs
ASSUME MaxResetsAssumption == MaxResets \in Nat

VARIABLES
    machine,   \* the machines
    resets     \* how often each lost power or was rebooted
clientVars == <<machine, resets, agentVars>>
provVars == <<vars, clientVars>>

Phase == {"firmware",   \* power on self test, choice of the boot device
          "discover", "request",   \* DHCP: waiting for an offer, for the ACK
          "loader",     \* iPXE: fetches the boot script, again and again while it says wait
          "params",     \* the script is install; the server is about to read the record again
          "kernel",     \* the installer is loaded and about to fetch its preseed file
          "installer",  \* it has partitioned the disk
          "system",     \* the installed system runs
          "halted"}     \* told to boot from a disk without a system

Machine == [phase  : Phase,
            order  : BootOrders,
            disk   : {"blank", "os"},
            addr   : IPs \cup {NoIP},   \* the last address DHCP gave it
            query  : NetConfig,         \* in the address of the preseed file
            config : NetConfig]         \* of the installer and the system it installs

ProvTypeOK == /\ TypeOK /\ AgentTypeOK
              /\ machine \in [MACs -> Machine]
              /\ resets \in [MACs -> 0..MaxResets]

\* A machine is new, or comes with a system and the agent an earlier server has
\* installed, and the address another DHCP server has given it.
NewMachine(order, disk) == [phase |-> "firmware", order |-> order, disk |-> disk,
                            addr |-> IF disk = "os" THEN OtherIP ELSE NoIP,
                            query |-> UseDhcp, config |-> UseDhcp]

ProvInit == /\ Init
            /\ machine \in [MACs -> {NewMachine(o, d) : o \in BootOrders, d \in {"blank", "os"}}]
            /\ AgentInit({m \in MACs : machine[m].disk = "os"})
            /\ resets = [m \in MACs |-> 0]

Becomes(m, new) == machine' = [machine EXCEPT ![m] = new]

\* m goes on from one phase to another.
Goes(m, from, to) == /\ machine[m].phase = from
                     /\ Becomes(m, [machine[m] EXCEPT !.phase = to])

\* The address the installed system uses and its agent reports.
SystemIP(m) == IF machine[m].config.ip # NoIP THEN machine[m].config.ip ELSE machine[m].addr

-----------------------------------------------------------------------------
(***************************************************************************)
(* DHCP.  A machine sends DISCOVER until it has an offer and REQUEST until *)
(* it is acknowledged; the installer gets its first address so too.  An    *)
(* installed system asks this server for nothing: it has a static address, *)
(* or another DHCP server.                                                 *)
(***************************************************************************)
Sends(m) == CASE machine[m].phase = "discover" -> {"discover"}
              [] machine[m].phase = "request"  -> {"request"}
              [] machine[m].phase = "kernel"   -> {"discover", "request"}
              [] OTHER -> {}

DhcpMessage(m) == /\ \E h \in Workers : /\ DhcpReceive(h)
                                        /\ tasks'[h].mac = m /\ tasks'[h].type \in Sends(m)
                  /\ UNCHANGED <<authorised, clientVars>>

DhcpWork(h) == /\ DhcpSave(h) \/ DhcpOffer(h) \/ DhcpAck(h)
               /\ UNCHANGED <<authorised, clientVars>>

\* The reply the handler is about to send is the one m waits for.
Awaited(h, m) == /\ tasks[h] # Idle /\ tasks[h].mac = m
                 /\ tasks[h].type = machine[m].phase

\* An offer is answered with a request; with an ACK iPXE is loaded.
Answered(h, m) ==
    /\ Awaited(h, m)
    /\ IF tasks[h].type = "discover"
       THEN Goes(m, "discover", "request")
       ELSE Becomes(m, [machine[m] EXCEPT !.phase = "loader", !.addr = tasks[h].ip])
    /\ UNCHANGED <<resets, agentVars>>

DhcpReply(h) == (DhcpPersist(h) \/ DhcpSend(h)) /\ UNCHANGED authorised

\* The reply arrives; or it is lost, or comes too late.
DhcpReplyArrives(m) == \E h \in Workers : DhcpReply(h) /\ Answered(h, m)
DhcpReplyLost(h) == DhcpReply(h) /\ UNCHANGED clientVars

\* The server does not acknowledge the request, since it has no live lease any
\* more: the machine starts again with a discover.  Mere loss it makes up for by
\* sending the request again.
DhcpTimeout(m) == /\ ~\E ip \in IPs : GetLease(m, ip)
                  /\ Goes(m, "request", "discover")
                  /\ UNCHANGED <<vars, resets, agentVars>>

\* In proxy mode the address comes from another server and the boot file from
\* this one, which records nothing.
ProxyBoot(m) == /\ mode = "proxy" /\ machine[m].phase = "discover"
                /\ Becomes(m, [machine[m] EXCEPT !.phase = "loader", !.addr = OtherIP])
                /\ UNCHANGED <<vars, resets, agentVars>>

-----------------------------------------------------------------------------
(***************************************************************************)
(* Booting and installing.                                                 *)
(***************************************************************************)
BootDisk(m) == /\ machine[m].order # "network" /\ machine[m].disk = "os"
               /\ Goes(m, "firmware", "system")
               /\ UNCHANGED <<vars, resets, agentVars>>
BootNetwork(m) == /\ machine[m].order # "disk" \/ machine[m].disk = "blank"
                  /\ Goes(m, "firmware", "discover")
                  /\ UNCHANGED <<vars, resets, agentVars>>

\* GET boot.ipxe: install ...
FetchInstall(m) == /\ BootScript(m, "install")
                   /\ Goes(m, "loader", "params")
                   /\ UNCHANGED <<vars, resets, agentVars>>
\* ... or local.  With wait, or without an answer, iPXE asks again.
FetchLocal(m) == /\ BootScript(m, "local")
                 /\ Goes(m, "loader", IF machine[m].disk = "os" THEN "system" ELSE "halted")
                 /\ UNCHANGED <<vars, resets, agentVars>>

\* The second read for the install script, and its execution.
ReadParams(m) == /\ machine[m].phase = "params"
                 /\ Becomes(m, [machine[m] EXCEPT !.phase = "kernel", !.query = netParams(m)])
                 /\ UNCHANGED <<vars, resets, agentVars>>

\* GET preseed.cfg: the installer partitions the disk.
FetchPreseed(m) ==
    /\ machine[m].phase = "kernel"
    /\ \E config \in NetConfig :
          /\ Preseed(m, machine[m].query, config)
          /\ Becomes(m, [machine[m] EXCEPT !.phase = "installer", !.disk = "blank",
                                           !.config = config])
    /\ AgentErased(m)
    /\ UNCHANGED <<vars, resets>>

\* The late command of the preseed file: a chain of && whose last link enables the
\* agent's unit.  Any link may fail, a download for one, and then there is no agent.
\* (In the text the code emits the second link fails always: sh is given
\* DHCP_MAC=$$(cat ...), a syntax error.  The other outcome is the one it is
\* written for.)
LateCommand(m) == AgentInstalled(m) \/ UNCHANGED agentVars

\* The system is installed, the late command has run, and the machine reboots.
InstallerDone(m) ==
    /\ machine[m].phase = "installer"
    /\ Becomes(m, [machine[m] EXCEPT !.phase = "firmware", !.disk = "os"])
    /\ LateCommand(m)
    /\ UNCHANGED <<vars, resets>>

\* The machine starts over, at any time.
StartsOver(m) == /\ resets[m] < MaxResets
                 /\ resets' = [resets EXCEPT ![m] = @ + 1]
                 /\ Becomes(m, [machine[m] EXCEPT !.phase = "firmware"])
PowerFails(m) == /\ machine[m].phase # "firmware"
                 /\ StartsOver(m)
                 /\ agent' = [agent EXCEPT ![m] = IF @ = "absent" THEN @ ELSE "stopped"]
                 /\ UNCHANGED <<vars, reports>>

-----------------------------------------------------------------------------
(***************************************************************************)
(* The agent of a running system.                                          *)
(***************************************************************************)
\* The unit file has the agent started by the systemd of the installed system.
OnSystem(m) == machine[m].phase = "system" /\ UNCHANGED <<vars, machine, resets>>

SystemdStarts(m) == AgentStart(m) /\ OnSystem(m)
Connects(m) == AgentConnect(m) /\ OnSystem(m)
Confirms(m) == AgentConfirm(m, SystemIP(m)) /\ OnSystem(m)
Beats(m) == Heartbeat(m, SystemIP(m)) /\ OnSystem(m)
Reconnects(m) == AgentReconnects(m) /\ OnSystem(m)
Disturbed(m) == (AgentEnds(m) \/ AgentLosesLink(m)) /\ OnSystem(m)
Reboot(m) == RebootCommand(m) /\ StartsOver(m) /\ UNCHANGED vars
LoseReport(m) == ReportLost(m) /\ UNCHANGED <<vars, machine, resets>>

\* The server takes up a report.
ReportArrives(m) ==
    /\ ReportReceive
    /\ \E ip \in reports[m] :
          /\ tasks'[MqttLoop].mac = m
          /\ tasks'[MqttLoop].node = Reported(nodes[m], Installed, ip)
          /\ reports' = [reports EXCEPT ![m] = @ \ {ip}]
    /\ UNCHANGED <<poolVars, dhcpVars, authorised, agent, machine, resets>>

-----------------------------------------------------------------------------
(***************************************************************************)
(* The server, and all together.                                           *)
(***************************************************************************)
\* The operators' requests.
Register(h) == RegisterReceive(h) /\ UNCHANGED <<poolVars, dhcpVars, clientVars>>
Install(m) == /\ \E h \in Workers : InstallReceive(h) /\ tasks'[h].mac = m
              /\ UNCHANGED <<poolVars, dhcpVars, clientVars>>
ApiWork(h) == (RegisterSave(h) \/ InstallUpdate(h)) /\ UNCHANGED <<poolVars, dhcpVars, clientVars>>

ReportWork == ReportSave /\ UNCHANGED <<poolVars, dhcpVars, authorised, clientVars>>

\* The server is stopped only when it may still be started again.
Stop == boots < MaxBoots /\ Shutdown /\ UNCHANGED clientVars

\* A machine whose boot script was being made gets no answer, and asks again.
StartAgain ==
    /\ Restart
    /\ machine' = [m \in MACs |-> IF machine[m].phase = "params"
                                  THEN [machine[m] EXCEPT !.phase = "loader"]
                                  ELSE machine[m]]
    /\ UNCHANGED <<resets, agentVars>>

Boot(m) == \/ ProxyBoot(m) \/ BootDisk(m) \/ BootNetwork(m)
           \/ FetchInstall(m) \/ FetchLocal(m) \/ ReadParams(m)
           \/ FetchPreseed(m) \/ InstallerDone(m)

\* What m does by itself: in each of its phases at most one of these is possible.
GoesOn(m) == Boot(m) \/ DhcpTimeout(m) \/ SystemdStarts(m) \/ Reconnects(m)

HandlerWork(h) == DhcpWork(h) \/ DhcpReplyLost(h) \/ ApiWork(h)

ProvNext ==
    \/ \E h \in Workers : HandlerWork(h) \/ Register(h)
    \/ \E m \in MACs :
          \/ GoesOn(m) \/ DhcpMessage(m) \/ DhcpReplyArrives(m)
          \/ Install(m) \/ PowerFails(m) \/ Reboot(m)
          \/ Connects(m) \/ Confirms(m) \/ Beats(m) \/ Disturbed(m)
          \/ LoseReport(m) \/ ReportArrives(m)
    \/ ReportWork \/ Stop \/ StartAgain

\* Goroutines run, and a server whose database was closed is started again.  A
\* machine goes on with what it is doing: it repeats its DHCP messages, fetches
\* its scripts and installs; systemd, the heartbeat ticker and the library's
\* reconnection work.  What is sent again and again arrives in the end, and a
\* broker that is tried again and again is reached.  An operator asks for the
\* installation of a machine as long as it is discovered.  Nothing obliges a
\* machine to lose power, a server to stop, a message or a connection to be lost.
Fairness ==
    /\ \A h \in Workers : WF_provVars(HandlerWork(h))
    /\ WF_provVars(ReportWork)
    /\ WF_provVars(StartAgain /\ db = "closed")
    /\ \A m \in MACs :
          /\ WF_provVars(GoesOn(m))
          /\ SF_provVars(DhcpMessage(m)) /\ SF_provVars(DhcpReplyArrives(m))
          /\ SF_provVars(Install(m))
          /\ SF_provVars(Connects(m)) /\ SF_provVars(Confirms(m)) /\ SF_provVars(Beats(m))
          /\ SF_provVars(ReportArrives(m))

ProvSpec == ProvInit /\ [][ProvNext]_provVars /\ Fairness

-----------------------------------------------------------------------------
(***************************************************************************)
(* Properties.                                                             *)
(***************************************************************************)
\* No machine starts the installer, which erases its disk, unless an operator's
\* request for it has committed, whichever of the two reads of its record its
\* boot script was made from and whatever was written in between.
InstallerOnlyOnRequest ==
    \A m \in MACs : machine[m].phase \in {"params", "kernel", "installer"} => m \in authorised

\* m has all an installation puts on its disk: the system, and its agent.
Equipped(m) == machine[m].disk = "os" /\ agent[m] # "absent"

\* A record says installed only of a machine with a system and an agent on its disk,
\* also when it lost power during the installation, or its late command failed: the
\* boot script that then sends the machine to its disk does not send it to nothing,
\* and no installation that was left half done counts as done.  (From the boot menu
\* a machine can be sent into the installer again while a report of it is on its
\* way.)
InstalledMeansSystem ==
    \A m \in MACs :
       machine[m].order # "menu" /\ Recorded(m) /\ nodes[m].status = Installed
       => Equipped(m)

\* As long as the server has not been restarted and operators register no address,
\* the static address a new machine is installed with comes with its netmask, and is
\* the one the pool has reserved for that machine: the script, the preseed file and
\* the DHCP handler agree, although each reads or writes the record for itself.
\* (Once its agent has reported an address, a machine that is sent into the installer
\* again can be given an address without a netmask.)
StaticReserved ==
    boots = 0 /\ RegisterIPs = {}
    => \A m \in MACs :
          machine[m].order = "disk" /\ machine[m].config.ip # NoIP
          => /\ machine[m].config.net
             /\ leases[m] # NoLease /\ leases[m].ip = machine[m].config.ip

\* A stale copy of the record is written back and undoes a step of its status.
Undoes(m) == /\ Recorded(m) /\ nodes'[m] # NoNode
             /\ ~CanTransitionTo(nodes[m].status, nodes'[m].status)

\* A machine that boots its disk first and has a record is recorded as installed
\* in the end, and again when its status was undone: an operator's request, a lost
\* report, an agent that ends or loses the broker, a power failure and a restart
\* of the server are made up for.  Only two things prevent it: a status that is
\* undone again and again, and a late command that fails, after which the machine
\* boots for ever a system without an agent.  (The pool has room for every machine
\* of the instance; one it has no address for is never installed.)
RecordedGetsInstalled ==
    \A m \in MACs :
       \/ Recorded(m) /\ machine[m].order = "disk"
          ~> \/ Recorded(m) /\ nodes[m].status = Installed
             \/ machine[m].disk = "os" /\ agent[m] = "absent"
       \/ []<><<Undoes(m)>>_provVars

-----------------------------------------------------------------------------
(***************************************************************************)
(* The abstract specification.                                             *)
(***************************************************************************)
Installs == INSTANCE Installation
              WITH Machines   <- MACs,
                   requested  <- authorised,
                   byHand     <- {m \in MACs : machine[m].order = "menu"},
                   installing <- {m \in MACs : machine[m].phase = "installer"},
                   withSystem <- {m \in MACs : Equipped(m)},
                   installed  <- {m \in MACs : Recorded(m) /\ nodes[m].status = Installed}

\* Server and machines implement the installation: whatever is lost, stopped or
\* started over, a disk is erased only at an operator's request and never while the
\* machine's record says installed, and the record comes to say so only of a machine
\* that was asked for and has a system.  (Of a machine with a boot menu it may say so
\* while someone installs it again.)
ImplementsInstallation == Installs!Spec

-----------------------------------------------------------------------------
(***************************************************************************)
(* What the documents say and the code does not do.                        *)
(***************************************************************************)
\* After the installation the machine reboots, and systemd starts the agent.  (A late
\* command that fails, and leaves no agent to start, is not held against it.)
AgentFollowsInstallation ==
    \A m \in MACs :
       \/ machine[m].phase = "installer" ~> agent[m] = "running"
       \/ <>(machine[m].disk = "os" /\ agent[m] = "absent")

\* In ProxyDHCP mode no address is recorded, and the installed system uses DHCP.
ProxyUsesDhcp ==
    mode = "proxy" /\ boots = 0 => \A m \in MACs : machine[m].config = UseDhcp
=============================================================================
