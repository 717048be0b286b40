---------------------------- MODULE NodeFoundry ----------------------------
(***************************************************************************)
(* The server process: DHCP, HTTP and MQTT handlers over one database and  *)
(* one address pool, restarts included.                                    *)
(***************************************************************************)
EXTENDS DhcpServer, ApiServer, StatusClient

CONSTANT MaxBoots   \* bound: the server is started again so often

ASSUME MaxBootsAssumption == MaxBoots \in Nat

vars == <<now, storeVars, poolVars, tasks, dhcpVars, authorised>>

Init == /\ ClockInit /\ StoreInit /\ PoolInit
        /\ TasksInit /\ DhcpInit /\ ApiInit

-----------------------------------------------------------------------------
Dhcp == \E h \in Workers : DhcpNext(h) /\ UNCHANGED authorised
Api == \E h \in Workers : ApiNext(h) /\ UNCHANGED <<poolVars, dhcpVars>>
Mqtt == StatusNext /\ UNCHANGED <<poolVars, dhcpVars, authorised>>

\* Shutdown closes the database; DHCP and MQTT handlers, and HTTP handlers that
\* outlast the grace period, may still be running.
Shutdown == /\ Close
            /\ UNCHANGED <<now, poolVars, tasks, dhcpVars, authorised>>

\* Defect: the leases are restored, but not their index.
RestartHalfRestored ==
    /\ boots < MaxBoots
    /\ boots' = boots + 1
    /\ mode' \in Modes
    /\ db' = "open"
    /\ leases' = leases /\ allocated' = EmptyAllocated /\ scanning' = FALSE
    /\ tasks' = [h \in Handler |-> Idle]
    /\ UNCHANGED <<now, nodes, acked, authorised>>
\* The process ends, in any state, and is started again, perhaps configured for
\* another mode: the records survive, handlers and leases do not.
Restart == /\ boots < MaxBoots
           /\ boots' = boots + 1
           /\ mode' \in Modes
           /\ db' = "open"
           /\ leases' = EmptyLeases /\ allocated' = EmptyAllocated /\ scanning' = FALSE
           /\ tasks' = [h \in Handler |-> Idle]
           /\ UNCHANGED <<now, nodes, acked, authorised>>

TimePasses == Tick /\ UNCHANGED <<storeVars, poolVars, tasks, dhcpVars, authorised>>

Next == Dhcp \/ Api \/ Mqtt \/ Shutdown \/ Restart \/ TimePasses

Spec == Init /\ [][Next]_vars

-----------------------------------------------------------------------------
(***************************************************************************)
(* Invariants.                                                             *)
(***************************************************************************)
TypeOK == /\ now \in Nat
          /\ StoreTypeOK /\ PoolTypeOK /\ TasksTypeOK /\ DhcpTypeOK /\ ApiTypeOK

Recorded(m) == nodes[m] # NoNode

\* A machine leaves the status discovered only after an install request for it
\* has committed: whatever handlers overlap, whatever copy is written back late
\* and whenever the server restarts, no machine is installed that no operator
\* asked to install.
InstallAuthorised ==
    \A m \in MACs : Recorded(m) /\ nodes[m].status # Discovered => m \in authorised

\* A record says installed only if the machine itself has reported, and so holds
\* the time of a report.
InstalledHasReported ==
    \A m \in MACs : Recorded(m) /\ nodes[m].status = Installed => nodes[m].heartbeat # Never

\* A record with network parameters has an address, the condition on which the
\* install script passes them on to the installer.
NetHasAddress == \A m \in MACs : Recorded(m) /\ nodes[m].net => nodes[m].ip # NoIP

\* A machine that was sent a DHCPACK has a record, also when the database was
\* closed under the handler that sent it.
AckedHasRecord == \A m \in MACs : acked[m] # NotAcked => Recorded(m)

\* No two machines are sent the same address by one run of the server, however
\* old the first lease is: an expired lease keeps its address.
AckedUnique ==
    \A m, n \in MACs :
       m # n /\ acked[m] # NotAcked /\ acked[n] # NotAcked /\ acked[m].boot = acked[n].boot
       => acked[m].ip # acked[n].ip

\* As long as the server has not been restarted, a machine whose record holds a
\* static configuration for the installer has a lease, and the address recorded
\* is the one of that lease, or one the machine itself reported after the lease:
\* no older copy brings back the address of another machine or of no lease.
RecordedAddressLeased ==
    boots = 0
    => \A m \in MACs : Recorded(m) /\ nodes[m].net
                     => /\ leases[m] # NoLease
                        /\ \/ nodes[m].ip = leases[m].ip
                           \/ nodes[m].ip \in ReportIPs /\ nodes[m].heartbeat # Never

\* Without a pool the DHCP server echoes addresses but records none: an address
\* in a record comes from the range of the pool of this or an earlier run, from
\* an operator or from the machine's own reports, and from no DHCP client.
EchoedNotRecorded ==
    \A m \in MACs :
       Recorded(m) => nodes[m].ip \in PoolStart..PoolEnd \cup RegisterIPs \cup ReportIPs \cup {NoIP}

-----------------------------------------------------------------------------
(***************************************************************************)
(* Action properties.                                                      *)
(***************************************************************************)
\* A record never disappears, and keeps the creation time of the first of its
\* creators, although two of them can race and each has set its own.
CreatedAtFixed ==
    [][\A m \in MACs : Recorded(m) => nodes'[m] # NoNode /\ nodes'[m].created = nodes[m].created
      ]_vars

\* An install request that commits late, after the machine was installed on the
\* strength of another one, does not send the machine back to installing.
LateInstallKeepsInstalled ==
    [][\A h \in Handler :
          At(h, "install_update") /\ tasks'[h] = Idle /\ nodes[tasks[h].mac].status = Installed
          => nodes'[tasks[h].mac].status = Installed
      ]_vars

-----------------------------------------------------------------------------
(***************************************************************************)
(* The abstract specification.                                             *)
(***************************************************************************)
\* What each machine was told: the address, and the run of the server.
Told == [m \in MACs |-> IF acked[m] = NotAcked THEN NotAcked
                        ELSE [address |-> acked[m].ip, run |-> acked[m].boot]]

Service == INSTANCE AddressService
             WITH Clients <- MACs, Addresses <- IPs, Free <- NoMAC, NotTold <- NotAcked,
                  run <- boots, owner <- allocated, told <- Told

\* The server implements the address service: whatever handlers overlap, it
\* acknowledges to a machine only an address the pool of this run has given it,
\* and takes none back before it ends.
ServesAddresses == Service!Spec

-----------------------------------------------------------------------------
(***************************************************************************)
(* What the documents say and the code does not do.                        *)
(***************************************************************************)
\* "Node status transitions MUST follow: discovered -> installing -> installed."
StatusOneWay ==
    [][\A m \in MACs : Recorded(m) => CanTransitionTo(nodes[m].status, nodes'[m].status)]_vars

\* A DHCPREQUEST that is granted extends the lease by the lease time.
RequestRenews ==
    [][\A h \in Handler :
          At(h, "dhcp_build") /\ tasks[h].type = "request"
          /\ tasks'[h] # Idle /\ tasks'[h].pc = "dhcp_persist"
          => leases'[tasks[h].mac].expires = now + LeaseTime
      ]_vars

\* Leases are restored after a restart: no two machines hold the same address
\* under acknowledged leases that have not expired.
LiveLeasesUnique ==
    \A m, n \in MACs :
       m # n /\ acked[m] # NotAcked /\ acked[n] # NotAcked
       /\ now <= acked[m].until /\ now <= acked[n].until
       => acked[m].ip # acked[n].ip
=============================================================================
