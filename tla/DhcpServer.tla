----------------------------- MODULE DhcpServer -----------------------------
(***************************************************************************)
(* internal/dhcp/server.go: handleDHCP, handleStandard, buildResponse.     *)
(*                                                                         *)
(* The configuration the server was started with decides its mode: "pool", *)
(* with an address pool; "echo", standard mode without one; "proxy",       *)
(* ProxyDHCP, where another DHCP server gives out the addresses.  An       *)
(* operator may change it between two starts.                              *)
(*                                                                         *)
(* A handler of the standard modes copies the machine's record, saves it,  *)
(* asks the pool for an address, writes the address into the same copy,    *)
(* saves it again and answers.  Other handlers, for the same machine too,  *)
(* run in between.                                                         *)
(***************************************************************************)
EXTENDS NodeStore, IPPool, Handlers

CONSTANTS
    Modes,        \* the modes the server is configured for, at one start or another
    RequestIPs    \* the addresses clients ask for

ASSUME ModesAssumption == Modes \subseteq {"pool", "echo", "proxy"}
ASSUME RequestIPsAssumption == RequestIPs \subseteq IPs

VARIABLES
    mode,    \* of this run of the server
    boots,   \* how often the server was started again
    acked    \* history: the last DHCPACK sent to each machine
dhcpVars == <<mode, boots, acked>>

\* An address pool is configured: ipManager # nil.
HasPool == mode = "pool"

CONSTANT NotAcked
Ack == [ip : IPs, until : Nat, boot : Nat]
ASSUME NotAckedAssumption == NotAcked \notin Ack

DhcpTypeOK == /\ mode \in Modes
              /\ boots \in Nat
              /\ acked \in [MACs -> Ack \cup {NotAcked}]

DhcpInit == mode \in Modes /\ boots = 0 /\ acked = [m \in MACs |-> NotAcked]

-----------------------------------------------------------------------------
\* A DISCOVER or a REQUEST arrives.  The record is copied, or made when there
\* is none or the lookup fails.  With a pool, what a REQUEST asks for is unused.
\* A proxy answers a DISCOVER with boot options, which depend on no state and
\* change none, and nothing else.
DhcpReceive(h) ==
    /\ mode # "proxy"
    /\ \E m \in MACs, type \in {"discover", "request"}, req \in RequestIPs \cup {NoIP} :
          /\ HasPool /\ type = "request" => req = NoIP
          /\ Begin(h, [pc |-> "dhcp_save", mac |-> m, type |-> type, ip |-> req,
                       node |-> IF Found(m) THEN nodes[m] ELSE NewNode])
    /\ UNCHANGED <<now, storeVars, poolVars, dhcpVars>>

\* Defect: the handler goes on when the Save fails.
DhcpSaveUnchecked(h) ==
    /\ Continue(h, "dhcp_save", [tasks[h] EXCEPT !.pc = "dhcp_build"])
    /\ Save(tasks[h].mac, tasks[h].node) \/ SaveFails
    /\ UNCHANGED <<now, poolVars, dhcpVars>>
\* The first Save; when it fails the message is dropped.
DhcpSave(h) ==
    /\ \/ /\ At(h, "dhcp_save")
          /\ Save(tasks[h].mac, tasks[h].node)
          /\ Continue(h, "dhcp_save",
                 [tasks[h] EXCEPT !.pc = "dhcp_build",
                                  !.node = Stored(tasks[h].mac, tasks[h].node)])
       \/ Return(h, "dhcp_save") /\ SaveFails
    /\ UNCHANGED <<now, poolVars, dhcpVars>>

\* Defect: the parameters are set without the address.
AssignedNoIP(task, ip) ==
    [task EXCEPT !.pc = "dhcp_persist", !.ip = ip, !.node = [task.node EXCEPT !.net = TRUE]]
\* The task after buildResponse has put ip into the reply: the copy gets the
\* address and the network parameters, unless the address is 0.0.0.0.
Assigned(task, ip) ==
    IF ip = UnspecifiedIP
    THEN [task EXCEPT !.pc = "dhcp_send", !.ip = ip]
    ELSE [task EXCEPT !.pc = "dhcp_persist", !.ip = ip,
                      !.node = [task.node EXCEPT !.ip = ip, !.net = TRUE]]

\* buildResponse for a DISCOVER: an offer of an address of the pool.  A handler
\* whose call of AllocateIP never returns stays where it is.
DhcpOffer(h) ==
    /\ HasPool /\ At(h, "dhcp_build") /\ tasks[h].type = "discover"
    /\ \/ \E ip \in IPs :
             /\ AllocateIP(tasks[h].mac, tasks[h].ip, ip)
             /\ Continue(h, "dhcp_build", Assigned(tasks[h], ip))
       \/ /\ PoolExhausted(tasks[h].mac, tasks[h].ip)
          /\ Return(h, "dhcp_build")
          /\ UNCHANGED poolVars
       \/ ScanForever(tasks[h].mac, tasks[h].ip) /\ UNCHANGED tasks
    /\ UNCHANGED <<now, storeVars, dhcpVars>>

\* buildResponse for a REQUEST: the address of the lease, which is not renewed.
DhcpAck(h) ==
    /\ HasPool /\ At(h, "dhcp_build") /\ tasks[h].type = "request"
    /\ \/ \E ip \in IPs :
             /\ GetLease(tasks[h].mac, ip)
             /\ Continue(h, "dhcp_build", Assigned(tasks[h], ip))
       \/ /\ ~scanning
          /\ ~\E ip \in IPs : GetLease(tasks[h].mac, ip)
          /\ Return(h, "dhcp_build")
    /\ UNCHANGED <<now, storeVars, poolVars, dhcpVars>>

\* Defect: the echoed address is recorded.
DhcpEchoRecord(h) ==
    /\ mode = "echo"
    /\ At(h, "dhcp_build")
    /\ Continue(h, "dhcp_build",
          [tasks[h] EXCEPT !.pc = "dhcp_persist", !.node.ip = tasks[h].ip])
    /\ UNCHANGED <<now, storeVars, poolVars, dhcpVars>>
\* buildResponse without a pool echoes the client's address; nothing is kept.
DhcpEcho(h) ==
    /\ mode = "echo"
    /\ At(h, "dhcp_build")
    /\ Continue(h, "dhcp_build", [tasks[h] EXCEPT !.pc = "dhcp_send"])
    /\ UNCHANGED <<now, storeVars, poolVars, dhcpVars>>

\* The reply leaves.  A DHCPACK of the pool tells the client it may use the
\* address for the whole lease time from now on.
Sent(task) ==
    /\ acked' = IF HasPool /\ task.type = "request"
                THEN [acked EXCEPT ![task.mac] =
                        [ip |-> task.ip, until |-> now + LeaseTime, boot |-> boots]]
                ELSE acked
    /\ UNCHANGED <<mode, boots>>

\* The second Save, and the reply.  A failure of the Save is only logged.
DhcpPersist(h) ==
    /\ Return(h, "dhcp_persist")
    /\ Save(tasks[h].mac, tasks[h].node) \/ SaveFails
    /\ Sent(tasks[h])
    /\ UNCHANGED <<now, poolVars>>

\* The reply, when there was nothing to save.
DhcpSend(h) ==
    /\ Return(h, "dhcp_send")
    /\ Sent(tasks[h])
    /\ UNCHANGED <<now, storeVars, poolVars>>

DhcpNext(h) == \/ DhcpReceive(h) \/ DhcpSave(h)
               \/ DhcpOffer(h) \/ DhcpAck(h) \/ DhcpEcho(h)
               \/ DhcpPersist(h) \/ DhcpSend(h)
=============================================================================
