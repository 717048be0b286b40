---------------------------- MODULE BootScripts ----------------------------
(***************************************************************************)
(* internal/ipxe: what a machine that boots over the network is told, as a *)
(* function of its record at the time it asks.                             *)
(*                                                                         *)
(* A network configuration is an address with or without the network       *)
(* parameters (netmask, gateway, DNS); without an address the installer    *)
(* uses DHCP.                                                              *)
(***************************************************************************)
EXTENDS NodeStore

NetConfig == [ip : IPs \cup {NoIP}, net : BOOLEAN]
UseDhcp == [ip |-> NoIP, net |-> FALSE]

\* Defect: a machine that was only discovered is installed.
scriptForEager ==
    [s \in Status |-> CASE s = Discovered -> "install"
                        [] s = Installing -> "install"
                        [] s = Installed  -> "local"]
\* GenerateByStatus: the loop that asks again, the installer, or exit to the disk.
scriptFor ==
    [s \in Status |-> CASE s = Discovered -> "wait"
                        [] s = Installing -> "install"
                        [] s = Installed  -> "local"]

\* A boot script is answered with 404 when the record cannot be read.
BootScript(mac, script) == Found(mac) /\ script = scriptFor[nodes[mac].status]

\* The network configuration of the record; none when it cannot be read.
RecordConfig(mac) ==
    IF Found(mac) /\ nodes[mac].ip # NoIP
    THEN [ip |-> nodes[mac].ip, net |-> nodes[mac].net]
    ELSE UseDhcp

\* Defect: the script passes on the address alone.
netParamsBare(mac) == [RecordConfig(mac) EXCEPT !.net = FALSE]
\* generateInstallScript reads the record a second time, and puts the
\* configuration it finds there into the address of the preseed file.
netParams(mac) == RecordConfig(mac)

\* GenerateWithQuery: the record is used only when the query has no address.
Preseed(mac, query, config) ==
    /\ Found(mac)
    /\ config = IF query.ip # NoIP THEN query ELSE RecordConfig(mac)
=============================================================================
