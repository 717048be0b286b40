# NodeFoundry in TLA+

NodeFoundry installs bare machines over the network. One server process answers
DHCP, serves iPXE scripts and installer files over HTTP, takes install requests
from operators and status reports from an agent on each installed machine, and
keeps one record per machine in a bbolt file. This directory models that server
and the machines it installs, from their first boot to the reports of their agents,
model-checks small instances with TLC and proves the central facts for all
instances with TLAPS.

Run, in this directory, for example

    tlc -workers 2 -config MCRaces.cfg MCNodeFoundry.tla
    tlapm NodeFoundryProofs.tla

## Inventory

| Component | Source | State | Operations | Status |
|---|---|---|---|---|
| Node record and status machine | `internal/model/node.go` | – | `NewNode`, `CanTransitionTo`, MAC normalisation | all but the MAC forms |
| Node repository | `internal/db` | the `nodes` bucket | `FindByMAC`, `Save`, `UpdateStatus`, `Delete`, `List`, `ListByStatus`, open, close | modelled |
| Address pool | `internal/dhcp/ip_pool.go` | two maps under a mutex | `AllocateIP`, `ReleaseIP`, `RenewLease`, `GetLease` | modelled |
| DHCP server | `internal/dhcp/server.go` | – (handler locals) | DISCOVER, REQUEST; ProxyDHCP DISCOVER | modelled, but for the boot options |
| HTTP API | `internal/api` | – (handler locals) | register, install, boot script, preseed file, reads, downloads | modelled, but for `GetNode`, health, downloads |
| MQTT status client | `internal/mqtt` | connection, signal channel | connect, `onConnect`, `onStatusMessage` | modelled |
| Server process | `internal/server`, `cmd/nodefoundry` | context, errgroup, database handle | `Start`, `Run`, `Shutdown` | modelled |
| Configuration | `internal/server/config.go` | – | read once | the mode it selects, and constants |
| iPXE scripts | `internal/ipxe/generator.go` | – | script for a record | modelled |
| Preseed files | `internal/ipxe/preseed.go` | – | file for a record and a query | its network section, and what it makes the installer do |
| Agent | `internal/agent`, `cmd/nodefoundry-agent` | connection | connect, report, command | modelled |
| Agent's interface, host information | `internal/agent/netif.go`, `info`, `config` | – | I/O | the reported address only |
| Makefile, scripts, documents | | | | not modelled |

The components meet in two shared objects. The repository is used by all three
kinds of handler: each of its methods is one bbolt transaction, but a handler
makes several calls and nothing ties them together. The pool is used by the DHCP
handlers only; each method holds the mutex for its whole body. The DHCP library
and the HTTP server start a goroutine per message; the MQTT library hands its
messages one at a time to one goroutine.

What is hard here, and what makes each component right:

* **Lost updates.** DHCP handlers (`FindByMAC`, `Save`, pool, `Save`), reports
  (`FindByMAC`, `Save`) and registrations write whole records back that they read
  earlier. Right: no machine becomes installing without a committed request, or
  installed without a report; the creation time survives; a late install request
  does not undo an installation. Wrong, and shown by a run: the status itself can
  go backwards.
* **Two copies of the truth.** The address of a machine is in the pool (two maps)
  and in its record (what the installer is told). Right: the maps agree, an
  address has one owner, the recorded static address is the reserved one.
* **Time.** Leases expire but keep their address; REQUEST does not renew.
* **Restart and shutdown.** The records survive, the pool does not; the database
  is closed under running handlers.
* **Starting, failing, stopping.** Three services in an errgroup, one of which does
  not look at the context; a broker that is down, comes back, or refuses.
* **A boot that is a conversation.** A machine asks several times, and each answer
  is made from the record as it is then: the status for the script, the address once
  for the script and once for the preseed file; replies and reports get lost, power
  fails between two steps, old reports come late. Right: no disk is erased that no
  operator asked to erase; a machine recorded as installed has a system and an agent
  on its disk, also when the late command of an installation failed; the static
  address it is installed with is complete and its own; in the end it is recorded as
  installed. Wrong, and shown by runs: a machine that prefers the network is
  installed for ever, and an address an agent has reported turns into a static one.
* **Boundaries.** The last address of the range; a full pool; the largest address,
  where the scan for a free one wraps and, with every address taken, never ends.
  Right: as long as the range has an address that is in nobody's lease, expired ones
  included, every client is served from the range.

## Modules

| Module | Models | Extends |
|---|---|---|
| `MachinesAndTime` | machines, address space of fixed width, wall clock | |
| `NodeModel` | the record, the transition table | `MachinesAndTime` |
| `NodeStore` | the repository: one operator per method, success and failure apart | `NodeModel` |
| `NodeListing` | `List`, `ListByStatus`, the sort, and the repository on its own | `NodeStore` |
| `IPPool` | the pool: one operator per method, and `PoolSpec`, the pool on its own | `MachinesAndTime` |
| `AddressBook` | what the pool promises: an abstract specification | |
| `AddressService` | what the DHCP server promises about addresses, from run to run: an abstract specification | uses `AddressBook` |
| `Handlers` | goroutines that handle a request, and their locals | `NodeModel` |
| `DhcpServer` | `handleStandard` and `buildResponse`, in each mode of the server | `NodeStore`, `IPPool`, `Handlers` |
| `ApiServer` | `RegisterNode`, `UpdateNode` | `NodeStore`, `Handlers` |
| `StatusClient` | `onStatusMessage` | `NodeStore`, `Handlers` |
| `NodeFoundry` | the composition, with shutdown, restart and time | the three above; implements `AddressService` |
| `ServerLifecycle` | `Server.Run`, `Start`, `Shutdown`, `mqtt.Client.Start`, `onConnect` | |
| `BootScripts` | `internal/ipxe`: script, network parameters and preseed file of a record | `NodeStore` |
| `Agent` | the agent of an installed system, and its reports on their way | `MachinesAndTime` |
| `Installation` | what installing machines promises: an abstract specification | |
| `Provisioning` | the machines, and their composition with server and agents | `NodeFoundry`, `BootScripts`, `Agent`; implements `Installation` |
| `MCIPPool`, `MCNodeFoundry`, `MCNodeListing`, `MCProvisioning` | the small instances | |
| `IPPoolProofs`, `NodeFoundryProofs`, `ServerLifecycleProofs` | theorems about pool, server and life cycle | the module they are about |
| `ListingProofs` | theorems about the listing and the sort | `NodeListing` |
| `RecordProofs` | theorems about what the records hold | `NodeFoundryProofs` |
| `ProvisioningProofs` | theorems about server and machines | `Provisioning`, `NodeFoundryProofs` |
| `InstallationProofs` | theorems that relate records, disks and addresses; `Provisioning` implements `Installation` | `ProvisioningProofs`, `RecordProofs` |

**State.** `nodes` is the bucket, a function from MAC to record or `NoNode`; `db` says
whether the file is open. A record has status, ip, `net` (are the network
parameters of the pool set: netmask and, as far as configured, gateway and DNS
are always written together), creation time and last heartbeat. Hostname, update
time and extra data are only stored. `leases` and `allocated` are the maps of
`IPManager`; `scanning` says that a scan which never ends holds its mutex. `tasks` gives each goroutine its place in the handler (`pc`) and its
locals: the copy `node` of the record, the address, the type of the message.
`acked` (the last DHCPACK of each machine) and `authorised` (the machines an install
request has committed for) are history variables: no action reads them. `mode` is the
configuration of the running server: `pool`, `echo` (standard mode without a pool)
or `proxy`.

**Steps.** A handler is cut at each call of the repository or the pool, and
nowhere else; what lies between two calls uses locals only and belongs to the
step before it. `DhcpReceive` is the lookup, `DhcpSave` the first `Save`, `DhcpOffer`,
`DhcpAck` and `DhcpEcho` the three ways through `buildResponse` together with the
changes to the local record, `DhcpPersist` the second `Save` and the reply, `DhcpSend`
a reply with nothing to save. `RegisterReceive`/`RegisterSave` and
`InstallReceive`/`InstallUpdate` are the two requests of the API, `ReportReceive`/
`ReportSave` a report. A request that ends without a change (a body that does not
parse, 404, 409, an unknown machine in a report) is no step. A `Save` writes the
whole record, keeps the creation time of a record that exists and checks no
transition; only `UpdateStatus` checks inside its transaction. Every `Save` has its
failing variant, the closed database. A handler whose `AllocateIP` never returns stays
where it is (`ScanForever`), and so does every other one that comes to the pool.

**Shutdown and restart.** `Shutdown` closes the database in any state and leaves the
handlers running, as `Server.Shutdown` does for DHCP and MQTT always and for HTTP
after 30 seconds. `Restart` ends the process in any state: that covers a crash
before, between and after all steps, and the start after it, perhaps with another
configuration.

**Listing.** `NodeListing` takes the repository alone, with callers that save any
record made at any time so far, and delete. `sortNodes` is the bubble sort as
written, pass by pass, over the sequence of keys in which bbolt visits the bucket.
`Selected` is a loop that appends what it keeps: the records there are (`List`), or
those with a status (`ListByStatus`).

**Abstract specifications.** `AddressBook` is the pool without clients' leases and
time: who owns which address. `AddressService` is the DHCP server without handlers,
records, leases and clock: in each run a book from which nothing is struck out, and
what each client was told and when. `Installation` is server, machines and agents
without any message between them: who was asked for, whose disk the installer is at
work on, which disks hold a complete system, with its agent, and which records say
installed; an installation whose late command fails is one that is broken off. Each is a
PROPERTY of a run and a theorem; the mapping stands in the module that implements
it (`KeepsBook`, `ServesAddresses`, `ImplementsInstallation`).

**Boot scripts.** `scriptFor` is the switch over the status, `netParams` the second read
for the install script, `Preseed` the choice between the query and the record.
A network configuration is an address with or without netmask, gateway and DNS,
as in the record.

**Agent.** One variable for the state of the process (`absent`: the machine has none;
`stopped`, `connecting`, `confirming`, `running`, `disconnected`) and one for the reports on their way:
a set of addresses, since the agent reports nothing but "installed". A report
published twice before the first arrives is one report; each is handed over at
most once and may be lost.

**Machines.** Firmware, iPXE and installer are not part of the repository. Their
steps are those the scripts, the preseed file and the unit file tell them to
take: from `firmware` to the disk or to DHCP (`discover`, `request`), iPXE asking for its
script (`loader`), the moment between the two reads for the install script (`params`),
the kernel about to fetch the preseed file, the installer, the system; `halted` is a
machine sent to a disk without one. The installer erases system and agent
(`FetchPreseed`), and puts a system on the disk and, when the late command succeeds,
the agent (`InstallerDone`, `LateCommand`). The late command is one chain of `&&`, and
a failing link leaves a system without an agent. As the code emits it the second link
is a syntax error of the shell; the model also keeps the outcome the command is
written for, so that what lies beyond it is checked. A machine is `Equipped` when it
has both. A machine is new or comes with a system and
its agent, and its boot order is disk first, network first, or a boot menu.
`PowerFails` and `Reboot` start it over, `MaxResets` times. A DHCP reply may be lost
(`DhcpReplyLost`); a message lost on its way to the server is no step. In
`Provisioning` the actions of `NodeFoundry` are used as they are, with the machine as
their only client: `ServerImplemented` proves that nothing else was changed.

**Lifecycle.** `ServerLifecycle` is about the process as a whole, and so has no
records: the three services, the context of the group, the connection to the
broker, the signal channel `connectChan` of capacity one, and the steps of `Run`
and `Shutdown`. The paho library and the broker are external: the library
reconnects a lost connection but never the first one, and calls `onConnect` after
each; the broker goes up and down at will and may refuse a subscription. The
HTTP server may fail to bind or fail later; the DHCP server may fail to bind, or
fail while it serves, which the code only logs (`dhcp = "deaf"`).

The operators whose comment begins with "Defect" are mutations, each a
plausible bug of the definition below it. No specification uses them; they are
there to see that the properties notice.

## Runs

All bounds are constants: `MaxClock` (the clock), `MaxBoots` (restarts), `Workers`
(requests in progress at once), `MaxIP` (the width of addresses), `MaxResets` (power
failures and reboots of a machine).

| Run | Instance | What it shows |
|---|---|---|
| `MCIPPool` | 6 clients, addresses 0..4 with range 2..4, up to the largest address; clock to 3, lease time 1 | `IndexConsistent`; `ServedWhileFree`: no client is refused, or sent out of the range, or kept waiting while the range has an address without a lease; `RangeLeftWhenFull`, `LeaseKept`; `KeepsBook`: `PoolSpec` implements `AddressBook!Spec` with `owner <- allocated` |
| `MCRaces` | 1 machine, 2 workers and the MQTT loop, clock to 1 | `InstallAuthorised`, `InstalledHasReported`, `NetHasAddress`, `AckedHasRecord`, `CreatedAtFixed`, `LateInstallKeepsInstalled` under every interleaving |
| `MCAddresses` | 2 machines, 2 workers, 2 addresses and a requested one outside the pool, all three modes, one restart | `AckedUnique`, `RecordedAddressLeased`, `EchoedNotRecorded` under every interleaving of two DHCP handlers, the database closing under them, before and after a restart; `ServesAddresses`: the server implements `AddressService!Spec` |
| `MCNodeListing` | 3 machines, clock to 2 | `ListSorted`, and `ListOrderKept`: saving an old copy does not move a record |
| `MCProvisioning` | 1 machine with a disk-first order or a boot menu, new or with a system; 1 worker and the MQTT loop, modes `pool` and `proxy`, one restart, one power failure or reboot | `InstallerOnlyOnRequest`, `InstalledMeansSystem` (system and agent), `StaticReserved`; `ImplementsInstallation`: server and machines implement `Installation!Spec`; under fairness `RecordedGetsInstalled`, but for a failed late command |
| `MCServerLifecycle` | everything (the module has no constants) | `StopsForCause`, and under fairness `SignalEnds`, `HttpFailureEnds`, `ResubscribesForGood` |

Why the bounds suffice. A race on a record needs two handlers of the same
machine that overlap; three run at once in `MCRaces` (two workers and the MQTT
loop), so a third can change the record between the two. Handlers of different
machines meet only in the pool, where two of them and two addresses show every
conflict (`MCAddresses`); six clients for five addresses, three of them in the range, in
`MCIPPool` add the full range, the wrapped scan and the scan that never ends. One clock unit separates a live from an expired lease when the lease time is
0, and a kept from a fresh creation time. Restarts forget everything but the
records, so a second restart meets nothing the first did not. In
`MCAddresses` there are addresses outside the range on both sides, in `MCIPPool` below
it only, since its range ends at the largest address. Leases that expire
between two steps are left to `MCRaces` and `MCIPPool`: in `MCAddresses` and
`MCProvisioning` the clock stands still, and a live lease ends only with a restart.
Machines of `Provisioning` meet only in the pool, which `MCAddresses` covers, so one
machine is enough there; with its one address the run shows a static configuration that lacks
its netmask or its lease, and a wrong address is left to the theorem
`StaticConfigReserved`. Agents do not report in `MCAddresses`: that an address in a
record is the lease's or a reported one is shown there for machines without reports,
and for all by the theorem `StaticAddressReserved`. One worker and the MQTT loop give the overlap of a DHCP or
API handler with a report, and the boot menu gives the old agent whose report
overlaps with a new installation. Three machines make three passes of the sort,
and three different creation times fit a clock to 2. Machines and workers are interchangeable, and `Symmetry` says so; it is
used with safety properties only. Deadlock is not checked in two passing runs: in
`MCIPPool` time stops at its bound and a scan that never ends stops the pool, and in
`MCProvisioning` a machine whose late command failed rests in a system without an agent.

The runs that TLC must find violated each check one sentence of a document or
comment against the code:

| Run | The sentence | What the code does |
|---|---|---|
| `MCStatusOneWay` | "Node status transitions MUST follow: discovered → installing → installed" (`openspec/specs/node-state-management/spec.md:63`) | a DHCP handler or a report writes back an older copy: the status goes back |
| `MCRequestRenews` | a renewal extends the lease (`openspec/specs/node-discovery/spec.md:114`) | REQUEST calls `GetLease`; `RenewLease` has no caller |
| `MCLiveLeasesUnique` | leases are restored after a restart (`docs/STATIC-NETWORK.md:129`) | the pool starts empty |
| `MCBrokerOutage` | an unavailable broker does not affect DHCP (`openspec/specs/mqtt-reporting/spec.md:31`) | the failed connection cancels the group |
| `MCReinstallLoop` | "安装完成后，系统重启，Agent 通过 systemd 自动启动": after the installation the system reboots and systemd starts the agent (`README.md:264`) | the record stays installing until the agent reports, so a machine that boots over the network first gets the install script again, for ever |
| `MCProxyStatic` | in ProxyDHCP mode no address is assigned and the system uses DHCP (`docs/STATIC-NETWORK.md:43`) | an address an agent has reported is recorded, and the next installation gets it as a static one, without a netmask |

Smaller disagreements the models contain without a run of their own: two overlapping
install requests are both answered 200, although the second finds the machine
installing (`InstallReceive` looks at a copy, and `UpdateStatus` accepts the status a
machine already has); a report with a forbidden status still saves heartbeat and
address, which `openspec/specs/mqtt-reporting/spec.md:64` rules out and the comment in the
code intends (`Reported`); a range that ends at 255.255.255.255 makes the scan
counter wrap: once the range is full clients get addresses outside it (`Scanned`), and
once every address is taken the handler never returns and keeps the mutex
(`ScanForever`), where `openspec/specs/node-discovery/spec.md:96` has requests rejected
when the pool is exhausted; a DHCP server whose socket fails while it serves leaves
the process running without DHCP (`DhcpServeFails`); after any failure of DHCP or MQTT
the group waits for the HTTP server, which does not look at the context, although
the comment at `internal/server/server.go:137` says it waits for all services to
finish or to fail (`RunGroupDone`); a registration that overlaps with another
one, or with a DHCP message, overwrites the machine and is answered 201, where
`openspec/specs/node-discovery/spec.md:44` promises 409 (`RegisterSave`); the agent ends
when its first connection fails, where
`openspec/changes/implement-node-agent/specs/agent/spec.md:54` has it retry
(`AgentEnds`: systemd starts it again after 10 seconds, which comes to the same);
an address without a netmask, from an operator or a report, is given to the
installer as a static one (`netParams`, `Preseed`); the late command is said to install
the agent (`README.md:263`, `openspec/specs/node-installation/spec.md:72`), but the code
emits `DHCP_MAC=$$(cat ...)`, a syntax error of the shell, so that the installed machine
has no agent and its record stays installing (`LateCommand`). Outside the models: `getBootFile`
looks for the client's architecture in the reply, where it is not, so that every
client is sent `ipxe.efi`.

## Fairness

`ServerLifecycle` and `Provisioning` have liveness properties. The fairness of
`ServerLifecycle` is weak and per
goroutine: a goroutine that can run does (`DhcpStart`, `DhcpStop`, `HttpListen`,
`MqttConnect`, `MqttStop`, the steps of `Run` and `Shutdown`), the timer of
`MqttTimeout` fires when no signal came (it is fair together with `MqttConfirm`), and
the library's loop reconnects and calls its hook while the broker is up
(`Reconnect`, `OnConnect`). Nothing obliges a signal to come, a server to fail or
the broker to go up or down. `DhcpStart` counts binding that fails as progress.
`NodeFoundry` has no fairness: requests need not come, and its properties are safety.

In `Provisioning`

* weakly fair: the handlers and the report being handled (goroutines run); the start
  of a server whose database was closed (a service manager or an operator); what a
  machine does by itself, `GoesOn` (iPXE and installer go on, systemd starts the
  agent, the MQTT library reconnects). Its disjuncts exclude each other but for
  one machine in one phase, so fairness of the whole is fairness of each.
* strongly fair: what succeeds when it is tried again and again. A machine repeats
  its DHCP messages until one is taken up by a free worker (`DhcpMessage`) and a
  reply gets through (`DhcpReplyArrives`); the wait loop of iPXE and systemd's
  `Restart=always` repeat for ever; an operator who wants a machine installed asks
  again when it is discovered again (`Install`); an agent that is started again and
  again reaches the broker and subscribes (`Connects`, `Confirms`), and its ticker sends
  a report every 30 seconds (`Beats`) of which some arrive (`ReportArrives`).
* not fair: power failures, reboots, loss of messages and connections, the stop of a
  server, a registration.

A report copied before an install request commits can be written back after it and
undo it, and with bad luck does so every time. No fairness of the code excludes
that, so `RecordedGetsInstalled` allows it by name (`Undoes`). It also allows a machine
left with a system and no agent, by a late command that failed: nothing in the code
tries that installation again.

## Proofs

All theorems are proved by TLAPS with its SMT, Zenon and temporal backends,
from the assumptions on the constants alone (`...Assumption` in each module). Four
need more, stated in the theorem itself: `AddressesKnown` needs
`PoolEnd < MaxIP` (otherwise the scan counter wraps), and `InstallOnlyOnRequest`,
`InstallerRequested` and `InstallationImplemented` need agents not to report
`installing` (an agent that does, for a discovered machine, is accepted: the
transition table allows it).

* `IPPoolProofs`. `PoolTypeCorrect`, `PoolIndexConsistent` and `PoolKeepsBook`. Type and index agreement are inductive together: an allocation
  decides on `allocated` that an address is free and on `leases` that a client has
  none, and only agreement of the two makes the new pair unique. The lemmas on
  `AllocateIP`, `ReleaseIP` and renewal are stated for any caller and used again in
  `NodeFoundryProofs`. The refinement maps an allocation to `Grant`, a release to
  `Return`, renewal and time to stuttering. `PoolServesWhileFree` rests
  on that agreement, by which an address in nobody's lease is free in the index too; on
  the scan, which visits the whole range, wrapped or not; and on `HangsFull`, that a scan
  never ends only when every address is taken, which lasts since nothing else then gets
  the mutex. `PoolLeavesRangeWhenFull`: the scan takes the free address it comes to
  first, and comes to the range before all others. `PoolKeepsLeases` needs `ExpiryBounded`: no lease
  ends later than a lease time from now, so a renewal cannot cut it short.
* `NodeFoundryProofs`. `TypeCorrect`: the type invariant with the types of the
  handlers' locals. `InstallOnlyOnRequest`: `InstallAuthorised` is not inductive, since
  a handler may hold a copy whose status is ahead of the record; the strengthening
  `CopiesAuthorised` asks the same of every copy in `tasks`. `AddressesAckedUnique`:
  `AckedUnique` is strengthened to `Owned`: the pool's maps agree, and every address
  acknowledged in this run of the server, and every address in the hands of a
  handler about to answer, is the owner's in the index; no step of the server
  releases an address, so ownership lasts until the restart. From the same invariant,
  `ServerServesAddresses`: an allocation is `Give` or nothing new (`AllocateGrants`, of
  the pool), a reply is `Tell`, a restart `StartOver`, and all else is stuttering.
* `ServerLifecycleProofs`. `EveryStopHasACause`, with `CauseInv`: the context is done
  only for a cause, and `Shutdown` runs only after a signal. `LifecycleTypeCorrect`: the types, and that the signal channel
  never holds more than its capacity.
* `RecordProofs`. The invariants about records are not inductive, since a handler may
  write back a copy it took long ago. `RecordsInv` asks of every copy in `tasks` what
  it asks of a record: `Valid`, which looks at the record alone, and `Reserved`, which
  compares it with the machine's lease, or finds the address among those agents
  report, and lasts because a lease of the running server never changes its address
  (`AddressesKept`) and a report writes nothing else into a copy. `SavedRecorded` says that a handler past its
  first `Save` works for a machine with a record, which is why an acknowledged machine
  has one (`AckAfterRecord`). `InstalledOnReport`, `NetOnlyWithAddress`,
  `StaticAddressReserved` and `AddressesKnown` are its other consequences. `CreationKept` and
  `InstalledNotUndoneByInstall` are about steps: the database is written by `Save` and
  `UpdateStatus` only (`EveryWrite`), and what these two write follows from the types.
* `ProvisioningProofs`. `ServerImplemented`: every step of the server with its machines
  is a step of `NodeFoundry` or leaves it alone, so the theorems above hold here.
  `ProvTypeCorrect` adds the types of machines and agents. `InstallerRequested`:
  a machine that has the install script got it from a record that was installing,
  and by `InstallOnlyOnRequest` such a machine was asked for; `authorised` never
  shrinks, so this lasts through both reads, power failures and restarts.
* `InstallationProofs`. `InstalledHasSystem`: what betrays an installed system is that it
  runs, that its agent does, a report on its way, a handler's copy that says
  installed, or the record (`SystemSeen`). Each of these comes from the one before it
  only (`AgentAppears`, `OnlyReportsShow`), and a machine whose disk comes first and holds a
  system stays out of the installer (`AtHome`); so whoever is seen is at home
  (`HomeInv`), with an agent on its disk, for agents come and go with the installer only
  (`AgentStays`). A machine that prefers the network is never seen at all: it is sent to
  its disk only for a record that says installed, so its agent never runs. `StaticConfigReserved`: until a machine has a
  system it sends no reports, so its record and all copies of it hold no address but
  the one of its lease (`AllClean`); what the script and the preseed file hand on is
  then of the lease too, and stays so. `InstallationImplemented`: the installer's steps
  are `Erase`, `Complete` and, with a failed late command, `BreakOff`, for which `InstallerOnlyOnRequest` and `HomeInv`
  hold before the step; every other step leaves disks and installers alone
  (`StepsAside`) and writes at most one record, of which `InstallAuthorised` and
  `HomeInv`, after the step, say that it may be recorded.
* `ListingProofs`. `ListingSorted`: the bubble sort sorts. The loops of the code are
  recursive functions, and induction over them is `NatSetInduction`: a set of numbers
  with 0 that is closed under successor holds all, since a smallest number outside it
  would have a predecessor in it (`NatLessThanWellFounded`; the library's own induction
  theorems take an operator as parameter, which SMT, Zenon and LS4 cannot instantiate).
  The invariant of the inner loop is `Arranged` (the records, equal creation times in
  the order of keys), `Settled` (what earlier passes left at the end is oldest) and
  `Oldest` (the record the loop carries along is the oldest so far). It gives `PassSettles`,
  one pass of the outer loop, and that gives `SortSettles`. `ListingOrderKept`: a set of
  machines has one sequence in the order of times and keys (`OneOrder`), and selecting
  from an ordered sequence leaves an ordered one (`SelectedOrdered`); creation times do
  not change (`CreationKept`), so both sides are that sequence.

Only model-checked: the liveness properties of `ServerLifecycle` (`SignalEnds`,
`HttpFailureEnds`, `ResubscribesForGood`) and of `Provisioning` (`RecordedGetsInstalled`).
Liveness under fairness needs `ENABLED`, which is out of the prover's reach. Every
invariant, action property and refinement of a passing run is a theorem.

## Plan

Built, in this order: the pool and its abstract book; record, store and handlers;
the three servers and their composition; the life cycle; the repository's listing;
the modes of the DHCP server, and restarts into another one; boot scripts and preseed
files; the agent; the machines, composed with all of it, and their liveness; the
proofs of every safety property; the abstract service and the abstract installation,
and the proofs that server and machines implement them.

To come:

1. **MAC forms.** The normalisations of `model.NormalizeMAC`, of the pool and of the agent,
   over a bounded set of forms: one machine has one key.
2. **Boot options** of DHCP replies, once it is settled which options the library
   copies into a reply.
3. **The listing of the running server**: `NodeListing` over the records of `NodeFoundry`,
   by a mapping of its steps to those of the repository on its own.
4. **Time in `Provisioning`.** Its clock stands still, so no lease expires there. An
   abstract pool, which only tells live from expired leases, would make room for it.

## Not modelled, and why

* Formatting of scripts, JSON and logs. No property is about them.
* Reading and parsing of the configuration: what it decides, the mode of the DHCP
  server, is chosen at each start; the rest is constants.
* MAC forms: a machine is one key. The normalisations agree on the forms the callers
  send, lower or upper case with colons.
* Requests that only read: `GetNode`, the health check and the downloads. `Delete` and
  `ListByStatus` have no caller in the program, and are used in `NodeListing` only.
* The DHCP messages of installed systems: such a system has a static address or asks
  another DHCP server.
* `echo` mode in `Provisioning`: a machine is given the address it asked for, and has
  none to ask for; the mode is covered in `NodeFoundry`.
* BIOS machines and the boot options of a reply.
* Several interfaces in one machine: the agent reports the first address it finds.
* The late command's shell commands one by one: it succeeds or fails as a whole. An
  installer that shows an error when it fails is taken to be told to go on.
* A clock that goes backwards; lease expiry in `Provisioning`.
* bbolt itself: a transaction is atomic and durable. A full disk or a damaged file
  is left out; it would make `Save` fail like the closed database.
* More than one server process on one file: bbolt locks it.
* The network between client and DHCP server: a client may send any message at any
  time, any number of times, which covers loss, duplication and reordering of its
  messages; a lost reply is a client that repeats its request.
* DHCP message types other than DISCOVER and REQUEST are ignored by the code
  (RELEASE and DECLINE too: `ReleaseIP` has no caller, and is an action of `PoolSpec`
  only).
