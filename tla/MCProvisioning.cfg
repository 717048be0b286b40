\* One machine, that boots its disk first or what someone chooses each time, from its
\* first boot to the reports of its agent, with a restart and a power failure.
\* A machine whose late command failed rests in a system without an agent: hence no
\* check for deadlock.
CONSTANTS
    MACs = {m1}
    Workers = {w1}
    MqttLoop = mqtt
    Idle = Idle
    NoNode = NoNode
    NoLease = NoLease
    NoMAC = NoMAC
    NotAcked = NotAcked
    Modes = {"pool", "proxy"}
    MaxIP = 1
    PoolStart = 1
    PoolEnd = 1
    LeaseTime = 0
    RequestIPs = {}
    RegisterIPs = {}
    ReportIPs = {1}
    Reports = {"installed"}
    MaxClock = 0
    MaxBoots = 1
    BootOrders = {"disk", "menu"}
    OtherIP = 1
    MaxResets = 1
SPECIFICATION ProvSpec
INVARIANTS ProvTypeOK InstallerOnlyOnRequest InstalledMeansSystem StaticReserved
PROPERTIES ImplementsInstallation RecordedGetsInstalled
CHECK_DEADLOCK FALSE
