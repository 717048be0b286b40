\* One machine: its DHCP, HTTP and MQTT handlers overlap in every way.
CONSTANTS
    MACs = {m1}
    Workers = {w1, w2}
    MqttLoop = mqtt
    Idle = Idle
    NoNode = NoNode
    NoLease = NoLease
    NoMAC = NoMAC
    NotAcked = NotAcked
    Modes = {"pool"}
    MaxIP = 2
    PoolStart = 1
    PoolEnd = 1
    LeaseTime = 0
    RequestIPs = {}
    RegisterIPs = {}
    ReportIPs = {}
    Reports = {"installed"}
    MaxClock = 1
    MaxBoots = 0
SPECIFICATION Spec
SYMMETRY Symmetry
INVARIANTS TypeOK InstallAuthorised InstalledHasReported NetHasAddress AckedHasRecord
PROPERTIES CreatedAtFixed LateInstallKeepsInstalled
