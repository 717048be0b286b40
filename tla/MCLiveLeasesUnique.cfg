\* Two machines and a restart: LiveLeasesUnique is violated.
CONSTANTS
    MACs = {m1, m2}
    Workers = {w1}
    MqttLoop = mqtt
    Idle = Idle
    NoNode = NoNode
    NoLease = NoLease
    NoMAC = NoMAC
    NotAcked = NotAcked
    Modes = {"pool"}
    MaxIP = 3
    PoolStart = 1
    PoolEnd = 2
    LeaseTime = 0
    RequestIPs = {}
    RegisterIPs = {}
    ReportIPs = {}
    Reports = {"installed"}
    MaxClock = 1
    MaxBoots = 1
SPECIFICATION Spec
SYMMETRY Symmetry
INVARIANT LiveLeasesUnique
