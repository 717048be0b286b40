\* Two machines compete for two addresses, before and after a restart, perhaps in
\* another mode.  Machines ask for an address outside the pool.
CONSTANTS
    MACs = {m1, m2}
    Workers = {w1, w2}
    MqttLoop = mqtt
    Idle = Idle
    NoNode = NoNode
    NoLease = NoLease
    NoMAC = NoMAC
    NotAcked = NotAcked
    Modes = {"pool", "echo", "proxy"}
    MaxIP = 3
    PoolStart = 1
    PoolEnd = 2
    LeaseTime = 0
    RequestIPs = {3}
    RegisterIPs = {}
    ReportIPs = {}
    Reports = {}
    MaxClock = 0
    MaxBoots = 1
SPECIFICATION Spec
SYMMETRY Symmetry
INVARIANTS AckedUnique RecordedAddressLeased EchoedNotRecorded
PROPERTY ServesAddresses
