\* A machine with an agent and a server in proxy mode: ProxyUsesDhcp is violated.
\* A machine whose late command failed rests in a system without an agent: hence no
\* check for deadlock.
CONSTANTS
    MACs = {m1}
    Workers = {w1}
    MqttLoop = mqtt
    Idle = Idle
    NoNode = NoNode
    NoLease = NoLease
    NoMAC = NoMAC
    NotAcked = NotAcked
    Modes = {"proxy"}
    MaxIP = 3
    PoolStart = 1
    PoolEnd = 1
    LeaseTime = 0
    RequestIPs = {}
    RegisterIPs = {}
    ReportIPs = {1, 2}
    Reports = {"installed"}
    MaxClock = 0
    MaxBoots = 0
    BootOrders = {"menu"}
    OtherIP = 2
    MaxResets = 1
SPECIFICATION ProvSpec
INVARIANT ProxyUsesDhcp
CHECK_DEADLOCK FALSE
