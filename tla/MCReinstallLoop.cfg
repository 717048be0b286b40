\* One machine that tries the network first: AgentFollowsInstallation is violated.
CONSTANTS
    MACs = {m1}
    Workers = {w1}
    MqttLoop = mqtt
    Idle = Idle
    NoNode = NoNode
    NoLease = NoLease
    NoMAC = NoMAC
    NotAcked = NotAcked
    Modes = {"pool"}
    MaxIP = 3
    PoolStart = 1
    PoolEnd = 1
    LeaseTime = 0
    RequestIPs = {}
    RegisterIPs = {}
    ReportIPs = {1, 2}
    Reports = {"installed"}
    MaxClock = 0
    MaxBoots = 0
    BootOrders = {"network"}
    OtherIP = 2
    MaxResets = 0
SPECIFICATION ProvSpec
PROPERTY AgentFollowsInstallation
