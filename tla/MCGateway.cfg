SPECIFICATION MCSpec
CONSTANTS
    Pods = {p1, p2}
    Conns = {c1, c2}
    Clients = {k1, k2}
    MaxFaults = 3
    NoPod = NoPod
    NoConn = NoConn
    NoClient = NoClient
    PresencePods = {p1, p2}
    PresenceDevices = {d1}
    PresenceConns = {c1, c2, c3}
    PresenceFaults = 1
    NoDevice = NoDevice
    ReceiptConns = {1, 2}
    MaxSeq = 2
    MaxSends = 3
    MaxFlips = 1
    FeedTargets = {1, 2}
    FeedChannels = {3}
    MaxSubscriptions = 1
    MaxChanges = 2
    FanoutDevices = {1, 2, 3}
    Workers = {1, 2}
    QueueDepth = 1
    BatchSize = 2
    MaxSubmits = 2
    CallFaults = 1
CHECK_DEADLOCK FALSE
INVARIANTS
    
    PresenceSound
    
    FanoutSound
PROPERTIES
    GatewayLive
