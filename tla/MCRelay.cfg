SPECIFICATION MCSpec
CHECK_DEADLOCK FALSE
CONSTANTS
    NConvs = 2
    MaxSeq = 2
    MaxTotal = 3
    BatchSize = 2
    QueueCap = 2
    BufferCap = 1
    MaxBreaks = 1
    Msgs = {m1, m2}
    Sockets = {s1, s2, s3}
    MaxTasks = 1
    MaxTransient = 1
    NoSock = NoSock
    StoreSeq = 5
    Overlays = {3}
    StoreBatch = 2
    MaxJobs = 2
    MaxCrashes = 2
    MaxFails = 1
INVARIANTS
    DeliverySound
    ClientSound
    StoreSound
PROPERTIES
    
    RelayLive
