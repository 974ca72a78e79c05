SPECIFICATION Spec
CONSTANTS
    Handlers = {h1, h2}
    Users = {u1, u2}
    MaxFaults = 1
    Hosted = {1, 2}
    Host = 1
    Seated = {1}
    Rooms = {"r"}
    MaxStreams = 2
    MaxRequests = 2
    MaxVersion = 2
    Options = {1, 2}
    Multi = FALSE
    Clients = {1, 2}
    MaxSeq = 2
    SyncLimit = 2
    Numbers = {1}
    SyncDailyLimit = 2
    MaxMoves = 3
    Author = "author"
    Messages = {1, 2}
    MaxBackups = 3
    Threshold = 2
    MaxDeliveries = 2
    Reminders = {1, 2}
    Cap = 1
    Day = 3
    Subjects = {"a"}
    Bucket <- Slots
    MaxWrites = 2
    Emission = 3
    Burst = 3
    Second = 2
    MaxTime = 12
    MaxActions = 2
    Counted = {"u"}
    MaxDay = 2
    MAUWindow = 3
    Slack = 0
    Retention = 1
    MaxEvents = 2
SYMMETRY Symmetry
INVARIANTS
    RoomsSound
    SharedSound
    SocialSound
    
    NotifySound
    PlatformSound
CHECK_DEADLOCK FALSE
