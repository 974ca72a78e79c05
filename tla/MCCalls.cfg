SPECIFICATION MCSpec
CONSTANTS
    Offers = {r1, r2}
    MaxStarts = 2
    Caller = c
    Callees = {d1, d2}
    Handlers = {h1, h2}
    MaxFaults = 1
    NoDevice = NoDevice
    NCalls = 4
    Limit = 1
    MaxWrites = 4
CHECK_DEADLOCK FALSE
INVARIANTS
    MediaFollowsCall
    RingSound
    HistorySound
PROPERTIES
    PhaseForward
    ConnectingEnds
    RingOneWay
    RingEnds
