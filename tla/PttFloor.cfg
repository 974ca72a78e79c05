SPECIFICATION FairSpec
CONSTANTS
    Devices = {a, b, c, d}
    NoDevice = NoDevice
    MaxQueue = 2
    Lease = 1
    MaxFence = 3
    Slots = {h1}
    MaxFaults = 1
CHECK_DEADLOCK FALSE
INVARIANTS
    QueueSound
    
    EffectsAgree
    ScriptMatchesDomain
PROPERTIES
    NoOvertaking
    WaitersServed
