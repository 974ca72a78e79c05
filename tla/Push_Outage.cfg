INIT Init
NEXT Next
CONSTANTS
    Pods = {p1}
    Pushes = {m1, m2}
    Threshold = 2
    MaxDeliveries = 2
    MaxFaults = 0
INVARIANTS
    OutageNeverDrops
CHECK_DEADLOCK FALSE
