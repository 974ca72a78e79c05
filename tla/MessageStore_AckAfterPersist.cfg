SPECIFICATION Spec
CONSTANTS
    MaxSeq = 4
    Overlays = {3}
    BatchSize = 2
    MaxJobs = 2
    MaxCrashes = 0
    MaxFails = 0
CHECK_DEADLOCK FALSE
INVARIANTS
    AckAfterPersist
