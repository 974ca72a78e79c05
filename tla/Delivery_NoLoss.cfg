SPECIFICATION Spec
CHECK_DEADLOCK FALSE
CONSTANTS
    NConvs = 1
    MaxSeq = 3
    MaxTotal = 3
    BatchSize = 2
    QueueCap = 2
    BufferCap = 2
    MaxBreaks = 1
INVARIANTS
    NoLoss
