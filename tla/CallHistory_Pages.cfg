INIT Init
NEXT Next
CONSTANTS
    Ids = {1, 2, 3}
    Limit = 1
    MaxWrites = 3
INVARIANTS
    EveryRecordListed
CHECK_DEADLOCK FALSE
