CONSTANTS
    Workers = {w1, w2}
    MaxJobs = 2
    Orders <- MCOrders
    Known = {1, 2}
    Items = {"x", "y"}
    Start <- MCStart
    MaxCount = 2
    MaxSize = 2
    Tries = 2
    MaxFaults = 2
    None = None
SPECIFICATION FairSpec
CHECK_DEADLOCK FALSE
INVARIANTS
    PoolSound
    LogExplains
    OnceAsTold
PROPERTIES
    JobsEnd
