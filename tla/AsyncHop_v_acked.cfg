CONSTANTS
    NoOne = NoOne
    d1 = d1
    d2 = d2
    Dispatchers = {d1, d2}
    redeliveryBackoff <- ShortBackoff
    asyncDispatchTimeout = 1
    dedupeTTL = 4
    MaxCrashes = 0
SPECIFICATION AsyncSpec
INVARIANT AckedWasProcessed
CHECK_DEADLOCK FALSE
