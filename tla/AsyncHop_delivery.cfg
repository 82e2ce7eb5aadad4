CONSTANTS
    NoOne = NoOne
    d1 = d1
    d2 = d2
    Dispatchers = {d1, d2}
    redeliveryBackoff <- ShortBackoff
    asyncDispatchTimeout = 1
    dedupeTTL = 4
    MaxCrashes = 1
SPECIFICATION AsyncFairSpec
INVARIANTS AsyncTypeOK OneCallPerClaim DropsOnlyAfterFailedClaim OpenAcksAreEarned BudgetSpansOutage
PROPERTY HopSettles
CHECK_DEADLOCK FALSE
