CONSTANTS
    top = top
    c1 = c1
    c2 = c2
    w1 = w1
    NoRun = NoRun
    NoWorker = NoWorker
    Runs <- MCRuns
    ParentOf <- FanOut
    Workers = {w1}
    MaxTotalSpawns = 1
    MaxAttempts = 1
SPECIFICATION FairSpec
INVARIANTS TypeOK ParkedConsistent WakeAgreement RemovedAreSpent
PROPERTIES Lifecycle LifecycleFair
CHECK_DEADLOCK FALSE
