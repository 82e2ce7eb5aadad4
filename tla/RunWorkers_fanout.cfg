CONSTANTS
    top = top
    c1 = c1
    c2 = c2
    w1 = w1
    w2 = w2
    i1 = i1
    NoRun = NoRun
    NoWorker = NoWorker
    Runs <- Triple
    ParentOf <- FanOut
    RootOf <- AllUnderTop
    Workers = {w1, w2}
    Inline = {}
    MaxTotalSpawns = 2
    MaxAttempts = 2
    PoisonCap = 1
    MaxLapses = 1
    Faults = {"cancel"}
SPECIFICATION WSpec
SYMMETRY FanOutSymmetry
INVARIANTS NoLostWakeup SpawnBudget NoOrphans
CHECK_DEADLOCK FALSE
