CONSTANTS
    top = top
    c1 = c1
    c2 = c2
    w1 = w1
    w2 = w2
    i1 = i1
    NoRun = NoRun
    NoWorker = NoWorker
    Runs <- Pair
    ParentOf <- FanOut
    RootOf <- AllUnderTop
    Workers = {w1, w2}
    Inline = {i1}
    MaxTotalSpawns = 1
    MaxAttempts = 2
    PoisonCap = 1
    MaxLapses = 1
    Faults = {"crash", "pause", "spawn"}
SPECIFICATION WSpec
SYMMETRY WorkerSymmetry
INVARIANTS NoLostWakeup PoisonNeverRuns SpawnBudget
CHECK_DEADLOCK FALSE
