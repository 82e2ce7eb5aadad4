CONSTANTS
    j1 = j1
    j2 = j2
    w1 = w1
    w2 = w2
    q1 = q1
    q2 = q2
    da = da
    db = db
    k1 = k1
    NoRun = NoRun
    NoWorker = NoWorker
    Runs = {j1, j2}
    ParentOf <- NoParents
    Workers = {w1, w2}
    MaxTotalSpawns = 1
    MaxAttempts = 3
    Documents <- TwoDocs
    Chunks = {k1}
    Requesters = {q1}
    Faults = {"crash", "drain", "lapse", "rate", "status", "cancel"}
    Namesake = TRUE
    MaxFaults = 1
SPECIFICATION IngestFairSpec
INVARIANTS IngestTypeOK ReadyIsWhole
PROPERTIES DoneStaysDone IngestionEnds
CHECK_DEADLOCK FALSE
