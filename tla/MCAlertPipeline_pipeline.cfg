CONSTANTS
    d1 = d1
    d2 = d2
    w1 = w1
    w2 = w2
    k1 = k1
    k2 = k2
    Schedulers = {d1}
    Workers = {w1, w2}
    Writers = {k1, k2}
    WorkerOf <- MCTwoWorkers
    CacheSize = 1
    QueueSize = 1
    MaxAge = 1
    StaleAfter = 0
    LostAfter = 0
    MaxPoints = 2
    MaxTime = 2
    MaxFaults = 1
    MaxSaves = 1
    MaxSeries = 2
    MaxLength = 4
    Steps = 2
    NumProbes = 2
    Responses <- MCResponses
SPECIFICATION Spec
SYMMETRY Pairs
INVARIANTS TypeOK NotifiedOnce Healed AskedOnce EvalIsRight
CHECK_DEADLOCK FALSE
