CONSTANTS
    d1 = d1
    d2 = d2
    Downstreams = {d1, d2}
    Modes = {"solo", "full", "coinbase"}
    Hashes = {1, 2}
    CacheCapacity = 1
    Capacity = 2
    MaxTemplate = 3
    MaxRequest = 2
    MaxOpens = 1
    StdDownstreams = {d2}
    ExtDownstreams = {d1}
    MaxChurn = 1
    MaxEffort = 5
SPECIFICATION Spec
INVARIANTS PendingAllProcessed
CHECK_DEADLOCK FALSE
