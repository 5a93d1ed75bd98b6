CONSTANTS
    m1 = m1
    m2 = m2
    poolScript = poolScript
    minerScript = minerScript
    invalid = invalid
    Scripts = {poolScript, minerScript}
    Invalid = invalid
    Size <- OutputSizes
    SigopCost <- OutputSigops
    Miners = {m1, m2}
    MinerFlags <- Flags
    Payouts = {"pool", "solo"}
    PoolPayout = "pool"
    Targets = {0, 1}
    JdsPresent = TRUE
    MaxTemplate = 3
    MaxChannel = 3
    Capacity = 2
SPECIFICATION MCSpec
INVARIANTS RegistersAgree BlocksPayPolicy CustomJobFindsChannel MinersInStep
PROPERTIES ConnectionsEnd
CHECK_DEADLOCK FALSE
