CONSTANTS
    Modes = {"aggregated", "nonaggregated"}
    ChannelIds = {1, 2}
    GroupIds = {2, 3}
    Capacity = 2
    MaxChannelId = 2
    MaxRequest = 2
    MaxJob = 2
    MaxPrefix = 1
    MaxTarget = 1
    MaxChurn = 1
    MaxShare = 1
    MaxEffort = 5
SPECIFICATION Spec
INVARIANTS HashedAsChecked Sv1ViewAgrees ChannelsConsistent
PROPERTIES EveryRequestAnswered
CHECK_DEADLOCK FALSE
