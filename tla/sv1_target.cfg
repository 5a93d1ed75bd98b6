CONSTANTS
    Newcomer = "d1"
    Veteran = "d2"
    Modes = {TRUE, FALSE}
    Vardiffs = {TRUE, FALSE}
    MaxQueued = 2
    MaxPast = 2
    MaxRoll = 1
    Targets = {2, 3}
    FirstTarget = 4
    MaxOpen = 2
    MaxJob = 3
    MaxPrefix = 1
    MaxTip = 1
    MaxTarget = 2
    MaxKeepalive = 1
    MaxShare = 1
    MaxLoss = 1
    MaxEffort = 3
    MaxJointEffort = 1
SPECIFICATION Spec
INVARIANTS ValidatesAdvertisedTarget
CHECK_DEADLOCK FALSE
