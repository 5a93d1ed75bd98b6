CONSTANTS
    jdc = jdc
    other = other
    alice = alice
    bob = bob
    j1 = j1
    j2 = j2
    bad = bad
    Clients = {jdc, other}
    JdcClients = {jdc}
    Identities = {alice, bob}
    Jobs = {j1, j2, bad}
    BadCoinbase = {bad}
    RequestIds = {0}
    Budget <- MaxBudget
    MaxCalls = 2
    MaxTip = 1
SPECIFICATION MCSpec
INVARIANTS JdcServed AcceptedWasValidated
PROPERTIES SpentOnce  
