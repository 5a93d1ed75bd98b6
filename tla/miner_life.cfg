CONSTANTS
    Upstreams = 2
    MaxRetries = 2
SPECIFICATION Spec
INVARIANTS NoSpuriousShutdown CyclesSeparate
PROPERTIES TokensResolve
CHECK_DEADLOCK FALSE
