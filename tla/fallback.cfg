CONSTANTS
    listener = listener
    manager = manager
    conn1 = conn1
    conn2 = conn2
    Tasks <- AllTasks
    LongLived <- Services
    Early <- Services
    LateTasks <- NoTasks
SPECIFICATION FairSpec
INVARIANTS  NoLostWakeup
PROPERTIES FallbackCompletes
