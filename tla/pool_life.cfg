CONSTANTS
    Tasks <- SomeTasks
    Callers = {c1}
SPECIFICATION LiveSpec
 
PROPERTIES ProviderDeathStopsPool WaitingCallerReturns
CHECK_DEADLOCK FALSE
