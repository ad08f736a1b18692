SPECIFICATION FairSpec
CONSTANTS
    io = io
    timer = timer
    session = session
    NoTask = NoTask
    Tasks <- MCTasks
    MaxCalls = 2
INVARIANTS
    NoLostWakeup
PROPERTIES
    EveryWaiterGetsIn
    ImplementsLock
