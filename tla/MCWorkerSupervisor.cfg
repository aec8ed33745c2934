SPECIFICATION FairSpec
CONSTANTS
    c1 = c1
    c2 = c2
    Calls <- MCCalls
    MaxWorkers = 4
    MAX_CRASHES_IN_WINDOW = 3
INVARIANTS
    TypeOK
    OneWorker
    PlannedExitIsNoCrash
    NoOrphan
PROPERTIES
    RestartEnds
    WorkerComesBack
CHECK_DEADLOCK FALSE
