SPECIFICATION FairSpec
CONSTANTS
    a = a
    b = b
    Calls <- MCCalls
    MaxWait = 2
    MaxNotifications = 2
INVARIANTS
    PendingIsServed
    OutcomesExplained
PROPERTIES
    EveryCallSettles
CHECK_DEADLOCK FALSE
