SPECIFICATION FairSpec
CONSTANTS
    p1 = p1
    None = None
    Ids <- MCIds
    message <- MCmessage
    hooks <- MChooks
    MaxRequests = 3
    MaxEntries = 2
    MaxEvents = 1
INVARIANTS
    
    LoadedIsEnabled
PROPERTIES
    
    EveryRequestEnds
CHECK_DEADLOCK FALSE
