SPECIFICATION FairSpec
CONSTANTS
    c1 = c1
    c2 = c2
    c3 = c3
    own = own
    old = old
    None = None
    Callbacks <- MCCallbacks
    Keys <- MCKeys
    OldKeys <- MCOldKeys
    SelfKeys <- MCSelfKeys
    CacheMax = 1
    MaxList = 2
INVARIANTS
    TypeOK
    SingleFlight
    EmissionsExplained
PROPERTIES
    HandledOrAttempted
    CallbacksReturn
    ImplementsReport
