SPECIFICATION FairSpec
CONSTANTS
    u1 = u1
    u2 = u2
    bad = bad
    Urls <- MCUrls
    BadUrls <- MCBadUrls
    HeartIntervals <- MCHeartIntervals
    MaxSockets = 4
INVARIANTS
    TypeOK
    LiveIsTracked
    NeverStranded
    OneHeartbeat
PROPERTIES
    KeepsDialling
