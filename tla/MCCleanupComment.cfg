SPECIFICATION Spec
CONSTANTS
    f1 = f1
    f2 = f2
    r1 = r1
    r2 = r2
    r3 = r3
    None = None
    Files <- MCFiles
    Records <- MCRecords
    file <- MCfile
    MAX_RETRIES = 2
    MaxQueue = 2
INVARIANTS
    SupersededIsCancelled
