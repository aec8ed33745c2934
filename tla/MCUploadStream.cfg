SPECIFICATION FairSpec
CONSTANTS
    d1 = d1
    d2 = d2
    d3 = d3
    m1 = m1
    m2 = m2
    n1 = n1
    c1 = c1
    c2 = c2
    None = None
    Partial = Partial
    Lives <- MCLives
    id <- MCid
    filename <- MCfilename
    fileSize <- MCfileSize
    expectsSha256 <- MCexpects
    totalChunks <- MCtotalChunks
    MEMORY_THRESHOLD = 1
    MEMORY_LIMIT = 1
    Workloads <- MCWorkloads
    Calls <- MCCalls
INVARIANTS
    MemoryAccounted
    TimersMatchStreams
    SavedFilesAreWhole
PROPERTIES
    EveryStreamEnds
CHECK_DEADLOCK FALSE
