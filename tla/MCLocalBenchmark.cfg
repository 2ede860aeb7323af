CONSTANTS
    b1 = b1
    b2 = b2
    NumThreads = 2
    NumKv = 2
    Halves = {0, 1}
    Servers <- MCServers
    Backends <- MCBackends
    Keys <- MCKeys
    Addrs <- MCAddrs
    KeyOf <- MCKeyOf
    Writers <- MCWriters
    QueueOf <- MCQueueOf
    BucketOf <- MCBucketOf
    NumSlot = 2
    NoAddr = NoAddr
CHECK_DEADLOCK FALSE
SPECIFICATION BSpec
INVARIANTS
    TreeMatchesIndex
    FoundKeys
    PrintedTotals
PROPERTIES
    LocalBenchmarkEnds
