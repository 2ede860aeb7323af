CONSTANTS
    s1 = s1
    s2 = s2
    b1 = b1
    b2 = b2
    k1 = k1
    k2 = k2
    k3 = k3
    k4 = k4
    a1 = a1
    a2 = a2
    a3 = a3
    a4 = a4
    a5 = a5
    a6 = a6
    Servers <- MCServers
    Backends <- MCBackends
    Keys <- MCKeys
    Addrs <- MCAddrs
    KeyOf <- MCKeyOf
    Writers <- MCWriters
    QueueOf <- MCQueueOf
    BucketOf <- MCBucketOf
    NumSlot = 2
    NoAddr = NoAddr
CHECK_DEADLOCK FALSE
SPECIFICATION FairSpec
INVARIANTS
    DurableFirst
    TaskOnce
    SameKeys
    TreeAgrees
PROPERTIES
    TreeFollowsIndex
    TreeCatchesUp
