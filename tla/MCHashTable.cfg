CONSTANTS
    t1 = t1
    t2 = t2
    k1 = k1
    k2 = k2
    k3 = k3
    a1 = a1
    a2 = a2
    a3 = a3
    a4 = a4
    Threads <- MCThreads
    Keys <- MCKeys
    Addrs <- MCAddrs
    KeyAt <- MCKeyAt
    Hash64 <- MCHash64
    NumPartition = 2
    NumBucket = 2
    NumSlot = 2
    SigUnit = 2
    PartUnit = 2
    Empty = Empty
    NoAddr = NoAddr
SPECIFICATION HFairSpec
INVARIANTS
    UniqueKey
PROPERTIES
    SlotKeyStable
    RefusedOnlyWhenFull
    LinearizableMap
    CallsReturn
