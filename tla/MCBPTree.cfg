CONSTANTS
    t1 = t1
    t2 = t2
    t3 = t3
    Null = Null
    Threads <- ThreeThreads
    Keys <- SixKeys
    Values <- MCValues
    Entries <- MCEntries
    Asked = {3}
    LeafSlots = 2
    InnerSlots = 2
    MaxNode = 14
SPECIFICATION Spec
SYMMETRY Symmetry
CHECK_DEADLOCK FALSE
INVARIANTS
    TypeOK
    OneWriter
    PathFindsKey
    ParentLinks
    LinkTarget
    ChainSorted
