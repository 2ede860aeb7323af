CONSTANTS
    t1 = t1
    t2 = t2
    t3 = t3
    Null = Null
    Threads <- ThreeThreads
    Keys <- SixKeys
    Values <- MCValues
    Entries <- OneEach
    Asked = {}
    LeafSlots = 2
    InnerSlots = 2
    MaxNode = 14
SPECIFICATION FairSpec
CHECK_DEADLOCK FALSE
PROPERTIES
    InsertsReturn
