CONSTANTS
    t1 = t1
    t2 = t2
    t3 = t3
    Null = Null
    Threads <- TwoThreads
    Keys <- SixKeys
    Values <- MCValues
    Entries <- MCEntries
    Asked <- MCAsked
    LeafSlots = 2
    InnerSlots = 2
    MaxNode = 16
SPECIFICATION Spec
SYMMETRY Symmetry
INVARIANTS
    ScanAtRest
    IteratorAtRest
    PrintAtRest
PROPERTY AtomicMap
