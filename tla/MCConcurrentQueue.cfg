CONSTANTS
    p1 = p1
    p2 = p2
    c1 = c1
    c2 = c2
    o1 = o1
    Pushers <- MCPushers
    Poppers <- MCPoppers
    Observers <- MCObservers
    Quotas <- MCQuotas
    Pages <- MCPages
    NQueue = 2
    Phi = 3
    ItemsPerPage = 2
    NoPage = NoPage
    Nothing = Nothing
    Nobody = Nobody
SPECIFICATION HSpec
INVARIANTS
    OneAtATime
    PushOverBeforePop
    PagesAccounted
    WalksMeetItems
PROPERTIES
    LinearizableQueue
    CallsReturn
