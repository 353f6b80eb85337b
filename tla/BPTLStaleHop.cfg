CONSTANTS
    Keys = {1, 2, 3, 4, 5, 6}
    LeafMax = 2
    InternalMax = 3
    MaxPageId = 10
    PoolSize = 7
    INVALID_PAGE_ID = INVALID_PAGE_ID
    t1 = t1
    t2 = t2
    Threads <- MCThreads
    Calls <- MCStaleHopCalls
    MaxCalls = 1
    InitKeys <- MCInitKeys
SPECIFICATION Spec
INVARIANT
    NoInvalidAccess
CHECK_DEADLOCK FALSE
