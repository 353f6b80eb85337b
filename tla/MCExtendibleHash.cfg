CONSTANTS
    t1 = t1
    t2 = t2
    v1 = v1
    v2 = v2
    NullValue = NullValue
    Absent = Absent
    NoThread = NoThread
    Threads <- MCThreads1
    Values <- MCValues
    Keys = {0, 1, 2, 3, 4}
    BucketSize = 2
    MaxDepth = 3
SPECIFICATION FairSpec
INVARIANT TypeOK
INVARIANT DirectoryConsistent
INVARIANT KeysWellPlaced
PROPERTY MapRefinement
PROPERTY InsertReturns
