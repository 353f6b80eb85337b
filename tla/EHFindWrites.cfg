CONSTANTS
    t1 = t1
    t2 = t2
    v1 = v1
    v2 = v2
    NullValue = NullValue
    Absent = Absent
    NoThread = NoThread
    Threads <- MCThreads2
    Values <- MCValues1
    Keys = {0, 1}
    BucketSize = 1
    MaxDepth = 2
SPECIFICATION Spec
PROPERTY FindReadOnly
