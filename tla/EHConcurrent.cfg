\* Two threads, four keys with distinct hashes, buckets of one key and a
\* directory of at most four slots: each thread can raise its bucket's
\* localDepth while the other splits or doubles the directory.  A key that
\* the stale read of line 114 puts in a bucket it does not belong to has
\* the same low bits as that bucket's key, so its split loop would go on
\* past any depth; the bound stops that thread there, which is the only
\* deadlock, so deadlock is not checked.
CONSTANTS
    t1 = t1
    t2 = t2
    v1 = v1
    v2 = v2
    NullValue = NullValue
    Absent = Absent
    NoThread = NoThread
    Threads <- MCThreads2
    Values <- MCValues1
    Keys = {0, 1, 2, 3}
    BucketSize = 1
    MaxDepth = 2
SPECIFICATION Spec
INVARIANT DirectoryConsistent
CHECK_DEADLOCK FALSE
