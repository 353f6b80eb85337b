CONSTANTS
    f1 = f1
    f2 = f2
    c1 = c1
    c2 = c2
    NoFrame = NoFrame
    Frames <- MCFrames
    Clients <- MCClients
    MaxPageId = 3
    MaxPins = 1
    MaxVersion = 1
    AssertsEnabled = TRUE
    ReplacerBuild = "project1"
SPECIFICATION Spec
INVARIANT TypeOK
INVARIANT PageTableConsistent
INVARIANT FrameStatesPartition
INVARIANT PinsAccounted
PROPERTY DirtyVictimWrittenBack
PROPERTY PoolEvictsLeastRecent
CHECK_DEADLOCK FALSE
