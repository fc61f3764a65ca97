SPECIFICATION FairSpec
CONSTANTS
    t1 = t1
    t2 = t2
    Threads = {t1, t2}
    MaxVersion = 3
    kSVInUse = kSVInUse
    Null = Null
INVARIANTS
    RefsCountHolders
    NoUseAfterCleanup
    SlotNeverLastRef
    ReadIsFresh
    CfdOutlivesSuperVersions
PROPERTIES
    TeardownFindsNoMark
    EverythingReclaimed
CHECK_DEADLOCK FALSE
