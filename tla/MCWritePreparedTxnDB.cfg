SPECIFICATION FairSpec
CONSTANTS
    t1 = t1
    t2 = t2
    r1 = r1
    r2 = r2
    Txns = {t1, t2}
    Readers = {r1, r2}
    Nobody = Nobody
    OptionSets <- AllOptions
    COMMIT_CACHE_SIZE = 1
    SNAPSHOT_CACHE_SIZE = 1
    kMaxSequenceNumber = 20
INVARIANTS
    ReadsAreExact
    MinUncommittedIsSound
    NothingLeftBehind
PROPERTY
    EveryoneFinishes
CHECK_DEADLOCK FALSE
