SPECIFICATION FairSpec
CONSTANTS
    w1 = w1
    w2 = w2
    w3 = w3
    k1 = k1
    Writers = {w1, w2, w3}
    Lockers = {k1}
    Instances <- Both
    MaxGroupBytes = 16
    MaxStalls = 2
    Dummy = Dummy
    None = None
INVARIANTS
    OldestIsTheLeader
    NoDanglingWriter
    NewerLinksLazyButRight
    NoSlowdownNeverQueuedInStall
    UnlockWALWaitsForStall
    PublishedIsInserted
    SequencesDisjoint
    ReplayAgreesWithMemtable
    AcknowledgedIsLogged
PROPERTY EveryCallReturns
