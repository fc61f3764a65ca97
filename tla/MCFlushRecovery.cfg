SPECIFICATION Spec
CONSTANTS
    c1 = c1
    c2 = c2
    j1 = j1
    j2 = j2
    CFs = {c1, c2}
    Jobs = {j1}
    Batches <- TwoCFs
    AvoidFlush = FALSE
    MaxWrites = 2
    Faults <- CrashOrError
INVARIANTS
    SyncedWritesSurvive
    NoUpdateTwice
    BatchesAtomic
    OpenSucceeds
