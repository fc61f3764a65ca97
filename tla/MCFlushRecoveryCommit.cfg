SPECIFICATION FairSpec
CONSTANTS
    c1 = c1
    c2 = c2
    j1 = j1
    j2 = j2
    CFs = {c1}
    Jobs = {j1, j2}
    Batches <- OneCF
    AvoidFlush = FALSE
    MaxWrites = 3
    Faults <- OneError
INVARIANTS
    CommittedInOrder
    EditsAdvanceLogNumber
PROPERTY SealedGetsFlushed
CHECK_DEADLOCK FALSE
