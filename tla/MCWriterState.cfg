SPECIFICATION FairSpec
CONSTANTS
    l = l
    f1 = f1
    f2 = f2
    Members <- Group
    Bad = {f1, l}
    None = None
INVARIANTS
    NoTouchAfterReturn
    ExitAfterAllInserts
PROPERTY EveryWaitEnds
CHECK_DEADLOCK FALSE
