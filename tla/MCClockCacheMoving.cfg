SPECIFICATION FairSpec
CONSTANTS
    t1 = t1
    t2 = t2
    t3 = t3
    h1 = h1
    h2 = h2
    Threads = {t1, t2, t3}
    Heap = {h1, h2}
    NoHandle = NoHandle
    length_bits = 2
    kCounterNumBits = 4
    DisplacementRange = 8
    OptionSets <- MovingOptions
PROPERTY
    EveryCallReturns
CHECK_DEADLOCK FALSE
