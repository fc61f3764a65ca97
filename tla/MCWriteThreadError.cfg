SPECIFICATION Spec
CONSTANTS
    w1 = w1
    w2 = w2
    w3 = w3
    k1 = k1
    Writers = {w1, w2, w3}
    Lockers = {k1}
    Instances <- BadInstances
    MaxGroupBytes = 16
    MaxStalls = 1
    Dummy = Dummy
    None = None
INVARIANT MemtableErrorReachesGroup
