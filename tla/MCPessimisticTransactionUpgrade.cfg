SPECIFICATION Spec
CONSTANTS
    t1 = t1
    t2 = t2
    t3 = t3
    k1 = k1
    k2 = k2
    k3 = k3
    s1 = s1
    s2 = s2
    Txns = {t1, t2}
    Keys = {k1, k2, k3}
    Stripes = {s1, s2}
    NoTxn = NoTxn
    NoSavePoint = NoSavePoint
    MaxTime = 2
    MaxSequence = 9
    OptionSets <- UpgradeOptions
INVARIANT NoLostUpdate
CHECK_DEADLOCK FALSE
