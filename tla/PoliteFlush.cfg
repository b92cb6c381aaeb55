CONSTANT
    Threads = {t1, t2}
    Flushers = {t1, t2}
    NoThread = NoThread
    Keys = {k1, k2, k3}
    NoKey = NoKey
    Interval = 2
    MaxHeapSamples = 3
    MaxUnreported = 1
    UInt32Max = 3
    Rates <- MCRates

SPECIFICATION Spec
INVARIANT TypeOK
INVARIANT ShortPauses
INVARIANT DropsAddUp
INVARIANT RateIsKept
PROPERTY WaitersRun
PROPERTY FlushReturns
