SPECIFICATION Spec
CONSTANTS
    t1 = t1
    t2 = t2
    Threads = {t1, t2}
    s1 = s1
    s2 = s2
    Slots = {s1, s2}
    o1 = o1
    o2 = o2
    o3 = o3
    Objects = {o1, o2, o3}
    r1 = r1
    Refs = {r1}
    NoThread = NoThread
    NoObject = NoObject
    NoSample = NoSample
    NoSlot = NoSlot
    ForceRecycle = TRUE
    Movable = FALSE
    Proactive = TRUE
    MaxHeapSamples <- Sizes12
    MaxEpoch = 2
    MaxDropped = 1
    MaxRefcount = 2
SYMMETRY Symmetry
INVARIANT CountExact
INVARIANT NoSampleLeak
INVARIANT ExcludesOnlyFlushers
