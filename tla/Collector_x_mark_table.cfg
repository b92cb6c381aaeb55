SPECIFICATION Spec
CONSTANTS
    t1 = t1
    Threads = {t1}
    s1 = s1
    Slots = {s1}
    o1 = o1
    o2 = o2
    Objects = {o1, o2}
    r1 = r1
    Refs = {r1}
    NoThread = NoThread
    NoObject = NoObject
    NoSample = NoSample
    NoSlot = NoSlot
    ForceRecycle = FALSE
    Movable = TRUE
    Proactive = FALSE
    MaxHeapSamples <- Sizes2
    MaxEpoch = 2
    MaxDropped = 1
    MaxRefcount = 2
SYMMETRY Symmetry
INVARIANT MarkTableExact
