CONSTANT
    SizeofRVALUE = 2
    PageAlign = 12
    VariableSlotSize = TRUE
    Layouts <- MCLayouts
    Addresses <- MCAddresses
    MaxObjects = 2

SPECIFICATION Spec
INVARIANT ProbeAnswers
INVARIANT ProbeInBounds
INVARIANT SectionKeepsObject
INVARIANT GcFlagRestored
INVARIANT NoMissedFree
PROPERTY SearchesLikeHeapProbe
PROPERTY VisitEnds
