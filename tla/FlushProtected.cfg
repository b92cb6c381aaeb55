SPECIFICATION Spec
CONSTANTS
    Strings <- MCStrings
    Frames <- MCFrames
    Kept <- MCKept
    NoStack = NoStack
    MaxFrames = 2
    MaxSamples = 2
    out_chunk_size = 2
    Payloads <- MCPayloads
    Streams <- MCStreams
    YieldGvl = TRUE
    Unset = Unset
INVARIANT StringsStay
INVARIANT ReferencesResolve
INVARIANT OneOfEach
INVARIANT RoomForOutput
INVARIANT WholeStream
PROPERTY KeepsEverySample
PROPERTY SerializeEnds
