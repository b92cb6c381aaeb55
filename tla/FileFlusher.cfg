CONSTANT
    MaxThreads = 3
    MaxForks = 2
    MaxProfiles = 3
    Nil = Nil

SPECIFICATION FileFairSpec
INVARIANT OneFlusher
INVARIANT StoppedIsQuiet
INVARIANT RunningHasThread
INVARIANT HandlerMatches
INVARIANT KeptProfiles
PROPERTY CallsReturn
PROPERTY KeepsFlushing
