CONSTANT
    MaxThreads = 3
    MaxForks = 2
    Nil = Nil

SPECIFICATION FairSpec
PROPERTY FlushesPeriodically
