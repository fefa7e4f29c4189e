\* One caller, two workers, two jobs: liveness, and ParallelFor implemented.
SPECIFICATION FairSpec
CONSTANTS
    Callers = {c1}
    NThreads = 3
    ItemCounts = {1, 3}
    MinItems = {1}
    MinChunksPerThread = 1
    GuidedDivisor = 1
    MaxEpoch = 2
    None = None
    c1 = c1
PROPERTIES CallsReturn ShutdownEnds ImplementsParallelFor
