\* Two callers that contend for a pool of three threads.
SPECIFICATION Spec
CONSTANTS
    c1 = c1
    c2 = c2
    Callers = {c1, c2}
    NThreads = 3
    ItemCounts = {1, 5}
    MinItems = {1, 2}
    MinChunksPerThread = 2
    GuidedDivisor = 1
    MaxEpoch = 2
    None = None
SYMMETRY CallerSymmetry
INVARIANTS
    TypeOK
    NoTornJob
    GateInv
    ContextAlive
    ExactlyOnce
    NoLostDone
    NoLostWake
