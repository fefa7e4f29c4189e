\* Turns that go back further than the rows that are kept.
SPECIFICATION Spec
CONSTANTS
    a = a
    b = b
    Tokens = {a, b}
    NCtx = 6
    Window = 2
    Slack = 1
    ChunkSizes = {2, 3}
    MinChunk = 1
    MaxChunks = 2
    CanShift = TRUE
    DeepRewinds = TRUE
    LongOthers = FALSE
SYMMETRY TokenSymmetry
\* A poisoned session whose rows have moved is not reset here.
CHECK_DEADLOCK FALSE
INVARIANTS
    WindowRead
