\* A window of two in a context of seven, rows moved or fed again.
SPECIFICATION Spec
CONSTANTS
    a = a
    b = b
    Tokens = {a, b}
    NCtx = 7
    Window = 2
    Slack = 1
    ChunkSizes = {2, 3}
    MinChunk = 1
    MaxChunks = 2
    CanShift = TRUE
    DeepRewinds = FALSE
    LongOthers = FALSE
SYMMETRY TokenSymmetry
\* A poisoned session whose rows have moved is not reset here.
CHECK_DEADLOCK FALSE
INVARIANTS
    WindowRead
    PlanSafe
