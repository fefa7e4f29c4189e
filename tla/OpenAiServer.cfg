\* A streaming and a blocking request on one slot, two tokens each.
SPECIFICATION Spec
CONSTANTS
    s1 = s1
    b1 = b1
    Requests = {s1, b1}
    Streaming = {s1}
    SlotsCap = 1
    MaxTokens = 2
    PrefillChunks = 2
    None = None
    Worker = Worker
    Main = Main
INVARIANTS
    TypeOK
    RefsCountHolders
    AbandonedStops
    StreamsWellFormed
    AnsweredLeavesSlot
