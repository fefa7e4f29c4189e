\* Two blocking requests and two slots, one of which may fail to be created.
SPECIFICATION FairSpec
CONSTANTS
    b1 = b1
    b2 = b2
    Requests = {b1, b2}
    Streaming = {}
    SlotsCap = 2
    MaxTokens = 1
    PrefillChunks = 2
    None = None
    Worker = Worker
    Main = Main
INVARIANTS
    SlotsExclusive
    NoneLeftBehind
    ResumedWithResult
PROPERTIES
    EveryRequestEnds
    StopEnds
    ImplementsRequestService
