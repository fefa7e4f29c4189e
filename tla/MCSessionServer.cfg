\* A slot of the server that serves chats and completions: requests that continue its chat, start another, complete a text, or repeat one that got no answer.
SPECIFICATION Spec
CONSTANTS
    NCtx = 9
    Chunk = 2
    MaxTokens = 1
    UserTexts <- TextA
    Pieces <- PieceA
    Merges <- NoMerges
    Dropped <- NoDrops
    System <- NoSystem
    Driver = "server"
    Warmup = TRUE
    Hybrid = FALSE
    Modes <- ServerModes
    BatchSamples = FALSE
    ReadFails = "never"
    Completions = TRUE
INVARIANTS
    CacheHoldsFed
    LogitsFresh
    AnswersTheRequest
