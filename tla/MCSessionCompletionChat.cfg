\* A chat that continues on a slot after a completion is answered from the completion's tokens.
SPECIFICATION Spec
CONSTANTS
    NCtx = 11
    Chunk = 2
    MaxTokens = 1
    UserTexts <- TextA
    Pieces <- PiecesAT
    Merges <- MergesAB
    Dropped <- DropsT
    System <- NoSystem
    Driver = "server"
    Warmup = FALSE
    Hybrid = FALSE
    Modes <- ServerModes
    BatchSamples = FALSE
    ReadFails = "never"
    Completions = TRUE
INVARIANTS
    PromptSpelled
