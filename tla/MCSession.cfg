\* Turns of the terminal with a warmed up system prompt and the idle prefill thread (which may not start), sampled on the host, on the device and pipelined, with failures and interrupts at every step, the chunks of an idle prefill included: unless a turn goes on from what an interrupted idle prefill wrote over, what is fed is what the cache holds, the prompt is what was rendered and every token follows fresh logits; and the prompt comes back after every line.
SPECIFICATION FairSpec
CONSTANTS
    NCtx = 11
    Chunk = 1
    MaxTokens = 2
    UserTexts <- TextA
    Pieces <- PiecesABT
    Merges <- MergesMark
    Dropped <- DropsT
    System <- NoSystem
    Driver = "interactive"
    Warmup = TRUE
    Hybrid = FALSE
    Modes <- AnyMode
    BatchSamples = FALSE
    ReadFails = "later"
    Completions = FALSE
INVARIANTS
    TypeOK
    CacheHoldsFed
    PromptSpelled
    LogitsFresh
    LengthsAgree
PROPERTIES
    LinesEnd
