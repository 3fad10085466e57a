CONSTANTS
    r1 = r1
    r2 = r2
    r3 = r3
    r4 = r4
    Requests = {r1, r2, r3, r4}
    PromptLength <- WholePrompts
    MaxNewTokens <- WholeOutputs
    Priority <- ChunkedPriorities
    MaxNumScheduledTokens = 3
    ChunkedPrefill = FALSE
    PrefillChunkSize = 2
    MemoryBudget = 14
    MaxNumSeqs = 3
    MaxPerPriority = 2
    BlockSize = 2
SPECIFICATION Spec
INVARIANTS
    QueuesMatchStatus
    OldestServedFirst
