CONSTANTS
    r1 = r1
    r2 = r2
    r3 = r3
    r4 = r4
    Requests = {r1, r2, r3, r4}
    PromptLength <- ChunkedPrompts
    MaxNewTokens <- ChunkedOutputs
    Priority <- ChunkedPriorities
    MaxNumScheduledTokens = 3
    ChunkedPrefill = TRUE
    PrefillChunkSize = 2
    MemoryBudget = 14
    MaxNumSeqs = 3
    MaxPerPriority = 2
    BlockSize = 2
SPECIFICATION Spec
INVARIANTS
    CountsMatchRunning
    MemoryMatchesRunning
    ComputedMatchesGenerated
    ChunkProgressAgrees
    RunnerCacheCurrent
PROPERTIES
    RefinesRequestLifecycle
    EveryRequestFinishes
