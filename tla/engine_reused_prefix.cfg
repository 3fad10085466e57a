CONSTANTS
    t1 = t1
    t2 = t2
    r1 = r1
    r2 = r2
    r3 = r3
    Requests = {r1, r2, r3}
    Prompt <- MCPrompt
    MaxNewTokens <- MCMaxNewTokens
    Priority <- MCPriority
    MaxNumScheduledTokens = 3
    ChunkedPrefill = TRUE
    PrefillChunkSize = 1
    MemoryBudget = 14
    MaxNumSeqs = 3
    MaxPerPriority = 2
    NumBlocks = 4
    BlockSize = 2
    EnablePrefixSharing = TRUE
    Generated = Generated
SPECIFICATION Spec
PROPERTY
    ReusedPrefixComputed
