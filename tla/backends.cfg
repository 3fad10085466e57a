CONSTANTS
    r1 = r1
    r2 = r2
    r3 = r3
    Requests = {r1, r2, r3}
    PromptLength <- MCPromptLength
    MaxNewTokens <- MCMaxNewTokens
    Priority <- MCPriority
    MaxNumScheduledTokens = 2
    MemoryBudget = 8
    MaxNumSeqs = 2
    MaxPerPriority = 2
    BlockSize = 1
    MinSeqLen = 1
    MaxSeqLen = 2
    WarmupLen = 1
    MaxFailures = 1
    MaxTools = 2
SPECIFICATION Spec
INVARIANTS
    TokensReported
    SequencesMatchSchedule
    FailedBuildKeepsEngine
PROPERTIES
    RefinesRequestLifecycle
