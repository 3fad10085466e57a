CONSTANTS
    t1 = t1
    t2 = t2
    Requests = {r1, r2}
    Prompts <- MCPrompts
    Generated = Generated
    NumBlocks = 3
    BlockSize = 2
    EnablePrefixSharing = TRUE
    MaxTokens = 5
SYMMETRY Symmetry
SPECIFICATION Spec
INVARIANTS
    FreeListExact
    RefCountsMatchTables
    TablesSound
PROPERTIES
    UsableEntriesSurvive
    SharedBlocksReadOnly
    RefinesSharedBlockPool
CHECK_DEADLOCK FALSE
