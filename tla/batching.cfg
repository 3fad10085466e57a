CONSTANTS
    r1 = r1
    r2 = r2
    r3 = r3
    r4 = r4
    Requests = {r1, r2, r3, r4}
    PromptLength <- Prompts
    MaxNewTokens <- Outputs
    Priority <- Priorities
    MaxNumScheduledTokens = 2
    ChunkedPrefill = FALSE
    PrefillChunkSize = 2
    MemoryBudget = 9
    MaxNumSeqs = 3
    MaxPerPriority = 3
    BlockSize = 2
    Arrival <- Arrivals
    StepDurations = {0, 1, 3}
    MaxSteps = 12
    Unset = Unset
    WallClock = WallClock
SPECIFICATION Spec
INVARIANTS
    ArrivalsRespected
    EventsStamped
PROPERTIES
    FirstTokenTimeStands
    RunServesAll
CHECK_DEADLOCK FALSE
