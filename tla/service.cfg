CONSTANTS
    Warmups <- WarmupNumbers
    Chats = {0, 1}
    s1 = s1
    Streams = {s1}
    Concurrency = 1
    MaxScrapes = 1
SPECIFICATION Spec
INVARIANTS
    ScrapesConsistent
    SummaryMatchesMetrics
PROPERTIES
    CaseEnds
CHECK_DEADLOCK FALSE
