CONSTANTS
    hf_dir = hf_dir
    gpu_dir = gpu_dir
    quality_dir = quality_dir
    w1 = w1
    w2 = w2
    m1 = m1
    m2 = m2
    RequestsCount = 3
    Warmup = 1
    Concurrency = 2
    MaxTokens = 2
    Dirs = {hf_dir, gpu_dir, quality_dir}
    Tool <- Tools
    Workloads = {w1, w2}
    Models = {m1, m2}
    LevelSets <- Levels
    MaxRuns = 2
    MaxKills = 1
SYMMETRY Symmetry
SPECIFICATION Spec
INVARIANTS
    ComparedAlike
    TokensUntilEos
    ErrorsTell
CHECK_DEADLOCK FALSE
