CONSTANTS
    bf16 = bf16
    awq_int4 = awq_int4
    bf16_path = bf16_path
    awq_path = awq_path
    NoModel = NoModel
    Variants = {bf16, awq_int4}
    Model <- Models
    MaxAttempts = 2
    MaxStops = 2
    MaxPolls = 1
SPECIFICATION SessionSpec
INVARIANTS
    ServersSupervised
    ProfilesOwnServer
    AnalysisPairsTrace
    SessionBacked
PROPERTIES
    ScriptEnds
CHECK_DEADLOCK FALSE
