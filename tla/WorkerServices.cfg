SPECIFICATION FairSpec
CHECK_DEADLOCK FALSE
CONSTANTS
    LongMax = 3
    PoolRange <- MCPoolRange
    PortMax = 1
    MetricsPort = 1
    MinLevel = "INFO"
    Outcomes <- MCOutcomes
    WordMod = 2
    BufferSize = 4
    MaxSessions = 2
    MaxFrames = 2
INVARIANT TypeOK
INVARIANT CleanExitComplete
INVARIANT LogWellFormed
PROPERTY CrashReported
