CONSTANTS
    None = None
    Plans <- MCPlans
    Limits <- MCLimits
    BatchRows = 2
    FlushLogs = TRUE
    Attempts = 2
SPECIFICATION FairSpec
INVARIANTS
    ClientsReleased
PROPERTIES
    FailureKept
    ImplementsRowStream
    TaskEnds
