SPECIFICATION FairSpec
CONSTANTS
    MaxTurns = 4
    MaxCalls = 2
    MaxRequested = 3
    OldTurns = 1
    TrimThreshold = 4
    TrimSlack = 2
    KeepRecent = 3
INVARIANTS
    TypeOK
    ContextWellFormed
    TurnsAccounted
    EndsForAReason
PROPERTY
    RunEnds
