SPECIFICATION LimiterFairSpec
CONSTANTS
    p1 = p1
    q1 = q1
    a = a
    b = b
    c = c
    Callers <- MCCallers
    Processes <- MCProcesses
    Home <- MCHome
    NoOne = NoOne
    Limit = 2
    Minute = 2
    MayFail = TRUE
INVARIANT MinuteLimit
PROPERTY Forgiven
