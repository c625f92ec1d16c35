CONSTANTS
    cwd = cwd
    other = other
    a = a
    b = b
    Calls <- AbsoluteCalls
    Dirs = {cwd}
    Cwd = cwd
    Names = {a, b}
    NoCall = NoCall
    MaxSize = 2
    WebTTL = 1
    ConcurrentWriters = TRUE
    MaxChanges = 2
    MaxTime = 0
SPECIFICATION CacheSpec
INVARIANTS HitsAreFresh
CHECK_DEADLOCK FALSE
