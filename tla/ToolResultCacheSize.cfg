CONSTANTS
    cwd = cwd
    other = other
    a = a
    b = b
    Calls <- AbsoluteCalls
    Dirs = {cwd}
    Cwd = cwd
    Names = {a, b}
    NoCall = NoCall
    MaxSize = 2
    WebTTL = 1
    ConcurrentWriters = FALSE
    MaxChanges = 2
    MaxTime = 0
SPECIFICATION CacheSpec
INVARIANTS SizeBounded
CHECK_DEADLOCK FALSE
