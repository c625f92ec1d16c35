CONSTANTS
    cwd = cwd
    other = other
    a = a
    b = b
    Calls <- SearchCalls
    Dirs = {cwd}
    Cwd = cwd
    Names = {a}
    NoCall = NoCall
    MaxSize = 2
    WebTTL = 1
    ConcurrentWriters = FALSE
    MaxChanges = 2
    MaxTime = 0
SPECIFICATION CacheSpec
INVARIANTS InvalidatedOnWrites
CHECK_DEADLOCK FALSE
