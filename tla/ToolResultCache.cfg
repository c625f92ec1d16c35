CONSTANTS
    cwd = cwd
    other = other
    a = a
    b = b
    Calls <- MixedCalls
    Dirs = {cwd, other}
    Cwd = cwd
    Names = {a}
    NoCall = NoCall
    MaxSize = 2
    WebTTL = 1
    ConcurrentWriters = FALSE
    MaxChanges = 3
    MaxTime = 2
SPECIFICATION CacheSpec
INVARIANTS CacheTypeOK EntriesEvictable HitsAreFresh
CHECK_DEADLOCK FALSE
