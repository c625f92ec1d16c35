CONSTANTS
    c = c
    d = d
    Convs = {c}
    NoConv = NoConv
    MaxEntries = 0
    MaxTurns = 250
    MaxTears = 0
    HistoryTurns = 10
    WindowFloor = 200
SPECIFICATION Spec
INVARIANTS ResumesLatest
CHECK_DEADLOCK FALSE
