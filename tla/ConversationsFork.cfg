CONSTANTS
    c = c
    d = d
    Convs = {c, d}
    NoConv = NoConv
    MaxEntries = 6
    MaxTurns = 3
    MaxTears = 0
    HistoryTurns = 10
    WindowFloor = 200
SPECIFICATION Spec
INVARIANTS ForkResumable
CHECK_DEADLOCK FALSE
