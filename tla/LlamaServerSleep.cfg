CONSTANTS
    a = a
    b = b
    c = c
    Requests = {a, b, c}
    NumSlots = 2
    Mixes <- SomeMixes
    MaxEmpty = 3
    MayGiveUp = TRUE
    MaySleep = TRUE
    MayStop = FALSE
SPECIFICATION Spec
INVARIANT NobodyOversleeps
CHECK_DEADLOCK FALSE
