CONSTANTS
    a = a
    b = b
    c = c
    Requests = {a, b, c}
    NumSlots = 2
    Mixes <- SomeMixes
    MaxEmpty = 3
    MayGiveUp = TRUE
    MaySleep = FALSE
    MayStop = FALSE
SPECIFICATION Spec
INVARIANT NobodyServedAfterCancel
CHECK_DEADLOCK FALSE
