CONSTANTS
    a = a
    b = b
    c = c
    Requests = {a, b, c}
    NumSlots = 2
    Mixes <- SomeMixes
    MaxEmpty = 3
    MayGiveUp = TRUE
    MaySleep = TRUE
    MayStop = TRUE
SPECIFICATION FairSpec
INVARIANTS OnePlace ResultsHaveReaders AnsweredOnce
CHECK_DEADLOCK FALSE
PROPERTY Served
