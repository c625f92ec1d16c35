SPECIFICATION Spec
CONSTANTS
    Requests = {r1, r2}
    c1 = c1
    m1 = m1
    dDefault = dDefault
    dOther = dOther
    Conversations = {c1}
    NoConv = NoConv
    Modes <- ModesDef
    Models = {m1}
    NoModel = NoModel
    UnknownModel = UnknownModel
    Dirs = {dDefault, dOther}
    Params <- TwoBodies
    NoReq = NoReq
    DefaultTurns = 10
    DefaultMode = "default"
    MaxAttempts = 2
    HistoryTurns = 10
    WindowFloor = 200
INVARIANT
    OwnSandbox
