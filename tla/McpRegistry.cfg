CONSTANTS
    a = a
    b = b
    m = m
    read = read
    list = list
    write = write
    Order <- ThreeServers
    Local = {a, b}
    NativeTools <- Listed
    ManualTools <- Introspected
    RequiredServer = a
    RequiredTools = {read}
    MaxAttempts = 2
    Startup = startup
    Refreshes = {k1, k2}
    Runs = {r1}
    None = none
SPECIFICATION Spec
INVARIANTS
    TypeOK
    OwnTools
    Complete
    NamesAreFaithful
CHECK_DEADLOCK FALSE
