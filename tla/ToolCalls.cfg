SPECIFICATION FairSpec
CONSTANTS
    s1 = s1
    s2 = s2
    editFile = editFile
    bashExec = bashExec
    Sessions = {s1, s2}
    NoSession = NoSession
    Tools = {editFile, bashExec}
    EditTools = {editFile}
    DangerousTools = {bashExec}
    MaxCalls = 2
    MaxRuns = 2
    MaxAttempts = 2
INVARIANTS
    TypeOK
    ConsentFirst
    EffectsAccounted
PROPERTY
    ImplementsContract
    EveryCallEnds
