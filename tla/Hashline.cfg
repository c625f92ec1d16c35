CONSTANTS
    x = x
    y = y
    p = p
    q = q
    Texts <- MCTexts
    Hash <- MCHash
    Files <- MCFiles
    Contents <- MCContents
    MaxEdits = 2
    MaxChanges = 1
SPECIFICATION Spec
INVARIANTS TypeOK DisjointEditsApply TargetsAsSeen
CHECK_DEADLOCK FALSE
