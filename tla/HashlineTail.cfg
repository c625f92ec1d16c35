CONSTANTS
    x = x
    y = y
    p = p
    q = q
    Texts <- MCTexts
    Hash <- MCHash
    Files <- MCFiles
    Contents <- MCContents
    MaxEdits = 2
    MaxChanges = 0
SPECIFICATION Spec
INVARIANTS ListingIsSuitable
CHECK_DEADLOCK FALSE
