SPECIFICATION Spec
CONSTANTS
    None = None
    W = 3
    Len1 = 2
    Len2 = 2
    Height = 2
    Trees = {"state", "clear"}
    Digests = {0, 14}
CHECK_DEADLOCK FALSE
INVARIANTS
    TypeOK
    SignatureExact
    OnlySignedFollows
    NextIndexUnused
