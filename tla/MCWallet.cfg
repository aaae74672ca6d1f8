SPECIFICATION FairSpec
CONSTANTS
    None = None
    Genesis = genesis
    Notes = {n1, n2}
    Ids = {i1, i2}
    Anchors = {a1, a2}
    Deposits = {1}
    ChargeCap = 1
    Charges = {0, 1}
INVARIANTS
    TypeOK
    StateBacked
    SpentStateRecoverable
    ClearedWithdrawalFinal
PROPERTIES
    MatchingRequestResolves
