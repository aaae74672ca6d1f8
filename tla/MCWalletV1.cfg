SPECIFICATION FairSpec
CONSTANTS
    None = None
    n1 = n1
    n2 = n2
    i1 = i1
    i2 = i2
    a1 = a1
    a2 = a2
    CurveOrder = 1000003
    FieldOrder = 1000033
    Felt <- MCFelt
    Genesis = genesis
    Notes = {n1, n2}
    Ids = {i1, i2}
    Anchors = {a1, a2}
    Deposits = {1}
    ChargeCap = 1
    Charges = {0, 1}
    StaleRootCodes = {"stale_root", "STALE_ROOT"}
INVARIANTS
    StateBacked
    SpentStateRecoverable
    ClearedWithdrawalFinal
PROPERTIES
    FinalizedIsInstalled
