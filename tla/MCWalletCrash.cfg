SPECIFICATION FairSpec
CONSTANTS
    None = None
    Genesis = genesis
    Notes = {n1}
    Ids = {i1}
    Anchors = {a1}
    Deposits = {2}
    ChargeCap = 1
    Charges = {1}
PROPERTIES
    PendingResolves
