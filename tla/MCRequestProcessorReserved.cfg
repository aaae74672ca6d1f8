SPECIFICATION SettledSpec
CONSTANTS
    n1 = n1
    n2 = n2
    root1 = root1
    root2 = root2
    here = here
    elsewhere = elsewhere
    None = None
    RequestHandlers = {"a"}
    ClearanceHandlers = {}
    Requests <- MCRace
    Nullifiers <- MCOneNullifier
    ClientIds = {"id"}
    Roots <- MCOneRoot
    InitialRoot = root1
    ThisDeployment = here
    TrustedStateSigs <- MCTrusted
    PolicyEnabled = FALSE
    PolicyChargeCap = 0
    RequestChargeCap = 1
    Charges = {1}
    ColumnHalf = 2
    AmountModulus = 16
    Capacity = 2
    MaxTime = 0
PROPERTIES
    ReservedResolves
