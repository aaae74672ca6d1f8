SPECIFICATION Spec
CONSTANTS
    n1 = n1
    n2 = n2
    root1 = root1
    root2 = root2
    here = here
    elsewhere = elsewhere
    None = None
    RequestHandlers = {"a"}
    ClearanceHandlers = {}
    Requests <- MCAll
    Nullifiers <- MCNullifiers
    ClientIds = {"id"}
    Roots <- MCRoots
    InitialRoot = root1
    ThisDeployment = here
    TrustedStateSigs <- MCTrusted
    PolicyEnabled = FALSE
    PolicyChargeCap = 0
    RequestChargeCap = 1
    Charges = {1, 2}
    ColumnHalf = 2
    AmountModulus = 16
    Capacity = 2
    MaxTime = 1
INVARIANTS
    ResponseEarned
    RetryAnswersItself
