SPECIFICATION SettlementSpec
CONSTANTS
    operator = operator
    zero = zero
    here = here
    MaxAnchor = 3
    DepositAmounts = {2}
    Charges = {1}
    ChargeCap = 1
    Payee = operator
    MaxClearances = 2
    MaxNoteId = 2
    MaxTimestamp = 2
    NoteTtl = 2
    ExpiryBucket = 1
    ChallengePeriod = 1
    NativeAssetWeiPerUnit = 1
    MaxNativeUnits = 2
    FieldModulus = 3
    Commitments = {1, 2}
    Amounts = {0, 1, 2}
    Nullifiers <- MCNullifiers
    Addresses <- MCAddresses
    ZeroAddress = zero
    Owner = operator
    Rejecting = {}
    Deployments = {here}
    ThisDeployment = here
    ValidWithdrawal <- MCAcceptAny
    ValidRequest <- MCAcceptAny
INVARIANTS
    SettlesAtBalance
    OneUnspentState
    ExitStaysOpen
CHECK_DEADLOCK FALSE
