SPECIFICATION MirrorSpec
CONSTANTS
    operator = operator
    zero = zero
    n1 = n1
    n2 = n2
    here = here
    Depth = 2
    MaxLag = 2
    MaxNoteId = 3
    MaxTimestamp = 2
    NoteTtl = 1
    ExpiryBucket = 1
    ChallengePeriod = 1
    NativeAssetWeiPerUnit = 0
    MaxNativeUnits = 0
    FieldModulus = 2
    Commitments = {1}
    Amounts = {1}
    Nullifiers <- MCNullifiers
    Addresses <- MCAddresses
    ZeroAddress = zero
    Owner = operator
    Rejecting = {}
    Deployments = {here}
    ThisDeployment = here
    ValidWithdrawal <- MCAcceptAny
    ValidRequest <- MCAcceptAny
INVARIANTS
    MirrorFollows
    PathCheckExact
    SnapshotPathProves
PROPERTIES
    EveryDepositSettles
CHECK_DEADLOCK FALSE
