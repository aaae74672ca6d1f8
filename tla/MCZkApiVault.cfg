SPECIFICATION FairSpec
CONSTANTS
    user = user
    operator = operator
    zero = zero
    n1 = n1
    n2 = n2
    here = here
    elsewhere = elsewhere
    MaxNoteId = 2
    MaxTimestamp = 3
    NoteTtl = 1
    ExpiryBucket = 2
    ChallengePeriod = 1
    NativeAssetWeiPerUnit = 3
    MaxNativeUnits = 2
    FieldModulus = 2
    Commitments = {0, 1, 2}
    Amounts = {0, 1, 2}
    Nullifiers <- MCNullifiers
    Addresses <- MCAddresses
    ZeroAddress = zero
    Owner = operator
    Rejecting <- MCRejecting
    Deployments = {here, elsewhere}
    ThisDeployment = here
    ValidWithdrawal <- MCAcceptAny
    ValidRequest <- MCAcceptAny
INVARIANTS
    TypeOK
    TreeMatchesNotes
    IdsInOrder
    PendingSound
    ChallengedNeverPaid
    Solvency
PROPERTIES
    EscapeRespectsWindow
    ImplementsEscrow
    PendingResolves
CHECK_DEADLOCK FALSE
