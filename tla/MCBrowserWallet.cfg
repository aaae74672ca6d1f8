SPECIFICATION Spec
CONSTANTS
    here = here
    elsewhere = elsewhere
    None = None
    Genesis = genesis
    Home = here
    Configs <- MCConfigs
    Tabs = {t1, t2}
    Notes = {n1, n2}
    Ids = {i1, i2, i3}
    Anchors = {a1, a2}
    Deposits = {3}
    Charges = {1, 2}
CHECK_DEADLOCK FALSE
SYMMETRY Symmetry
INVARIANTS
    SpentStateRecoverable
    AnswerCompletes
    ClearedWithdrawalFinal
PROPERTIES
    StoreAdvances
