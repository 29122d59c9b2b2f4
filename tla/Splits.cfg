\* One request at a time.
SPECIFICATION Spec
CONSTANTS
    NoPayee = NoPayee
    Unclaimed = Unclaimed
    TxnIds <- MCTxnIds
    SplitIds <- MCSplitIds
    ShareIds = {h1, h2, h3}
    Payees <- MCPayees
    TxnTypes <- MCTxnTypes
    TxnPayee <- MCTxnPayee
    Amounts <- MCAmounts
    TxnValues <- MCTxnValues
    Bodies <- MCBodies
    WriteOffs <- MCWriteOffs
    InitialTxns <- MCInitialTxns
    MaxMoney = 9
    MaxEdits = 1
INVARIANTS
    TypeOK
    IncomeLinkedOnce
    OnlyLiveSplitsHold
    CoveredWithinShare
    CostPlusPaidWithinShare
PROPERTIES
    StepsKeepBalance
    StatusFollowsPayments
    CreditsAreKept
    ImplementsClaims
SYMMETRY ShareSymmetry
CHECK_DEADLOCK FALSE
