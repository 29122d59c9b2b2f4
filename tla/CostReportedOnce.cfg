\* FR-7.9: a split of two expenses is reported twice.
SPECIFICATION Spec
CONSTANTS
    NoPayee = NoPayee
    Unclaimed = Unclaimed
    TxnIds <- MCTxnIds
    SplitIds <- MCSplitIds
    ShareIds = {h1, h2, h3}
    Payees <- MCPayees
    TxnTypes <- MCTxnTypes
    TxnPayee <- MCTxnPayee
    Amounts <- MCAmounts
    TxnValues <- MCTxnValues
    Bodies <- MCBodies
    WriteOffs <- MCWriteOffs
    InitialTxns <- MCInitialTxns
    MaxMoney = 9
    MaxEdits = 1
INVARIANT CostReportedOnce
CHECK_DEADLOCK FALSE
