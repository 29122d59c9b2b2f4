\* Replacing a linked expense leaves a row the purge fails on.
SPECIFICATION Spec
CONSTANTS
    NoPayee = NoPayee
    Unclaimed = Unclaimed
    TxnIds <- MCTxnIds
    SplitIds <- MCSplitIds
    ShareIds = {h1, h2, h3}
    Payees <- MCPayees
    TxnTypes <- MCTxnTypes
    TxnPayee <- MCTxnPayee
    Amounts <- MCAmounts
    TxnValues <- MCTxnValues
    Bodies <- MCBodies
    WriteOffs <- MCWriteOffs
    InitialTxns <- MCInitialTxns
    MaxMoney = 9
    MaxEdits = 1
INVARIANT PurgeNeverBlocked
CHECK_DEADLOCK FALSE
