\* FR-7.3: editing a linked expense unbalances its split.
SPECIFICATION Spec
CONSTANTS
    NoPayee = NoPayee
    Unclaimed = Unclaimed
    TxnIds <- MCTxnIds
    SplitIds <- MCSplitIds
    ShareIds = {h1, h2, h3}
    Payees <- MCPayees
    TxnTypes <- MCTxnTypes
    TxnPayee <- MCTxnPayee
    Amounts <- MCAmounts
    TxnValues <- MCTxnValues
    Bodies <- MCBodies
    WriteOffs <- MCWriteOffs
    InitialTxns <- MCInitialTxns
    MaxMoney = 9
    MaxEdits = 1
INVARIANT SharesMatchExpense
CHECK_DEADLOCK FALSE
