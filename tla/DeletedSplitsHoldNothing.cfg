\* A split deleted while another request writes to it keeps transactions.
SPECIFICATION Spec
CONSTANTS
    NoPayee = NoPayee
    Idle = Idle
    Workers = {w1, w2}
    TxnIds <- MCTxnIds
    SplitIds <- MCSplitIds
    ShareIds <- MCShareIds
    Payees <- MCPayees
    TxnTypes <- MCTxnTypes
    TxnPayee <- MCTxnPayee
    Amounts <- MCAmounts
    TxnValues <- MCTxnValues
    Bodies <- MCBodies
    InitialDbs <- MCInitialDbs
    MaxMoney = 9
    MaxRequests = 3
INVARIANT DeletedSplitsHoldNothing
CHECK_DEADLOCK FALSE
