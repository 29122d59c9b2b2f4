SPECIFICATION Spec
CONSTANTS
    None = None
    NoData = NoData
    Idle = Idle
    Ended = Ended
    r1 = r1
    Bank = Bank
    Card = Card
    h0 = h0
    h1 = h1
    h2 = h2
    NoPayee = NoPayee
    t0 = t0
    t1 = t1
    t2 = t2
    Admin = Admin
    Guest = Guest
    ReviewCase <- MCReviewCase
    SplitFormCase <- MCSplitFormCase
    SplitSharesCase <- MCSplitSharesCase
    ListCase <- MCListCase
    TxnFormCase <- MCTxnFormCase
    PeriodCase <- MCPeriodCase
    EarmarksCase <- MCEarmarksCase
    BudgetsCase <- MCBudgetsCase
    BudgetFormCase <- MCBudgetFormCase
    AccountsCase <- MCAccountsCase
    GoalsCase <- MCGoalsCase
    OneTabCase <- MCOneTabCase
    TwoTabsCase <- MCTwoTabsCase
SYMMETRY TabSymmetry
INVARIANTS
    TypeOK
    ScreenCurrent
    TransfersHaveDestinations
    AmountMirrorsPayments
    WalkShowsAll
    OneRowPerVisit
    FormsFollowTheirRows
    CompletedMeansReached
    PeriodIsWhole
    StoredTokenIsGood
    RefusedForAReason
    DoneAtMostOnce
PROPERTIES
    SentBodiesFit
    UnchangedEditKeepsSplit
    DrawerAmountsFit
    ConfirmedIsSubmitted
CHECK_DEADLOCK FALSE
