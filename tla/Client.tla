------------------------------- MODULE Client -------------------------------
(***************************************************************************)
(* The client: one visit of any of its pages, or one browser's session.    *)
(* A page and the session do not share variables, and those of the other   *)
(* stay as they are: the visits are looked at one by one.                  *)
(*                                                                         *)
(* Each page has one parameter, the record of the values of its module's   *)
(* constants.                                                              *)
(***************************************************************************)
EXTENDS Integers

VARIABLES page, db, seen, due, ui, call, lost,
          stored, tab, refresh, signin, calls, issued, live, expired, registered, waived

CONSTANTS None, NoData, Idle, Ended,
          Bank, Card,     \* the user's accounts on the review page
          NoPayee,        \* the user's own share of a split
          Admin, Guest,   \* users of a browser
          ReviewCase, SplitFormCase, SplitSharesCase, ListCase, TxnFormCase, PeriodCase,
          EarmarksCase, BudgetsCase, BudgetFormCase, AccountsCase, GoalsCase,
          OneTabCase, TwoTabsCase

-----------------------------------------------------------------------------
Import == INSTANCE ImportReview WITH
    Calls <- ReviewCase.calls, Records <- ReviewCase.records, Bills <- ReviewCase.bills,
    Visited <- ReviewCase.visited, UploadedFor <- ReviewCase.uploadedFor,
    Chosen <- ReviewCase.chosen, Tried <- ReviewCase.tried

Form == INSTANCE SplitForm WITH
    Calls <- SplitFormCase.calls, Cards <- SplitFormCase.cards, Typed <- SplitFormCase.typed,
    Starts <- SplitFormCase.starts, TxnIds <- SplitFormCase.txnIds,
    SplitIds <- SplitFormCase.splitIds, ShareIds <- SplitFormCase.shareIds,
    Payees <- SplitFormCase.payees, TxnTypes <- SplitFormCase.txnTypes,
    TxnPayee <- SplitFormCase.txnPayee, MaxMoney <- SplitFormCase.maxMoney

Shares == INSTANCE SplitShares WITH
    Calls <- SplitSharesCase.calls, TheSplit <- SplitSharesCase.theSplit,
    StartDb <- SplitSharesCase.startDb, Typed <- SplitSharesCase.typed,
    TxnIds <- SplitSharesCase.txnIds, SplitIds <- SplitSharesCase.splitIds,
    ShareIds <- SplitSharesCase.shareIds, Payees <- SplitSharesCase.payees,
    TxnTypes <- SplitSharesCase.txnTypes, TxnPayee <- SplitSharesCase.txnPayee,
    MaxMoney <- SplitSharesCase.maxMoney

List == INSTANCE TransactionList WITH
    Calls <- ListCase.calls, Rows <- ListCase.rows, Day <- ListCase.day,
    Amount <- ListCase.amount, Kind <- ListCase.kind, Linked <- ListCase.linked,
    SettledIn <- ListCase.settledIn, ExpenseOf <- ListCase.expenseOf,
    FilterTypes <- ListCase.filterTypes, Sorts <- ListCase.sorts, Sizes <- ListCase.sizes,
    Periods <- ListCase.periods, ThisMonth <- ListCase.thisMonth, Moves <- ListCase.moves

TxnForm == INSTANCE TransactionForm WITH
    Calls <- TxnFormCase.calls, Accounts <- TxnFormCase.accounts,
    Liabilities <- TxnFormCase.liabilities, MethodsOf <- TxnFormCase.methodsOf,
    DefaultOf <- TxnFormCase.defaultOf, Categories <- TxnFormCase.categories,
    Tags <- TxnFormCase.tags, NewPayee <- TxnFormCase.newPayee,
    NewCategory <- TxnFormCase.newCategory, NewTag <- TxnFormCase.newTag,
    Types <- TxnFormCase.types, StartTxns <- TxnFormCase.startTxns,
    Changes <- TxnFormCase.changes

Dates == INSTANCE Period WITH
    Calls <- PeriodCase.calls, FirstYear <- PeriodCase.firstYear,
    LastYear <- PeriodCase.lastYear, Todays <- PeriodCase.todays, Clicked <- PeriodCase.clicked,
    Ticks <- PeriodCase.ticks

Piles == INSTANCE Earmarks WITH
    Calls <- EarmarksCase.calls, NewEarmark <- EarmarksCase.newEarmark,
    Cash <- EarmarksCase.cash, Typed <- EarmarksCase.typed, Changes <- EarmarksCase.changes,
    StartEarmarks <- EarmarksCase.startEarmarks

Plans == INSTANCE BudgetList WITH
    Calls <- BudgetsCase.calls, NewBudget <- BudgetsCase.newBudget, Rules <- BudgetsCase.rules,
    Days <- BudgetsCase.days, Changes <- BudgetsCase.changes,
    StartBudgets <- BudgetsCase.startBudgets

PlanForm == INSTANCE BudgetForm WITH
    Calls <- BudgetFormCase.calls, StartBudgets <- BudgetFormCase.startBudgets,
    Rules <- BudgetFormCase.rules, DefaultRule <- BudgetFormCase.defaultRule,
    Categories <- BudgetFormCase.categories, Changes <- BudgetFormCase.changes

Wallets == INSTANCE AccountList WITH
    Calls <- AccountsCase.calls, NewIds <- AccountsCase.newIds, Names <- AccountsCase.names,
    Busy <- AccountsCase.busy, Opens <- AccountsCase.opens,
    StartAccounts <- AccountsCase.startAccounts, StartMethods <- AccountsCase.startMethods

Goals == INSTANCE PiggyBanks WITH
    Calls <- GoalsCase.calls, Txns <- GoalsCase.txns, Unknown <- GoalsCase.unknown,
    Typed <- GoalsCase.typed, NewIds <- GoalsCase.newIds, Opens <- GoalsCase.opens,
    StartPigs <- GoalsCase.startPigs, StartContribs <- GoalsCase.startContribs

OneTab == INSTANCE Session WITH
    Tabs <- OneTabCase.tabs, MaxTokens <- OneTabCase.maxTokens, MaxCalls <- OneTabCase.maxCalls

TwoTabs == INSTANCE Session WITH
    Tabs <- TwoTabsCase.tabs, MaxTokens <- TwoTabsCase.maxTokens,
    MaxCalls <- TwoTabsCase.maxCalls

\* Each page sends a number of calls, and None is none of the things chosen;
\* the transactions edited have all the fields of the form.
ASSUME ClientAssumption ==
    /\ \A c \in {ReviewCase.calls, SplitFormCase.calls, SplitSharesCase.calls, ListCase.calls,
                TxnFormCase.calls, EarmarksCase.calls, BudgetsCase.calls, BudgetFormCase.calls,
                AccountsCase.calls, GoalsCase.calls} : c \in Nat
    /\ None \notin {Bank, Card}
    /\ \A t \in TxnFormCase.startTxns : t = None \/ t = TxnForm!FormOf(t)

\* What there is when a page with forms is opened has ids of its own, and the goals there
\* are right about whether they are reached.  Amounts typed are positive.
ASSUME StartAssumption ==
    LET pigs == GoalsCase.startPigs
        contribs == GoalsCase.startContribs
        accounts == AccountsCase.startAccounts
        methods == AccountsCase.startMethods
    IN  /\ GoalsCase.typed \subseteq Nat \ {0}
        /\ pigs = [p \in DOMAIN pigs \ GoalsCase.newIds |->
                      [target |-> pigs[p].target, notes |-> pigs[p].notes,
                       completed |-> pigs[p].completed, draft |-> pigs[p].draft]]
        /\ contribs = [c \in DOMAIN contribs \ GoalsCase.newIds |->
                      [pig |-> contribs[c].pig, amount |-> contribs[c].amount, draft |-> contribs[c].draft]]
        /\ \A c \in DOMAIN contribs : contribs[c].pig \in DOMAIN pigs
        /\ \A p \in DOMAIN pigs :
              /\ pigs[p].target \in Nat \ {0}
              /\ pigs[p].completed <=> Goals!Total([contrib |-> contribs], p) >= pigs[p].target
        /\ None \notin DOMAIN pigs \cup GoalsCase.newIds
        /\ accounts = [a \in DOMAIN accounts \ AccountsCase.newIds |->
                      [name |-> accounts[a].name, type |-> accounts[a].type,
                       active |-> accounts[a].active, draft |-> accounts[a].draft]]
        /\ methods = [m \in DOMAIN methods \ AccountsCase.newIds |->
                      [account |-> methods[m].account, draft |-> methods[m].draft]]
        /\ {None, "list"} \cap (DOMAIN accounts \cup AccountsCase.newIds) = {}

\* A split is edited in a database as its handlers leave it: no income is credited twice or
\* with more than it brought.  All transactions together are within what a column holds,
\* and there are cards for the shares of payees.
ASSUME FormAssumption ==
    LET c == SplitFormCase
    IN  /\ c.maxMoney \in Nat \ {0} /\ c.typed \subseteq Int
        /\ NoPayee \notin c.payees /\ {"expense", "income"} \subseteq c.txnTypes
        /\ c.txnPayee \in [c.txnIds -> c.payees \cup {NoPayee}]
        /\ \A ids \in {c.txnIds, c.shareIds, c.payees, c.cards} : Form!IsFiniteSet(ids)
        /\ \A s \in c.starts :
              /\ Form!IsDatabase(s.db) /\ Form!Constraints(s.db)
              /\ Form!TxnTotal(s.db, DOMAIN s.db.txn) <= c.maxMoney
              /\ \A x, y \in s.db.paid : x.txn = y.txn => x = y
              /\ \A x \in s.db.paid : x.amount <= s.db.txn[x.txn].amount
              /\ LET payeeShares == Form!SharesOf(s.db, s.split) \ Form!OwnShares(s.db, s.split)
                 IN  \E place \in [payeeShares -> c.cards] : Form!IsInjective(place)

\* So is the split whose shares are worked on.  The names of mutations are no ids.
ASSUME SharesAssumption ==
    LET c == SplitSharesCase
    IN  /\ c.maxMoney \in Nat \ {0} /\ c.typed \subseteq Int
        /\ NoPayee \notin c.payees /\ {"expense", "income"} \subseteq c.txnTypes
        /\ c.txnPayee \in [c.txnIds -> c.payees \cup {NoPayee}]
        /\ \A ids \in {c.txnIds, c.shareIds, c.payees} : Shares!IsFiniteSet(ids)
        /\ {"delete", "settle", "forgive", "patch"} \cap (c.shareIds \cup c.txnIds \cup {None}) = {}
        /\ Shares!IsDatabase(c.startDb) /\ Shares!Constraints(c.startDb)

\* The days it is and the days clicked are of the calendar.
ASSUME CalendarAssumption ==
    LET c == PeriodCase
    IN  /\ c.firstYear \in Nat /\ c.lastYear \in Nat /\ c.firstYear <= c.lastYear
        /\ c.todays \subseteq Dates!Days /\ c.clicked \subseteq Dates!Days
        /\ c.ticks \in Nat \ {0}

\* Transactions are numbered, by date and amount they are put in order, and a page holds some.
ASSUME ListAssumption ==
    LET c == ListCase
    IN  /\ c.rows \subseteq Int /\ List!IsFiniteSet(c.rows)
        /\ \A r \in c.rows : c.day[r] \in Int /\ c.amount[r] \in Int
        /\ c.sizes \subseteq Nat \ {0}

-----------------------------------------------------------------------------
screenVars == <<page, db, seen, due, ui, call, lost>>
sessionVars ==
    <<stored, tab, refresh, signin, calls, issued, live, expired, registered, waived>>

NoPage ==
    /\ db = None /\ seen = None /\ due = {} /\ ui = None /\ call = <<>> /\ lost = FALSE

\* A visit is one of a page, or of none while the session is looked at.
Init ==
    \/ /\ \/ Import!ImportInit \/ Form!FormInit \/ Shares!ShareInit \/ List!ListInit
          \/ TxnForm!TxnFormInit \/ Dates!PeriodInit \/ Piles!EarmarkInit
          \/ Plans!BudgetInit \/ PlanForm!BudgetFormInit \/ Wallets!AccountInit \/ Goals!PigInit
       /\ OneTab!SessionInit
    \/ page = "one tab" /\ NoPage /\ OneTab!SessionInit
    \/ page = "two tabs" /\ NoPage /\ TwoTabs!SessionInit

PageNext ==
    \/ page = "import" /\ Import!ImportNext
    \/ page = "splitForm" /\ Form!FormNext
    \/ page = "splitShares" /\ Shares!ShareNext
    \/ page = "transactions" /\ List!ListNext
    \/ page = "transactionForm" /\ TxnForm!TxnFormNext
    \/ page = "period" /\ Dates!PeriodNext
    \/ page = "earmarks" /\ Piles!EarmarkNext
    \/ page = "budgets" /\ Plans!BudgetNext
    \/ page = "budgetForm" /\ PlanForm!BudgetFormNext
    \/ page = "accounts" /\ Wallets!AccountNext
    \/ page = "piggyBanks" /\ Goals!PigNext

SessionNext ==
    \/ page = "one tab" /\ OneTab!SessionNext
    \/ page = "two tabs" /\ TwoTabs!SessionNext

Next ==
    \/ PageNext /\ UNCHANGED sessionVars
    \/ SessionNext /\ UNCHANGED screenVars

Spec == Init /\ [][Next]_<<screenVars, sessionVars>>

-----------------------------------------------------------------------------
\* Every page keeps its state in its types.
TypeOK ==
    /\ page = "import" => Import!ImportTypeOK
    /\ page = "splitForm" => Form!FormTypeOK
    /\ page = "splitShares" => Shares!SharesTypeOK
    /\ page = "transactions" => List!ListTypeOK
    /\ page = "transactionForm" => TxnForm!TxnFormTypeOK
    /\ page = "period" => Dates!PeriodTypeOK
    /\ page = "earmarks" => Piles!EarmarksTypeOK
    /\ page = "budgets" => Plans!BudgetsTypeOK
    /\ page = "budgetForm" => PlanForm!BudgetFormTypeOK
    /\ page = "accounts" => Wallets!AccountsTypeOK
    /\ page = "piggyBanks" => Goals!PigsTypeOK
    /\ page = "one tab" => OneTab!SessionTypeOK
    /\ page = "two tabs" => TwoTabs!SessionTypeOK

\* Once nothing is under way and no answer was lost, every query in use shows what the
\* server has: each mutation invalidates all the queries it changes the answer of.
ScreenCurrent ==
    /\ page = "import" => Import!ImportScreenCurrent
    /\ page = "splitShares" => Shares!SharesCurrent
    /\ page = "transactions" => List!ListCurrent
    /\ page = "earmarks" => Piles!EarmarksCurrent
    /\ page = "budgets" => Plans!BudgetsCurrent
    /\ page = "accounts" => Wallets!AccountsCurrent
    /\ page = "piggyBanks" => Goals!PigsCurrent

\* A reviewed record is a transfer exactly when it has a destination, whatever the
\* order in which type, account and destination were edited, saved and confirmed.
TransfersHaveDestinations == page = "import" => Import!TransfersHaveDestinations

\* On the split form a card's amount that the user has not typed is the total of the
\* payments linked to it, through picking, removing and late answers of the picker.
AmountMirrorsPayments == page = "splitForm" => Form!AmountMirrorsPayments

\* Whatever way it was filled in, the split form sends only bodies the server's checks
\* accept, as long as the amounts it has seen are those of the server and none that was
\* typed is finer than a cent: finer shares may add up and no longer do once rounded.
SentBodiesFit == Form!SentBodiesFit

\* Saving an edit that changed nothing leaves payments, forgiven amounts and statuses of
\* a split as they were when saved, though the server rebuilds all its shares.
UnchangedEditKeepsSplit == Form!UnchangedEditKeepsSplit

\* What the drawer sends to settle or to forgive fits into the share by the server's
\* own reckoning, whenever the drawer shows the share, and knows the payment, as they are.
DrawerAmountsFit == Shares!DrawerAmountsFit

\* The pages of the transaction list, walked from the first to the last by their
\* cursors, show every row that matches.
WalkShowsAll == page = "transactions" => List!WalkShowsAll

\* A visit of a form, or what was typed once into a dialog, makes at most one row,
\* however often it is submitted, unless an answer was lost.
OneRowPerVisit ==
    /\ page = "transactionForm" => TxnForm!OneRowPerVisit
    /\ page = "budgetForm" => PlanForm!OneBudgetPerVisit
    /\ page = "accounts" => Wallets!OneRowPerDraft
    /\ page = "piggyBanks" => Goals!OneRowPerDraft

\* What a form shows of the row it edits is that row as last fetched, until the user
\* changes something: its effects bring in late answers and nothing else.  A row that
\* could not be fetched is excepted: its form is the one before it, or blank.
FormsFollowTheirRows ==
    /\ page = "transactionForm" => TxnForm!FormFollowsRow
    /\ page = "budgetForm" => PlanForm!FormFollowsBudget
    /\ page = "earmarks" => Piles!FormIsTheEarmark
    /\ page = "piggyBanks" => Goals!FormIsTheGoal

\* A savings goal is marked as completed exactly when its contributions reach its target,
\* after any order of adding, removing and editing on its pages.
CompletedMeansReached == page = "piggyBanks" => Goals!CompletedMeansReached

\* A period is whole: it holds today when it is first resolved, begins and ends at the
\* bounds of its kind, and its days in URLs are those on the screen.
PeriodIsWhole == page = "period" => Dates!PeriodIsWhole

\* What the budget form sends once a scope was confirmed is the form as it was last
\* submitted.
ConfirmedIsSubmitted == PlanForm!ConfirmedIsSubmitted

\* The refresh token the browser keeps is one the server accepts, is being exchanged,
\* or is one whose successor was lost on the way.
StoredTokenIsGood ==
    /\ page = "one tab" => OneTab!StoredTokenIsGood
    /\ page = "two tabs" => TwoTabs!StoredTokenIsGood

\* A refresh is refused, which signs the user out, only for a token that was signed
\* out, whose successor was lost, or that another tab exchanged.
RefusedForAReason ==
    /\ page = "one tab" => OneTab!RefusedForAReason
    /\ page = "two tabs" => TwoTabs!RefusedForAReason

\* Sending a call again after a 401 never makes the server do it twice.
DoneAtMostOnce ==
    /\ page = "one tab" => OneTab!DoneAtMostOnce
    /\ page = "two tabs" => TwoTabs!DoneAtMostOnce
=============================================================================
