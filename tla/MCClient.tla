------------------------------ MODULE MCClient ------------------------------
(***************************************************************************)
(* The client on a small instance of each page, and of a session.          *)
(***************************************************************************)
EXTENDS Client, TLC

CONSTANTS r1,          \* a statement's record
          h0, h1, h2,  \* shares of a split
          t0, t1, t2   \* tabs of the browser

-----------------------------------------------------------------------------
\* One record that may be a bill of the card; the tabs of a parsed statement.
MCReviewCase ==
    [calls |-> 2, records |-> {r1}, bills |-> {r1}, visited |-> {"duplicate"},
     uploadedFor |-> {None}, chosen |-> {Bank}, tried |-> {Card}]

-----------------------------------------------------------------------------
\* Splits: an expense and incomes that may be payments for it.
Ledger(amounts) ==
    [t \in DOMAIN amounts |-> [type |-> IF t = "e1" THEN "expense" ELSE "income",
                               amount |-> amounts[t], state |-> "live"]]

Owes(p, a, forgiven, status) ==
    [split |-> "s1", payee |-> p, amount |-> a, forgiven |-> forgiven, status |-> status]

Tables(ledger, payees, shares, paid) ==
    [txn |-> ledger, payee |-> [p \in payees |-> "live"], share |-> shares, paid |-> paid,
     split |-> [s \in IF shares = <<>> THEN {} ELSE {"s1"} |-> "live"],
     links |-> IF shares = <<>> THEN {} ELSE {[split |-> "s1", txn |-> "e1"]}]

\* A form before there are transactions and payees; a new split of an expense of 1; the edit of one of 2 that
\* a payment of 1 and a forgiven 1 have settled.  0.6 cents may be typed: two such shares add up to 1 but for
\* the tolerance, and are sent as 1 each.
FormLedger(amount) == Ledger([t \in {"e1", "i1"} |-> IF t = "e1" THEN amount ELSE 1])
Starts ==
    {[db |-> Tables(<<>>, {}, <<>>, {}), split |-> None],
     [db |-> Tables(FormLedger(1), {"p"}, <<>>, {}), split |-> None],
     [db |-> Tables(FormLedger(2), {"p"}, [h \in {h1} |-> Owes("p", 2, 1, "settled")],
                    {[share |-> h1, txn |-> "i1", amount |-> 1]}), split |-> "s1"]}

MCSplitFormCase ==
    [calls |-> 1, cards |-> {"c1", "c2"}, typed |-> {6}, starts |-> Starts,
     txnIds |-> {"e1", "i1"}, splitIds |-> {"s1"}, shareIds |-> {h0, h1, h2},
     payees |-> {"p"}, txnTypes |-> {"expense", "income"},
     txnPayee |-> [t \in {"e1", "i1"} |-> NoPayee], maxMoney |-> 9]

\* A split of 3: the user's own share of 1, and one of 2 that incomes of 1 and 3 may pay.
ShareDb ==
    Tables(Ledger([t \in {"e1", "i1", "i2"} |-> IF t = "i1" THEN 1 ELSE 3]), {"p"},
           [h \in {h0, h1} |-> IF h = h0 THEN Owes(NoPayee, 1, 0, "pending")
                                         ELSE Owes("p", 2, 0, "pending")], {})

MCSplitSharesCase ==
    [calls |-> 2, theSplit |-> "s1", startDb |-> ShareDb, typed |-> {2},
     txnIds |-> {"e1", "i1", "i2"}, splitIds |-> {"s1"}, shareIds |-> {h0, h1},
     payees |-> {"p"}, txnTypes |-> {"expense", "income"},
     txnPayee |-> [t \in {"e1", "i1", "i2"} |-> NoPayee], maxMoney |-> 9]

-----------------------------------------------------------------------------
\* Three transactions on two days, two of them of the same amount.
ListRows == 1..3
DayOf == [r \in ListRows |-> IF r = 1 THEN 1 ELSE 2]
AmountOf == [r \in ListRows |-> IF r = 2 THEN 1 ELSE 2]
KindOf == [r \in ListRows |-> IF r = 1 THEN "income" ELSE "expense"]
PaymentFor == [r \in ListRows |-> IF r = 1 THEN "s1" ELSE None]
PartOf == [r \in ListRows |-> IF r = 2 THEN "s1" ELSE None]

MCListCase ==
    [calls |-> 1, rows |-> ListRows, day |-> DayOf, amount |-> AmountOf, kind |-> KindOf,
     linked |-> {2}, settledIn |-> PaymentFor, expenseOf |-> PartOf,
     filterTypes |-> {None, "expense"}, sorts |-> {<<"date", "desc">>, <<"amount", "asc">>},
     sizes |-> {1, 2}, periods |-> {{1, 2}, {2}}, thisMonth |-> {1, 2}, moves |-> 3]

\* A new transaction, the edit of an expense, and that of a transfer.
Edited ==
    {None,
     [type |-> "expense", amount |-> 1, account |-> "bank", to |-> None, method |-> "upi",
      payee |-> "shop", category |-> None, tags |-> {}, text |-> "old"],
     [type |-> "transfer", amount |-> 1, account |-> "bank", to |-> "card", method |-> None,
      payee |-> None, category |-> None, tags |-> {"t1"}, text |-> None]}

MCTxnFormCase ==
    [calls |-> 2, accounts |-> {"bank", "card"}, liabilities |-> {"card"},
     methodsOf |-> [a \in {"bank", "card"} |-> IF a = "bank" THEN {"upi"} ELSE {}],
     defaultOf |-> [p \in {"shop"} |-> "food"], categories |-> {"food"}, tags |-> {"t1"},
     newPayee |-> "p2", newCategory |-> "c2", newTag |-> "t2",
     types |-> {"expense", "transfer"}, startTxns |-> Edited, changes |-> 2]

\* The first day of a year that begins on a Sunday, and leap day of the year after.
MCPeriodCase ==
    [calls |-> 1, firstYear |-> 2023, lastYear |-> 2024, todays |-> {0, 424},
     clicked |-> {3, 425}, ticks |-> 4]

-----------------------------------------------------------------------------
MCEarmarksCase ==
    [calls |-> 2, newEarmark |-> "e3", cash |-> 3, typed |-> {2}, changes |-> 3,
     startEarmarks |-> [e \in {"e1", "e2"} |->
         [amount |-> 1, note |-> IF e = "e1" THEN None ELSE "old", active |-> e = "e1"]]]

MCBudgetsCase ==
    [calls |-> 2, newBudget |-> "b2", rules |-> {"daily"}, days |-> {0}, changes |-> 2,
     startBudgets |-> [b \in {"b1"} |->
         [type |-> "recurring", rule |-> "monthly", active |-> TRUE, since |-> "before"]]]

\* A new budget, the edit of a recurring one, and that of one for a single period.
Planned ==
    {None,
     [type |-> "recurring", amount |-> 1, rule |-> "weekly", category |-> "food",
      end |-> None, active |-> TRUE],
     [type |-> "adhoc", amount |-> 1, rule |-> None, category |-> None,
      end |-> "day", active |-> TRUE]}

MCBudgetFormCase ==
    [calls |-> 2, startBudgets |-> Planned, rules |-> {"monthly", "weekly"},
     defaultRule |-> "monthly", categories |-> {"food"}, changes |-> 2]

\* An account that transactions refer to, and a card.
MCAccountsCase ==
    [calls |-> 2, newIds |-> {"n1", "n2"}, names |-> {"x"}, busy |-> {"a1"}, opens |-> 3,
     startAccounts |-> [a \in {"a1", "a2"} |->
         [name |-> "old", type |-> IF a = "a1" THEN "bank" ELSE "credit_card", active |-> TRUE, draft |-> None]],
     startMethods |-> [m \in {"m1"} |->
         [account |-> "a1", draft |-> None]]]

\* A goal of 2 that is reached, and one that is not begun.
MCGoalsCase ==
    [calls |-> 2, txns |-> {"e1"}, unknown |-> "e9", typed |-> {1, 2},
     newIds |-> {"n1", "n2"}, opens |-> 4,
     startPigs |-> [p \in {"p1", "p2"} |->
         [target |-> 2, notes |-> IF p = "p1" THEN "old" ELSE None, completed |-> p = "p1",
         draft |-> None]],
     startContribs |-> [c \in {"c1"} |-> [pig |-> "p1", amount |-> 2, draft |-> None]]]

-----------------------------------------------------------------------------
\* One tab with two calls under way, and two tabs with one.
MCOneTabCase ==
    [tabs |-> {t0}, maxTokens |-> 3, maxCalls |-> 2]
MCTwoTabsCase ==
    [tabs |-> {t1, t2}, maxTokens |-> 3, maxCalls |-> 1]

\* The two tabs are alike.
TabSymmetry == Permutations({t1, t2})
=============================================================================
