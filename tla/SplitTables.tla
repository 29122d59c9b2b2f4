---------------------------- MODULE SplitTables ----------------------------
(***************************************************************************)
(* The database tables behind expense splitting, and what PostgreSQL       *)
(* itself guarantees about them.                                           *)
(*                                                                         *)
(* A database is a record d of tables; a table is a function from the ids  *)
(* of the rows it holds to the rows:                                       *)
(*   d.txn    transactions             d.payee  payees                     *)
(*   d.split  splits                   d.share  split_shares               *)
(*   d.links  split_expenses           d.paid   split_share_settlements    *)
(* Decimal(15,2) amounts are whole numbers of the smallest unit.           *)
(***************************************************************************)
EXTENDS Integers, FiniteSets, FiniteSetsExt

CONSTANTS TxnIds,     \* ids of transactions rows
          SplitIds,   \* ids of splits rows
          ShareIds,   \* ids of split_shares rows
          Payees,     \* ids of payees rows
          NoPayee,    \* the NULL payee_id
          TxnTypes,   \* the transaction types in use
          TxnPayee,   \* the payee_id of each transaction, while that payee exists
          MaxMoney    \* the largest value a NUMERIC(15,2) column holds

ASSUME TablesAssumption ==
    /\ NoPayee \notin Payees
    /\ {"expense", "income"} \subseteq TxnTypes
    /\ TxnPayee \in [TxnIds -> Payees \cup {NoPayee}]
    /\ MaxMoney \in Nat \ {0}

\* Ids are UUIDs, of which there are finitely many.
ASSUME FiniteIds == IsFiniteSet(TxnIds) /\ IsFiniteSet(ShareIds) /\ IsFiniteSet(Payees)

(***************************************************************************)
(* Rows.  A soft-deleted row is "deleted" while it can be restored and     *)
(* "expired" once its 30 days are over; a purged row leaves its table.     *)
(***************************************************************************)
Retention == {"live", "deleted", "expired"}
Statuses == {"pending", "settled", "forgiven"}
Money == (-MaxMoney)..MaxMoney
PayeeRef == Payees \cup {NoPayee}

TxnRow == [type : TxnTypes, amount : 1..MaxMoney, state : Retention]
ShareRow == [split : SplitIds, payee : PayeeRef, amount : Money,
             forgiven : Money, status : Statuses]
Link == [split : SplitIds, txn : TxnIds]
Settlement == [share : ShareIds, txn : TxnIds, amount : Money]

IsTable(f, Ids, Row) == DOMAIN f \subseteq Ids /\ f \in [DOMAIN f -> Row]

IsDatabase(d) ==
    /\ DOMAIN d = {"txn", "payee", "split", "share", "links", "paid"}
    /\ IsTable(d.txn, TxnIds, TxnRow)
    /\ IsTable(d.payee, Payees, Retention)
    /\ IsTable(d.split, SplitIds, {"live", "deleted"})
    /\ IsTable(d.share, ShareIds, ShareRow)
    /\ d.links \subseteq Link
    /\ d.paid \subseteq Settlement

-----------------------------------------------------------------------------
(***************************************************************************)
(* Queries.                                                                *)
(***************************************************************************)
IsLive(table, id) == id \in DOMAIN table /\ table[id] = "live"
LiveTxn(d, t) == t \in DOMAIN d.txn /\ d.txn[t].state = "live"
IsExpense(d, t) == LiveTxn(d, t) /\ d.txn[t].type = "expense"
IsIncome(d, t) == LiveTxn(d, t) /\ d.txn[t].type = "income"

LinksOf(d, s) == {l \in d.links : l.split = s}
ExpensesOf(d, s) == {l.txn : l \in LinksOf(d, s)}
SharesOf(d, s) == {h \in DOMAIN d.share : d.share[h].split = s}
SettlementsOf(d, h) == {x \in d.paid : x.share = h}
CreditsOf(d, t) == {x \in d.paid : x.txn = t}
IsLinked(d, t) == \E l \in d.links : l.txn = t

\* The total of a set of transactions, of a split's shares, and of what has
\* been received on a share.
TxnTotal(d, T) == MapThenSumSet(LAMBDA t : d.txn[t].amount, T)
ShareTotal(d, s) == MapThenSumSet(LAMBDA h : d.share[h].amount, SharesOf(d, s))
Paid(d, h) == MapThenSumSet(LAMBDA x : x.amount, SettlementsOf(d, h))
LinkedTotal(d, s) == TxnTotal(d, ExpensesOf(d, s) \cap DOMAIN d.txn)

Balanced(d, s) == ShareTotal(d, s) = LinkedTotal(d, s)

\* What counts as the user's own cost of a share: all of it when it has no
\* payee or was written off, otherwise the part written off.
OwnCost(share) ==
    IF share.payee = NoPayee \/ share.status = "forgiven"
    THEN share.amount
    ELSE share.forgiven

NetExpense(d, s) == MapThenSumSet(LAMBDA h : OwnCost(d.share[h]), SharesOf(d, s))

\* The view transaction_with_net_amount, row by row.
NetAmount(d, t) ==
    LET splits == {s \in DOMAIN d.split : IsLive(d.split, s) /\ t \in ExpensesOf(d, s)}
        shares == UNION {SharesOf(d, s) : s \in splits}
    IN  IF shares = {} THEN d.txn[t].amount
        ELSE MapThenSumSet(LAMBDA h : OwnCost(d.share[h]), shares)

-----------------------------------------------------------------------------
(***************************************************************************)
(* What the database refuses, whatever the application writes.             *)
(***************************************************************************)
ForeignKeys(d) ==
    /\ \A l \in d.links : l.split \in DOMAIN d.split /\ l.txn \in DOMAIN d.txn
    /\ \A h \in DOMAIN d.share :
          /\ d.share[h].split \in DOMAIN d.split
          /\ d.share[h].payee \in DOMAIN d.payee \cup {NoPayee}
    /\ \A x \in d.paid : x.share \in DOMAIN d.share /\ x.txn \in DOMAIN d.txn

\* uq_split_expenses_transaction
OneParentPerExpense(d) ==
    \A k, l \in d.links : k.txn = l.txn => k = l

\* uq_split_shares_payee_per_split
OneSharePerPayee(d) ==
    \A g, h \in DOMAIN d.share :
        /\ d.share[g].split = d.share[h].split
        /\ d.share[g].payee = d.share[h].payee
        /\ d.share[g].payee # NoPayee
        => g = h

\* uq_settlement_share_txn: an income is linked to a share once
OneLinkPerShareAndIncome(d) ==
    \A x, y \in d.paid : x.share = y.share /\ x.txn = y.txn => x = y

ColumnDomains(d) ==
    /\ \A h \in DOMAIN d.share : d.share[h].amount \in Money /\ d.share[h].forgiven \in Money
    /\ \A x \in d.paid : x.amount \in Money

Constraints(d) ==
    /\ ForeignKeys(d)
    /\ OneParentPerExpense(d)
    /\ OneSharePerPayee(d)
    /\ OneLinkPerShareAndIncome(d)
    /\ ColumnDomains(d)

\* Mutant: the trigger is not installed.
NoTrigger(d, touched) == TRUE

\* The deferred trigger on split_shares, run at commit for every split one of
\* whose shares the transaction wrote.
TriggerAccepts(d, touched) ==
    \A s \in touched : LinkedTotal(d, s) = 0 \/ Balanced(d, s)

CommitAccepts(d, touched) == Constraints(d) /\ TriggerAccepts(d, touched)
=============================================================================
