------------------------------- MODULE Splits -------------------------------
(***************************************************************************)
(* Expense splits used by one request at a time: each action is one whole  *)
(* request (checks, writes, commit) or one run of the purge job.  A        *)
(* request that fails a check, or whose commit the database refuses,       *)
(* changes nothing and is not a step.                                      *)
(***************************************************************************)
EXTENDS LedgerHandlers

CONSTANTS Amounts,      \* positive amounts a request may carry
          Bodies,       \* bodies of POST /splits and PUT /splits/{id}
          WriteOffs,    \* forgiven_shares of POST /splits/bundle
          TxnValues,    \* <<type, amount>> pairs a new or edited transaction gets
          InitialTxns,  \* the transactions there are before the first split
          Unclaimed,    \* stands for no split, in the abstract specification
          MaxEdits      \* bound: how often transactions and payees are edited or deleted

ASSUME SplitsAssumption ==
    /\ Amounts \subseteq 1..MaxMoney
    /\ TxnValues \subseteq TxnTypes \X (1..MaxMoney)
    /\ \A body \in Bodies : ValidBody(body)
    /\ \A offs \in WriteOffs : DOMAIN offs \subseteq PayeeRef /\ offs \in [DOMAIN offs -> 1..MaxMoney]
    /\ IsTable(InitialTxns, TxnIds, [type : TxnTypes, amount : 1..MaxMoney, state : {"live"}])
    /\ Unclaimed \notin SplitIds
    /\ MaxEdits \in Nat

VARIABLES db,      \* the database
          edits    \* how often they have been

vars == <<db, edits>>

Init ==
    /\ db = [txn   |-> InitialTxns,
             payee |-> [p \in Payees |-> "live"],
             split |-> [s \in {} |-> "live"],
             share |-> [h \in {} |-> 0],
             links |-> {},
             paid  |-> {}]
    /\ edits = 0

Handle(res) == Commits(res) /\ db' = res.db /\ UNCHANGED edits

Edit(res) == edits < MaxEdits /\ Commits(res) /\ db' = res.db /\ edits' = edits + 1

-----------------------------------------------------------------------------
CreateSplit(exps, body) ==
    /\ CreateSplitOk(db, exps, body)
    /\ HasSplitId(db) /\ HasShareIds(DOMAIN db.share, body)
    /\ Handle(CreateSplitWrite(db, db, DOMAIN db.share, exps, body))

UpdateSplit(s, exps, body) ==
    /\ UpdateSplitOk(db, s, exps, body)
    /\ HasShareIds(DOMAIN db.share, body)
    /\ Handle(UpdateSplitWrite(db, db, DOMAIN db.share, s, exps, body))

BundleSplit(exps, incs, offs) ==
    /\ BundleSplitOk(db, exps, incs, offs)
    /\ HasSplitId(db) /\ HasShareIds(DOMAIN db.share, BundleRows(db, exps, incs, offs))
    /\ Handle(BundleSplitWrite(db, db, DOMAIN db.share, exps, incs, offs))

DeleteSplit(s) == DeleteSplitOk(db, s) /\ Handle(DeleteSplitWrite(db, db, s))

PatchShare(h, fields, amount, payee) ==
    /\ PatchShareOk(db, h, fields, amount, payee)
    /\ Handle(PatchShareWrite(db, db, h, fields, amount, payee))

SettleShare(h, t, credit) ==
    SettleShareOk(db, h, t, credit) /\ Handle(SettleShareWrite(db, db, h, t, credit))

UnlinkSettlement(h, x) ==
    UnlinkSettlementOk(db, h, x) /\ Handle(UnlinkSettlementWrite(db, db, h, x))

ForgiveShare(h, amount) ==
    ForgiveShareOk(db, h, amount) /\ Handle(ForgiveShareWrite(db, db, h, amount))

UnsettleShare(h) == UnsettleShareOk(db, h) /\ Handle(UnsettleShareWrite(db, db, h))

-----------------------------------------------------------------------------
CreateTxn(t, type, amount) == Edit(CreateTxnWrite(db, t, type, amount))

PatchTxn(t, type, amount) ==
    PatchTxnOk(db, t) /\ Edit(PatchTxnWrite(db, db, t, type, amount))

DeleteTxn(t) == DeleteTxnOk(db, t) /\ Edit(DeleteTxnWrite(db, t))

RestoreTxn(t) == RestoreTxnOk(db, t) /\ Handle(RestoreTxnWrite(db, t))

ReplaceTxns(olds, t, type, amount) == Edit(ReplaceTxnsWrite(db, db, olds, t, type, amount))

DeletePayee(p) == DeletePayeeOk(db, p) /\ Edit(DeletePayeeWrite(db, p))

RestorePayee(p) == RestorePayeeOk(db, p) /\ Handle(RestorePayeeWrite(db, p))

\* The 30 days of a soft-deleted row pass.
Expire == \/ \E t \in TxnIds : Handle(ExpireTxn(db, t))
          \/ \E p \in Payees : Handle(ExpirePayee(db, p))

Purge == ExpiredTxns(db) \cup ExpiredPayees(db) # {} /\ Handle(PurgeWrite(db))

-----------------------------------------------------------------------------
\* Transactions a request can name without being refused at once.
Expenses == SUBSET {t \in TxnIds : IsExpense(db, t)} \ {{}}
Incomes == SUBSET {t \in TxnIds : IsIncome(db, t)}

SplitRequest ==
    \/ \E exps \in Expenses, body \in Bodies : CreateSplit(exps, body)
    \/ \E s \in SplitIds, exps \in Expenses, body \in Bodies : UpdateSplit(s, exps, body)
    \/ \E exps \in Expenses, incs \in Incomes, offs \in WriteOffs :
          BundleSplit(exps, incs, offs)
    \/ \E s \in SplitIds : DeleteSplit(s)

\* The values a patch can give a field: any if it names the field, else one that
\* is not read, for an omitted field is left unchanged.
Given(field, fields, values) ==
    {v \in values : field \in fields \/ v = CHOOSE w \in values : TRUE}

ShareRequest ==
    \E h \in ShareIds :
        \/ \E fields \in SUBSET {"amount", "payee"} :
              \E amount \in Given("amount", fields, Amounts),
                 payee \in Given("payee", fields, PayeeRef) :
                    PatchShare(h, fields, amount, payee)
        \/ \E t \in TxnIds, credit \in Amounts : SettleShare(h, t, credit)
        \/ \E x \in db.paid : UnlinkSettlement(h, x)
        \/ \E amount \in Amounts \cup {0} : ForgiveShare(h, amount)
        \/ UnsettleShare(h)

LedgerRequest ==
    \/ \E t \in TxnIds, value \in TxnValues :
          \/ CreateTxn(t, value[1], value[2])
          \/ PatchTxn(t, value[1], value[2])
          \/ \E old \in TxnIds : ReplaceTxns({old}, t, value[1], value[2])
    \/ \E t \in TxnIds : DeleteTxn(t) \/ RestoreTxn(t)
    \/ \E p \in Payees : DeletePayee(p) \/ RestorePayee(p)

Next == SplitRequest \/ ShareRequest \/ LedgerRequest \/ Expire \/ Purge

Spec == Init /\ [][Next]_vars

-----------------------------------------------------------------------------
(***************************************************************************)
(* Properties.                                                             *)
(***************************************************************************)

\* Every table holds rows of its columns' types.
TypeOK == IsDatabase(db) /\ edits \in 0..MaxEdits

\* An income transaction is credited to at most one share of any split.  No
\* unique constraint says so: create, update, bundle and settle each look the
\* income up first.
IncomeLinkedOnce == \A x, y \in db.paid : x.txn = y.txn => x = y

\* Only a live split holds transactions.  One linked to a deleted split could
\* neither be deleted (409) nor be unlinked (the split is a 404).
OnlyLiveSplitsHold ==
    /\ \A l \in db.links : IsLive(db.split, l.split)
    /\ \A x \in db.paid : IsLive(db.split, db.share[x.share].split)

\* A share is never credited and forgiven beyond its amount, whatever the
\* sequence of settling, forgiving, patching, updating and unlinking.
CoveredWithinShare ==
    \A h \in DOMAIN db.share :
        Paid(db, h) + db.share[h].forgiven <= db.share[h].amount

\* What a payee has paid on a share is not reported as the user's own cost as
\* well, however the share was paid, forgiven, patched and replaced before.  It
\* speaks of shares with a payee only: services/expense_calculator.py counts a
\* share without one in full even when an income was credited to it (bundled
\* without a payee, or its payee purged), although its line 12 says that
\* settled portions are excluded.
CostPlusPaidWithinShare ==
    \A h \in DOMAIN db.share :
        db.share[h].payee # NoPayee =>
            OwnCost(db.share[h]) + Paid(db, h) <= db.share[h].amount

SameParents(s) ==
    \A t \in ExpensesOf(db, s) :
        t \in DOMAIN db'.txn /\ db'.txn[t].amount = db.txn[t].amount

\* A split leaves a step with shares that sum to its expenses unless the step
\* edited the amount of one of them, or they did not match before.
StepsKeepBalance ==
    [][\A s \in DOMAIN db'.split :
          /\ db'.split[s] = "live"
          /\ s \in DOMAIN db.split => Balanced(db, s) /\ SameParents(s)
          => Balanced(db', s)]_vars

\* When a request changes what a share has received or been forgiven, or makes
\* the share, the status it leaves is the one those amounts call for.
StatusFollowsPayments ==
    [][\A h \in DOMAIN db'.share :
          /\ \/ h \notin DOMAIN db.share
             \/ db'.share[h].forgiven # db.share[h].forgiven
             \/ SettlementsOf(db', h) # SettlementsOf(db, h)
          /\ IsLive(db'.split, db'.share[h].split)
          /\ DOMAIN db.txn \subseteq DOMAIN db'.txn
          => db'.share[h].status =
                DeriveStatus(db'.share[h].amount, Paid(db', h), db'.share[h].forgiven)]_vars

\* No step changes the credit of an income that stays in its split: updating a
\* split deletes and recreates its settlements without turning a partial
\* payment into a full one.
CreditsAreKept ==
    [][\A x \in db.paid, y \in db'.paid :
          x.txn = y.txn /\ db.share[x.share].split = db'.share[y.share].split
          => x.amount = y.amount]_vars

-----------------------------------------------------------------------------
(***************************************************************************)
(* Splits implement the abstract claims on transactions.                   *)
(***************************************************************************)
ClaimStatus ==
    [s \in SplitIds |-> IF s \notin DOMAIN db.split THEN "unused"
                        ELSE IF db.split[s] = "live" THEN "open" ELSE "closed"]

ParentOf ==
    [t \in TxnIds |-> IF IsLinked(db, t) THEN (CHOOSE l \in db.links : l.txn = t).split
                      ELSE Unclaimed]

PaymentOf ==
    [t \in TxnIds |-> IF CreditsOf(db, t) = {} THEN Unclaimed
                      ELSE db.share[(CHOOSE x \in CreditsOf(db, t) : TRUE).share].split]

Claims == INSTANCE SplitClaims WITH
            status <- ClaimStatus, parentOf <- ParentOf, paymentOf <- PaymentOf

\* Every request moves the claims of one split by what is free, deleting a split
\* frees all it held, and a live split is never without a parent expense.
ImplementsClaims == Claims!ClaimsSpec

-----------------------------------------------------------------------------
(***************************************************************************)
(* What the documentation says and the handlers do not keep.               *)
(***************************************************************************)

\* FR-7.3: the shares of a split sum to its parent expense.
SharesMatchExpense ==
    \A s \in DOMAIN db.split : IsLive(db.split, s) => Balanced(db, s)

\* FR-7.9: the dashboard's expense total, a sum of the net_amount of every live
\* expense transaction, counts the user's cost of a split once.
ReportedCost(d, s) ==
    MapThenSumSet(LAMBDA t : NetAmount(d, t), {t \in ExpensesOf(d, s) : IsExpense(d, t)})

CostReportedOnce ==
    \A s \in DOMAIN db.split : IsLive(db.split, s) =>
        ReportedCost(db, s) <= NetExpense(db, s)

\* Rows soft-deleted for more than 30 days can be deleted: the purge never meets
\* a row that a foreign key keeps.
PurgeNeverBlocked == PurgeBlockers(db) = {}
=============================================================================
