----------------------------- MODULE SplitShares -----------------------------
(***************************************************************************)
(* The two screens that show a split and let the user work on its shares:  *)
(* the drawer (components/drawers/SplitDrawer.tsx), where one row at a     *)
(* time is expanded, and the page (pages/SplitDetail.tsx), where a dialog  *)
(* covers the rest.  Both send the same requests, and check them           *)
(* differently.                                                            *)
(*                                                                         *)
(* Amounts are whole units, written the way the server writes them; 0 also *)
(* stands for an empty field.                                              *)
(***************************************************************************)
EXTENDS Screen, SplitHandlers

CONSTANTS TheSplit,  \* the split shown
          StartDb,   \* the tables when it is opened
          Typed      \* bound: the amounts the user types

\* GET /splits/{id}: its shares, each with what was paid on it.
SplitView(d) ==
    IF ~IsLive(d.split, TheSplit) THEN NoData
    ELSE [h \in SharesOf(d, TheSplit) |->
            [payee |-> d.share[h].payee, amount |-> d.share[h].amount,
             forgiven |-> d.share[h].forgiven, paid |-> Paid(d, h),
             settlements |-> SettlementsOf(d, h)]]

ShownShares == IF seen.split = NoData THEN {} ELSE DOMAIN seen.split

Share(h) == seen.split[h]

TotalLess(h) == Share(h).amount - Share(h).paid

Remaining(h) == Max({0, TotalLess(h) - Share(h).forgiven})

HasActivity(h) == Share(h).paid > 0 \/ Share(h).forgiven > 0

IsOwnShare(h) == Share(h).payee = NoPayee

(***************************************************************************)
(* Each row has mutations of its own.  Those whose callbacks are given to  *)
(* mutate are named by what they are of: the resetting of a share by the   *)
(* share, the unlinking of a payment by its transaction.                   *)
(***************************************************************************)
Confirmed == {"delete"} \cup ShareIds \cup TxnIds

Hooks == Confirmed \cup {"settle", "forgive", "patch"}

PendingOn(hook, h) == \E k \in Slots : Running(k) /\ call[k].hook = hook /\ call[k].body.share = h

-----------------------------------------------------------------------------
(***************************************************************************)
(* The state of the row in use: its open form and what the forms hold.     *)
(***************************************************************************)
NoForm == [action |-> None, txn |-> None, settle |-> 0, forgive |-> 0, payee |-> NoPayee, amount |-> 0]

\* The forms start from the share as it is shown now.
FreshForm(action, h) ==
    [NoForm EXCEPT !.action = action, !.forgive = Remaining(h),
                   !.payee = Share(h).payee, !.amount = Share(h).amount]

InRow(h) == ui.open /\ ~ui.reset /\ ui.unlink = None /\ ~ui.deleting
            /\ ui.row = h /\ h \in ShownShares

InForm(action, h) == InRow(h) /\ ui.form.action = action

SetForm(new) == Locally([ui EXCEPT !.form = new])

\* A row that collapses forgets its forms, and nobody hears its unlinking.
ToggleShare(h) ==
    /\ ui.open /\ ui.view = "drawer" /\ ~ui.reset /\ ui.unlink = None /\ ~ui.deleting
    /\ h \in ShownShares
    /\ ui' = [ui EXCEPT !.row = IF @ = h THEN None ELSE h, !.form = NoForm]
    /\ call' = Unheard([k \in Hooks |-> k \in TxnIds])
    /\ UNCHANGED <<page, db, seen, due, lost>>

OffersSettle(h) == ~IsOwnShare(h) /\ Remaining(h) > 0

\* The buttons under an expanded share; the one of the open form closes it.
ActivateAction(action, h) ==
    /\ InRow(h) /\ ui.view = "drawer"
    /\ CASE action = "settle"  -> OffersSettle(h)
         [] action = "forgive" -> ~IsOwnShare(h)
         [] action = "edit"    -> TRUE
    /\ SetForm(FreshForm(IF ui.form.action = action THEN None ELSE action, h))

\* The buttons of the page open a dialog each.
OpenSettle(h) ==
    /\ ui.open /\ ui.view = "page" /\ ui.row = None /\ ~ui.reset /\ ui.unlink = None
    /\ h \in ShownShares /\ OffersSettle(h)
    /\ Locally([ui EXCEPT !.row = h,
          !.form = [NoForm EXCEPT !.action = "settle", !.settle = Remaining(h)]])

OpenForgive(h) ==
    /\ ui.open /\ ui.view = "page" /\ ui.row = None /\ ~ui.reset /\ ui.unlink = None
    /\ h \in ShownShares /\ OffersSettle(h)
    /\ Locally([ui EXCEPT !.row = h,
          !.form = [NoForm EXCEPT !.action = "forgive", !.forgive = Remaining(h)]])

OpenEdit(h) ==
    /\ ui.open /\ ui.view = "page" /\ ui.row = None /\ ~ui.reset /\ ui.unlink = None
    /\ h \in ShownShares
    /\ Locally([ui EXCEPT !.row = h,
          !.form = [NoForm EXCEPT !.action = "edit", !.payee = Share(h).payee, !.amount = Share(h).amount]])

\* On the page that gives the row up; in the drawer it stays expanded.
Closing == [ui EXCEPT !.row = IF ui.view = "page" THEN None ELSE @, !.form = NoForm]

CancelForm(h) == InRow(h) /\ ui.form.action # None /\ Locally(Closing)

-----------------------------------------------------------------------------
(***************************************************************************)
(* Recording a payment.                                                    *)
(***************************************************************************)
\* The incomes as they were last read: the page's list, and in the drawer the
\* transaction the picker has put into the cache.
IncomeAmounts == [t \in {t \in DOMAIN db.txn : IsIncome(db, t)} |-> db.txn[t].amount]

\* Any live income is offered, also one that is linked already; choosing one
\* proposes the amount it is known with, or what remains if that is less.
PickPayment(h, t) ==
    /\ InForm("settle", h)
    /\ t \in DOMAIN seen.txn /\ t # ui.form.txn
    /\ SetForm([ui.form EXCEPT !.txn = t,
          !.settle = IF ui.view = "drawer" /\ Remaining(h) = 0 THEN @
                     ELSE Min({seen.txn[t], Remaining(h)})])

TypeSettle(h, a) ==
    InForm("settle", h) /\ ui.form.txn # None /\ SetForm([ui.form EXCEPT !.settle = a])

\* Mutant: the bound is the whole share.
AnySettle(h) == ui.form.settle > 0 /\ ui.form.settle <= Share(h).amount

\* The page only asks for an amount.
SettleAllowed(h) ==
    /\ ui.form.settle > 0
    /\ ui.view = "drawer" => ui.form.settle <= Remaining(h)

\* Without an amount the server credits all of the transaction - what it is worth
\* by then, while the form compares with what it knows.
SettleAmount(t) == IF ui.form.settle = seen.txn[t] THEN None ELSE ui.form.settle

SendSettle(h) ==
    /\ InForm("settle", h) /\ ui.form.txn # None
    /\ SettleAllowed(h) /\ ~PendingOn("settle", h)
    /\ Sends("settle", [share |-> h, txn |-> ui.form.txn, amount |-> SettleAmount(ui.form.txn)])

-----------------------------------------------------------------------------
(***************************************************************************)
(* Forgiving, editing, resetting, unlinking, deleting.                     *)
(***************************************************************************)
TypeForgive(h, a) == InForm("forgive", h) /\ SetForm([ui.form EXCEPT !.forgive = a])

AllRemaining(h) == InForm("forgive", h) /\ SetForm([ui.form EXCEPT !.forgive = TotalLess(h)])

ForgiveAllowed(h) == ui.view = "drawer" => ui.form.forgive <= TotalLess(h)

SendForgive(h) ==
    /\ InForm("forgive", h)
    /\ ForgiveAllowed(h) /\ ~PendingOn("forgive", h)
    /\ Sends("forgive", [share |-> h, amount |-> ui.form.forgive])

\* The own share has no payee box in the drawer.
ChoosePayee(h, p) ==
    /\ InForm("edit", h)
    /\ ui.view = "drawer" => ~IsOwnShare(h)
    /\ p \in DOMAIN db.payee \cup {NoPayee}
    /\ SetForm([ui.form EXCEPT !.payee = p])

TypeShareAmount(h, a) == InForm("edit", h) /\ SetForm([ui.form EXCEPT !.amount = a])

\* Bound: the page's dialog is not opened again to send a second edit meanwhile.
SendEdit(h) ==
    /\ InForm("edit", h) /\ ui.form.amount > 0 /\ ~PendingOn("patch", h)
    /\ Sends("patch", [share |-> h, payee |-> ui.form.payee, amount |-> ui.form.amount])

OpenReset(h) ==
    /\ h \in ShownShares /\ HasActivity(h)
    /\ IF ui.view = "drawer" THEN InRow(h)
       ELSE ui.open /\ ui.row = None /\ ui.unlink = None /\ ~ui.reset /\ ~IsOwnShare(h)
    /\ Locally([ui EXCEPT !.reset = TRUE, !.row = h])

\* The button of a confirmation is not disabled while its call is under way.
SendReset == ui.reset /\ Sends(ui.row, [share |-> ui.row])

CancelReset ==
    ui.reset /\ Locally([ui EXCEPT !.reset = FALSE, !.row = IF ui.view = "page" THEN None ELSE @])

OpenUnlink(h, x) ==
    /\ h \in ShownShares /\ x \in Share(h).settlements /\ ~Pending(x.txn)
    /\ IF ui.view = "drawer" THEN InRow(h)
       ELSE ui.open /\ ui.row = None /\ ui.unlink = None /\ ~ui.reset
    /\ Locally([ui EXCEPT !.unlink = x])

SendUnlink == ui.unlink # None /\ Sends(ui.unlink.txn, [share |-> ui.unlink.share, x |-> ui.unlink])

CancelUnlink == ui.unlink # None /\ Locally([ui EXCEPT !.unlink = None])

OpenDelete ==
    /\ ui.open /\ ui.view = "drawer" /\ ~ui.reset /\ ui.unlink = None /\ ~ui.deleting
    /\ Locally([ui EXCEPT !.deleting = TRUE])

SendDelete == ui.deleting /\ Sends("delete", [share |-> None])

CancelDelete == ui.deleting /\ Locally([ui EXCEPT !.deleting = FALSE])

ShareUser ==
    \/ OpenDelete \/ SendDelete \/ CancelDelete
    \/ SendReset \/ CancelReset \/ SendUnlink \/ CancelUnlink
    \/ \E h \in ShownShares :
          \/ ToggleShare(h) \/ OpenSettle(h) \/ OpenForgive(h) \/ OpenEdit(h) \/ CancelForm(h)
          \/ \E action \in {"settle", "forgive", "edit"} : ActivateAction(action, h)
          \/ SendSettle(h) \/ AllRemaining(h) \/ SendForgive(h) \/ SendEdit(h) \/ OpenReset(h)
          \/ \E t \in TxnIds : PickPayment(h, t)
          \/ \E a \in Typed : TypeSettle(h, a) \/ TypeForgive(h, a) \/ TypeShareAmount(h, a)
          \/ \E p \in PayeeRef : ChoosePayee(h, p)
          \/ \E x \in Share(h).settlements : OpenUnlink(h, x)

-----------------------------------------------------------------------------
(***************************************************************************)
(* The server, and what comes back.                                        *)
(***************************************************************************)
CreditOf(b) == IF b.amount = None THEN db.txn[b.txn].amount ELSE b.amount

ShareAccepted(k) ==
    LET h == call[k].hook
        b == call[k].body
    IN  CASE h = "settle"   -> SettleShareOk(db, b.share, b.txn, CreditOf(b))
          [] h = "forgive"  -> ForgiveShareOk(db, b.share, b.amount)
          [] h = "patch"    -> PatchShareOk(db, b.share, {"amount", "payee"}, b.amount, b.payee)
          [] h \in ShareIds -> UnsettleShareOk(db, b.share)
          [] h \in TxnIds   -> UnlinkSettlementOk(db, b.share, b.x)
          [] h = "delete"   -> DeleteSplitOk(db, TheSplit)

ShareResult(k) ==
    LET h == call[k].hook
        b == call[k].body
    IN  CASE h = "settle"   -> SettleShareWrite(db, db, b.share, b.txn, CreditOf(b))
          [] h = "forgive"  -> ForgiveShareWrite(db, db, b.share, b.amount)
          [] h = "patch"    -> PatchShareWrite(db, db, b.share, {"amount", "payee"}, b.amount, b.payee)
          [] h \in ShareIds -> UnsettleShareWrite(db, db, b.share)
          [] h \in TxnIds   -> UnlinkSettlementWrite(db, db, b.share, b.x)
          [] h = "delete"   -> DeleteSplitWrite(db, db, TheSplit)

ServeShare(k) ==
    /\ Running(k) /\ ShareAccepted(k)
    /\ Serve(k, Commits(ShareResult(k)), ShareResult(k).db)

\* The call after which the drawer closes, the dialog closes, or the row's forms
\* do - whichever of them is open by then.
HeardShare(k) ==
    LET h == call[k].hook
        s == call[k].body.share
    IN  IF h \in Confirmed /\ ~call[k].heard THEN ui
        ELSE
        CASE h = "delete"   -> [ui EXCEPT !.deleting = FALSE, !.open = FALSE]
          [] h \in ShareIds -> [ui EXCEPT !.reset = FALSE,
                                          !.row = IF ui.view = "page" /\ ui.reset THEN None ELSE @]
          [] h \in TxnIds   -> [ui EXCEPT !.unlink = IF @ = call[k].body.x THEN None ELSE @]
          [] ui.row # s     -> ui
          [] ui.view = "page" /\ ui.form.action # (IF h = "patch" THEN "edit" ELSE h) -> ui
          [] OTHER -> IF ui.reset THEN [ui EXCEPT !.form = NoForm] ELSE Closing

\* invalidateSplitsAndTransactions
InvalidatedByShare(k) == {"split"}

AnswerShare(k) == Running(k) /\ Returns(k, InvalidatedByShare(k), HeardShare(k))

\* Fresh data: the edit form follows when the share's payee or amount changed; a
\* payment that is gone takes its dialog with it.
Synced(new) ==
    LET moved == /\ ui.view = "drawer" /\ ui.row # None
                 /\ \/ Share(ui.row).payee # new[ui.row].payee
                    \/ Share(ui.row).amount # new[ui.row].amount
        there == \E h \in DOMAIN new : ui.unlink \in new[h].settlements
    IN  [ui EXCEPT !.unlink = IF there THEN @ ELSE None,
                   !.form.payee = IF moved THEN new[ui.row].payee ELSE @,
                   !.form.amount = IF moved THEN new[ui.row].amount ELSE @]

FetchSplit ==
    /\ due # {}
    /\ due' = {}
    /\ IF IsLive(db.split, TheSplit)
       THEN /\ seen' = [split |-> SplitView(db), txn |-> seen.txn]
            /\ ui' = Synced(SplitView(db))
       ELSE UNCHANGED <<seen, ui>>   \* an error leaves what was shown
    /\ UNCHANGED <<page, db, call, lost>>

\* The incomes are read again on many occasions, none of which the page waits for.
FetchIncomes ==
    /\ seen.txn # IncomeAmounts
    /\ seen' = [split |-> seen.split, txn |-> IncomeAmounts]
    /\ UNCHANGED <<page, db, due, ui, call, lost>>

\* Another tab edits the amount of an income, and nobody tells this one.
\* Bound: that happens once, and raises it.
EditIncome(t, a) ==
    /\ db.txn = StartDb.txn
    /\ IsIncome(db, t) /\ a > db.txn[t].amount /\ a \in 1..MaxMoney
    /\ db' = [db EXCEPT !.txn[t].amount = a]
    /\ UNCHANGED <<page, seen, due, ui, call, lost>>

-----------------------------------------------------------------------------
ShareInit ==
    /\ page = "splitShares"
    /\ db = StartDb
    /\ seen = [split |-> NoData, txn |-> IncomeAmounts]
    /\ due = {"split"}
    /\ \E view \in {"drawer", "page"} :
          ui = [view |-> view, open |-> TRUE, row |-> None, form |-> NoForm,
                reset |-> FALSE, unlink |-> None, deleting |-> FALSE]
    /\ call = [k \in Slots |-> Idle]
    /\ lost = FALSE

ShareClient ==
    \/ \E k \in Slots : ServeShare(k) \/ AnswerShare(k) \/ Fails(k, ui)
    \/ FetchSplit \/ FetchIncomes
    \/ \E t \in TxnIds, a \in Typed : EditIncome(t, a)

ShareNext == ShareUser \/ ShareClient

-----------------------------------------------------------------------------
(***************************************************************************)
(* Properties.                                                             *)
(***************************************************************************)
SharesTypeOK ==
    /\ IsDatabase(db)
    /\ ui.row \in ShareIds \cup {None}
    /\ ui.form.txn \in TxnIds \cup {None} /\ ui.form.payee \in PayeeRef
    /\ CallRow(Hooks)

SentNow(k, hook) == call[k] = Idle /\ call'[k] # Idle /\ call'[k].hook = hook

\* A payment recorded in the drawer, and what is forgiven there, fit into the share
\* by the server's own reckoning whenever the drawer shows the share, and knows the
\* payment, as they are.
DrawerAmountsFit ==
    [][page = "splitShares" =>
          \A k \in Slots : call[k] = Idle /\ ui.view = "drawer" /\ seen.split = SplitView(db) =>
              LET b == call'[k].body
              IN  /\ SentNow(k, "settle") /\ seen.txn[b.txn] = db.txn[b.txn].amount =>
                        Paid(db, b.share) + db.share[b.share].forgiven + CreditOf(b)
                            <= db.share[b.share].amount
                  /\ SentNow(k, "forgive") => ForgiveShareOk(db, b.share, b.amount)]_screenVars

\* With nothing under way and no answer lost, what is shown of a split is what the
\* server has (of one deleted, what was last shown stays).
SharesCurrent ==
    ~lost /\ IsLive(db.split, TheSplit) /\ due = {} /\ (\A k \in Slots : ~Running(k)) => seen.split = SplitView(db)
=============================================================================
