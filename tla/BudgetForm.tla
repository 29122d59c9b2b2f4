----------------------------- MODULE BudgetForm -----------------------------
(***************************************************************************)
(* The page that adds or edits a budget (pages/BudgetForm.tsx).  An edit   *)
(* of a recurring budget is held back until the user has said, in a        *)
(* dialog, from when on it applies.                                        *)
(*                                                                         *)
(* amount stands for the fields that are always sent, end for the dates,   *)
(* which are left out when empty.                                          *)
(***************************************************************************)
EXTENDS Screen

CONSTANTS StartBudgets,  \* the budgets edited, None for a new one
          Rules,         \* the recurrence rules offered
          DefaultRule,   \* the one chosen at first
          Categories,
          Changes        \* bound: how many fields are changed in a visit

-----------------------------------------------------------------------------
(***************************************************************************)
(* The form.                                                               *)
(***************************************************************************)
BlankForm == [type |-> "adhoc", amount |-> 0, rule |-> DefaultRule, category |-> None, end |-> None]

\* Also a budget without a rule is edited with the first one.
FormOf(row) ==
    [type |-> row.type, amount |-> row.amount, category |-> row.category, end |-> row.end,
     rule |-> IF row.rule = None THEN DefaultRule ELSE row.rule]

Loaded == seen.budget # NoData

OnForm == ~ui.done /\ ~ui.asking

\* touched is kept for the properties: the user has changed the form since it last
\* followed the budget.
Edited(form) ==
    /\ OnForm /\ form # ui.form /\ ui.changes < Changes
    /\ Locally([ui EXCEPT !.form = form, !.touched = TRUE, !.changes = @ + 1])

TypeAmount == Edited([ui.form EXCEPT !.amount = 2])

ChooseType(type) == ~ui.editing /\ Edited([ui.form EXCEPT !.type = type])

ChooseRule(rule) ==
    /\ ui.form.type = "recurring" \/ (Loaded /\ seen.budget.type = "recurring")
    /\ Edited([ui.form EXCEPT !.rule = rule])

TypeEnd == Edited([ui.form EXCEPT !.end = IF @ = None THEN "day" ELSE None])

ChooseCategory(c) == Edited([ui.form EXCEPT !.category = c])

-----------------------------------------------------------------------------
(***************************************************************************)
(* Submitting.                                                             *)
(***************************************************************************)
\* The fields of the form but its type.
PatchOf(form) == [amount |-> form.amount, rule |-> form.rule, category |-> form.category, end |-> form.end]

BodyOf(form) ==
    [type |-> form.type, amount |-> form.amount, category |-> form.category, end |-> form.end,
     rule |-> IF form.type = "recurring" THEN form.rule ELSE None]

CanSubmit == OnForm /\ ui.form.amount > 0 /\ ~Pending("create") /\ ~Pending("patch")

\* An edit submitted before the budget is there adds a new one.
SubmitNew ==
    CanSubmit /\ ~(ui.editing /\ Loaded) /\ Sends("create", BodyOf(ui.form))

SubmitEdit ==
    /\ CanSubmit /\ ui.editing /\ Loaded /\ seen.budget.type = "adhoc"
    /\ Sends("patch", [patch |-> PatchOf(ui.form), scope |-> "current_and_future"])

\* Mutant: a patch that was held back before is kept.
KeepsTheFirst(patch) == IF ui.patch = None THEN patch ELSE ui.patch

HeldBack(patch) == patch

SubmitRecurring ==
    /\ CanSubmit /\ ui.editing /\ Loaded /\ seen.budget.type = "recurring"
    /\ Locally([ui EXCEPT !.patch = HeldBack(PatchOf(ui.form)), !.asking = TRUE, !.behind = FALSE])

\* The choice outlasts the dialog.
AffectCurrent == ui.asking /\ Locally([ui EXCEPT !.current = ~@])

CancelScope == ui.asking /\ Locally([ui EXCEPT !.asking = FALSE])

ConfirmScope ==
    /\ ui.asking
    /\ Mutate("patch", [patch |-> ui.patch,
                        scope |-> IF ui.current THEN "current_and_future" ELSE "future_only"])
    /\ ui' = [ui EXCEPT !.asking = FALSE]
    /\ UNCHANGED <<page, db, seen, due, lost>>

\* The window gets the focus again, and the budget is fetched again.
Refocus ==
    /\ ui.editing /\ ~ui.done /\ due = {} /\ due' = {"budget"}
    /\ UNCHANGED <<page, db, seen, ui, call, lost>>

FormUser ==
    \/ TypeAmount \/ TypeEnd \/ SubmitNew \/ SubmitEdit \/ SubmitRecurring
    \/ AffectCurrent \/ CancelScope \/ ConfirmScope \/ Refocus
    \/ \E type \in {"adhoc", "recurring"} : ChooseType(type)
    \/ \E rule \in Rules : ChooseRule(rule)
    \/ \E c \in Categories \cup {None} : ChooseCategory(c)

-----------------------------------------------------------------------------
(***************************************************************************)
(* The server, and what comes back.                                        *)
(***************************************************************************)
Kept(value, old) == IF value = None THEN old ELSE value

Patched(row, p) ==
    [row EXCEPT !.amount = p.amount, !.rule = Kept(p.rule, @), !.category = p.category,
                !.end = Kept(p.end, @)]

\* From the next period on: the budget ends before it, and a copy takes over.
BudgetResult(k) ==
    LET b == call[k].body
    IN  IF call[k].hook = "create" THEN [db EXCEPT !.added = @ + 1]
        ELSE IF db.budget.type = "adhoc" \/ b.scope = "current_and_future"
        THEN [db EXCEPT !.budget = Patched(@, b.patch)]
        ELSE [db EXCEPT !.budget.end = "capped", !.budget.active = FALSE, !.added = @ + 1]

ServeBudget(k) == Running(k) /\ Serve(k, TRUE, BudgetResult(k))

\* The same budget is edited in another tab.
OtherTab ==
    /\ ui.editing /\ db.budget.amount # 3 /\ \A k \in Slots : call[k] = Idle
    /\ db' = [db EXCEPT !.budget.amount = 3]
    /\ UNCHANGED <<page, seen, due, ui, call, lost>>

AnswerBudget(k) ==
    Running(k) /\ Returns(k, IF ui.editing THEN {"budget"} ELSE {}, [ui EXCEPT !.done = TRUE])

\* behind is kept for the properties: the form has changed behind the dialog.
FetchBudget ==
    /\ due # {}
    /\ due' = {}
    /\ seen' = [budget |-> db.budget]
    /\ ui' = IF db.budget = seen.budget THEN ui
             ELSE [ui EXCEPT !.form = FormOf(db.budget), !.touched = FALSE, !.behind = ui.asking]
    /\ UNCHANGED <<page, db, call, lost>>

-----------------------------------------------------------------------------
BudgetFormInit ==
    /\ page = "budgetForm"
    /\ \E start \in StartBudgets :
          /\ db = [budget |-> start, added |-> 0]
          /\ due = IF start = None THEN {} ELSE {"budget"}
          /\ ui = [editing |-> start # None, form |-> BlankForm, touched |-> FALSE, changes |-> 0,
                   asking |-> FALSE, current |-> TRUE, patch |-> None, behind |-> FALSE, done |-> FALSE]
    /\ seen = [budget |-> NoData]
    /\ call = [k \in Slots |-> Idle]
    /\ lost = FALSE

BudgetFormNext ==
    \/ FormUser
    \/ \E k \in Slots : ServeBudget(k) \/ AnswerBudget(k) \/ Fails(k, ui)
    \/ OtherTab
    \/ FetchBudget

-----------------------------------------------------------------------------
(***************************************************************************)
(* Properties.                                                             *)
(***************************************************************************)
BudgetFormTypeOK ==
    /\ ui.form.rule \in Rules /\ ui.form.category \in Categories \cup {None}
    /\ ui.asking => ui.patch # None
    /\ CallRow({"create", "patch"})

\* What the scope dialog sends is the form as the user last submitted it, which is
\* the form still there behind it unless a fetch replaced that.
ConfirmedIsSubmitted ==
    [][page = "budgetForm" => \A k \in Slots :
          call[k] = Idle /\ call'[k] # Idle /\ call'[k].hook = "patch" /\ ~ui.behind =>
              call'[k].body.patch = PatchOf(ui.form)]_screenVars

\* However often the form is submitted, refused and submitted again, one visit adds
\* one budget, a copy for the coming periods included - unless an answer was lost.
OneBudgetPerVisit == ~lost => db.added <= 1

\* Until the user changes something, the form shows the budget as last fetched.
FormFollowsBudget == Loaded /\ ~ui.touched => ui.form = FormOf(seen.budget)
=============================================================================
