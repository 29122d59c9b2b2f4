----------------------------- MODULE BudgetList -----------------------------
(***************************************************************************)
(* The page of budgets (pages/Budgets.tsx): the list for the period of the *)
(* navigation bar, a dialog that adds one, a dialog that deletes one, and  *)
(* a drawer that shows one (components/drawers/BudgetDrawer.tsx).          *)
(***************************************************************************)
EXTENDS Screen

CONSTANTS StartBudgets,  \* the budgets there are when the page is opened
          NewBudget,     \* the id of one created during the visit
          Rules,         \* bound: the recurrence rules offered that are used
          Days,          \* bound: the custom intervals typed
          Changes        \* bound: how often the form is changed in a visit

BudgetIds == DOMAIN StartBudgets \cup {NewBudget}

\* A period that is over and the present one.
Periods == {"last", "this"}

Scopes == {"instance", "future_only", "current_and_future"}

DefaultScope == "current_and_future"

-----------------------------------------------------------------------------
(***************************************************************************)
(* The server.  A deleted budget is not in db.                             *)
(***************************************************************************)
\* GET /budgets: what was not active yet when the period ended is left out.
ListOf(rows, p) == Restrict(rows, {b \in DOMAIN rows : p = "this" \/ rows[b].since = "before"})

BudgetAccepted(k) == call[k].hook = "delete" => call[k].body.id \in DOMAIN db

\* Deleting this instance only leaves a row that nothing reads.
BudgetResult(k) ==
    LET b == call[k].body
    IN  CASE call[k].hook = "create" ->
                 [x \in DOMAIN db \cup {NewBudget} |->
                    IF x = NewBudget THEN [type |-> b.type, rule |-> b.rule, active |-> TRUE, since |-> "now"]
                    ELSE db[x]]
          [] db[b.id].type = "adhoc" \/ b.scope = "current_and_future" ->
                 [x \in DOMAIN db \ {b.id} |-> db[x]]
          [] b.scope = "future_only" -> [db EXCEPT ![b.id].active = FALSE]
          [] b.scope = "instance"    -> db

ServeBudget(k) == Running(k) /\ BudgetAccepted(k) /\ Serve(k, TRUE, BudgetResult(k))

-----------------------------------------------------------------------------
(***************************************************************************)
(* The list and what opens from it.                                        *)
(***************************************************************************)
BlankForm == [type |-> "adhoc", kind |-> "predefined", rule |-> "monthly", days |-> 14]

List == seen.list[ui.period]

Shown == IF List = NoData THEN {} ELSE DOMAIN List

OnPage == ~ui.creating /\ ui.target = None /\ ui.drawer = None

\* The picker of the navigation bar.
ChoosePeriod(p) ==
    /\ OnPage /\ p # ui.period
    /\ ui' = [ui EXCEPT !.period = p]
    /\ due' = due \cup {"list"}
    /\ UNCHANGED <<page, db, seen, call, lost>>

OpenBudget(b) ==
    /\ OnPage /\ b \in Shown
    /\ ui' = [ui EXCEPT !.drawer = b]
    /\ due' = due \cup {"item"}
    /\ UNCHANGED <<page, db, seen, call, lost>>

CloseBudget ==
    /\ ui.drawer # None
    /\ ui' = [ui EXCEPT !.drawer = None]
    /\ due' = due \ {"item"}
    /\ seen' = [seen EXCEPT !.item = NoData]
    /\ UNCHANGED <<page, db, call, lost>>

-----------------------------------------------------------------------------
(***************************************************************************)
(* Adding a budget.                                                        *)
(***************************************************************************)
ResetForm(state) == [state EXCEPT !.form = BlankForm]

OpenCreate == OnPage /\ Locally([ResetForm(ui) EXCEPT !.creating = TRUE])

\* Nothing keeps it open while the call is under way.
CloseCreate == ui.creating /\ Locally([ResetForm(ui) EXCEPT !.creating = FALSE])

Edited(form) ==
    /\ ui.creating /\ form # ui.form /\ ui.changes < Changes
    /\ Locally([ui EXCEPT !.form = form, !.changes = @ + 1])

ChooseType(type) == Edited([ui.form EXCEPT !.type = type])

ChooseSchedule(kind) == ui.form.type = "recurring" /\ Edited([ui.form EXCEPT !.kind = kind])

ChoosePredefined(rule) ==
    /\ ui.form.type = "recurring" /\ ui.form.kind = "predefined"
    /\ Edited([ui.form EXCEPT !.rule = rule])

TypeDays(n) ==
    /\ ui.form.type = "recurring" /\ ui.form.kind = "custom"
    /\ Edited([ui.form EXCEPT !.days = n])

\* A rule, a number of days, or None.
BuildRrule(form) ==
    IF form.type # "recurring" THEN None
    ELSE IF form.kind = "predefined" THEN form.rule
    ELSE IF form.days < 1 THEN None ELSE form.days

\* A recurring budget needs a rule.
HandleCreate ==
    /\ ui.creating /\ ~Pending("create") /\ NewBudget \notin DOMAIN db
    /\ ui.form.type = "recurring" => BuildRrule(ui.form) # None
    /\ Sends("create", [type |-> ui.form.type, rule |-> BuildRrule(ui.form), period |-> ui.period])

-----------------------------------------------------------------------------
(***************************************************************************)
(* Deleting one.                                                           *)
(***************************************************************************)
AskDelete(b) ==
    OnPage /\ b \in Shown /\ Locally([ui EXCEPT !.target = b])

\* An ad-hoc budget has no instances to choose from.
ChooseScope(scope) ==
    /\ ui.target \in Shown /\ List[ui.target].type = "recurring" /\ scope # ui.scope
    /\ Locally([ui EXCEPT !.scope = scope])

CancelDelete == ui.target # None /\ Locally([ui EXCEPT !.target = None, !.scope = DefaultScope])

\* The button is not disabled while the call is under way.
HandleDelete ==
    ui.target # None /\ Sends("delete", [id |-> ui.target, scope |-> ui.scope])

BudgetUser ==
    \/ CloseBudget \/ OpenCreate \/ CloseCreate \/ HandleCreate \/ CancelDelete \/ HandleDelete
    \/ \E p \in Periods : ChoosePeriod(p)
    \/ \E b \in Shown : OpenBudget(b) \/ AskDelete(b)
    \/ \E type \in {"adhoc", "recurring"} : ChooseType(type)
    \/ \E kind \in {"predefined", "custom"} : ChooseSchedule(kind)
    \/ \E rule \in Rules : ChoosePredefined(rule)
    \/ \E n \in Days : TypeDays(n)
    \/ \E scope \in Scopes : ChooseScope(scope)

-----------------------------------------------------------------------------
(***************************************************************************)
(* What comes back.  The code after an awaited call always runs: a dialog  *)
(* closes, whichever is open by then.                                      *)
(***************************************************************************)
HeardBudget(k) ==
    IF call[k].hook = "create" THEN [ResetForm(ui) EXCEPT !.creating = FALSE]
    ELSE [ui EXCEPT !.target = None, !.scope = DefaultScope]

FailedBudget(k) ==
    IF call[k].hook = "create" THEN ui ELSE [ui EXCEPT !.target = None, !.scope = DefaultScope]

InvalidatedByBudget(k) == {"list"} \cup IF ui.drawer = None THEN {} ELSE {"item"}

\* A created budget joins the list of the period it was created in, whether the
\* server lists it there or not.
WithCreated(k) ==
    IF call[k].hook # "create" THEN seen
    ELSE LET p   == call[k].body.period
             old == IF seen.list[p] = NoData THEN <<>> ELSE seen.list[p]
             row == [type |-> call[k].body.type, rule |-> call[k].body.rule, active |-> TRUE, since |-> "now"]
         IN  [seen EXCEPT !.list[p] = [b \in DOMAIN old \cup {NewBudget} |-> IF b = NewBudget THEN row ELSE old[b]]]

AnswerBudget(k) ==
    /\ Running(k) /\ call[k].state = "done"
    /\ due' = due \cup InvalidatedByBudget(k)
    /\ call' = Without(k)
    /\ seen' = WithCreated(k)
    /\ ui' = HeardBudget(k)
    /\ UNCHANGED <<page, db, lost>>

FetchList ==
    /\ "list" \in due
    /\ due' = due \ {"list"}
    /\ seen' = [seen EXCEPT !.list[ui.period] = ListOf(db, ui.period)]
    /\ UNCHANGED <<page, db, ui, call, lost>>

FetchItem ==
    /\ "item" \in due
    /\ due' = due \ {"item"}
    /\ seen' = [seen EXCEPT !.item = IF ui.drawer \in DOMAIN db THEN db[ui.drawer] ELSE @]
    /\ UNCHANGED <<page, db, ui, call, lost>>

-----------------------------------------------------------------------------
BudgetInit ==
    /\ page = "budgets"
    /\ db = StartBudgets
    /\ seen = [list |-> [p \in Periods |-> NoData], item |-> NoData]
    /\ due = {"list"}
    /\ ui = [period |-> "this", creating |-> FALSE, form |-> BlankForm,
             changes |-> 0, target |-> None, scope |-> DefaultScope, drawer |-> None]
    /\ call = [k \in Slots |-> Idle]
    /\ lost = FALSE

BudgetNext ==
    \/ BudgetUser
    \/ \E k \in Slots : ServeBudget(k) \/ AnswerBudget(k) \/ Fails(k, FailedBudget(k))
    \/ FetchList
    \/ FetchItem

-----------------------------------------------------------------------------
(***************************************************************************)
(* Properties.                                                             *)
(***************************************************************************)
BudgetsTypeOK ==
    /\ DOMAIN db \subseteq BudgetIds
    /\ ui.period \in Periods /\ ui.scope \in Scopes
    /\ ui.target \in BudgetIds \cup {None} /\ ui.drawer \in BudgetIds \cup {None}
    /\ CallRow({"create", "delete"})

\* Once all calls are answered and nothing is being fetched, the list is the
\* server's for the period, also after a created budget was put into it - unless an
\* answer was lost.
BudgetsCurrent ==
    ~lost /\ due = {} /\ (\A k \in Slots : ~Running(k)) => List = ListOf(db, ui.period)
=============================================================================
