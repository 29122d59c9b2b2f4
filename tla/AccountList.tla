---------------------------- MODULE AccountList -----------------------------
(***************************************************************************)
(* The page of accounts (pages/Accounts.tsx): the list, the dialogs that   *)
(* add, edit and delete an account, the panel of one account's payment     *)
(* methods, and the drawer that shows one account                          *)
(* (components/drawers/AccountDrawer.tsx).                                 *)
(*                                                                         *)
(* Two forms add rows.  The user's drafts are counted (draft), and a row   *)
(* remembers the draft it was made from.  Of a payment method only that is *)
(* kept, and its account: kind and app are only shown.                     *)
(***************************************************************************)
EXTENDS Screen

CONSTANTS StartAccounts,  \* the accounts there are when the page is opened
          StartMethods,   \* and their payment methods
          Busy,           \* the accounts that live transactions refer to; those created
                          \* begin with an opening balance of 0, so with none
          Names,          \* bound: the names typed
          NewIds,         \* the ids of the rows created
          Opens           \* bound: how often the user opens something

AccountIds == DOMAIN StartAccounts \cup NewIds
MethodIds == DOMAIN StartMethods \cup NewIds

AccountTypes == {"bank", "credit_card"}

-----------------------------------------------------------------------------
(***************************************************************************)
(* The server: the accounts and payment methods that are not deleted.  An  *)
(* id is given out once: gone are those of the rows deleted.               *)
(***************************************************************************)
MethodsOf(a) == Restrict(db.method, {m \in DOMAIN db.method : db.method[m].account = a})

Unused == NewIds \ (DOMAIN db.account \cup DOMAIN db.method \cup db.gone)

AccountAccepted(k) ==
    LET b == call[k].body
    IN  CASE call[k].hook = "create" -> TRUE
          [] call[k].hook \in {"edit", "toggle"} -> b.id \in DOMAIN db.account
          [] call[k].hook = "delete" -> b.id \in DOMAIN db.account \ Busy
          [] call[k].hook = "addMethod" -> b.account \in DOMAIN db.account
          [] call[k].hook = "deleteMethod" ->
                 b.account \in DOMAIN db.account /\ b.id \in DOMAIN MethodsOf(b.account)

With(rows, id, row) == [x \in DOMAIN rows \cup {id} |-> IF x = id THEN row ELSE rows[x]]

Less(rows, id) == Restrict(rows, DOMAIN rows \ {id})

AccountResult(k) ==
    LET b == call[k].body
        new == CHOOSE id \in Unused : TRUE
    IN  CASE call[k].hook = "create" ->
                 [db EXCEPT !.account = With(@, new, [name |-> b.name, type |-> b.type,
                                                     active |-> TRUE, draft |-> b.draft])]
          [] call[k].hook = "edit" ->
                 [db EXCEPT !.account[b.id].name = b.name, !.account[b.id].active = b.active]
          [] call[k].hook = "toggle" -> [db EXCEPT !.account[b.id].active = b.active]
          [] call[k].hook = "delete" -> [db EXCEPT !.account = Less(@, b.id), !.gone = @ \cup {b.id}]
          [] call[k].hook = "addMethod" ->
                 [db EXCEPT !.method = With(@, new, [account |-> b.account, draft |-> b.draft])]
          [] call[k].hook = "deleteMethod" ->
                 [db EXCEPT !.method = Less(@, b.id), !.gone = @ \cup {b.id}]

\* Bound: rows are created as long as there are ids for them.
ServeAccount(k) ==
    /\ Running(k) /\ AccountAccepted(k)
    /\ call[k].hook \in {"create", "addMethod"} => Unused # {}
    /\ Serve(k, TRUE, AccountResult(k))

-----------------------------------------------------------------------------
(***************************************************************************)
(* The list, and what opens from it.                                       *)
(***************************************************************************)
BlankForm == [name |-> None, type |-> "bank"]

\* A panel that has just been mounted.
NewPanel == [adding |-> FALSE, name |-> None, target |-> None]

Shown == IF seen.list = NoData THEN {} ELSE DOMAIN seen.list

InPanel == ui.expanded \in Shown

Methods == IF seen.methods[ui.expanded] = NoData THEN {} ELSE DOMAIN seen.methods[ui.expanded]

OnPage ==
    /\ ~ui.creating /\ ui.edit = None /\ ui.target = None /\ ui.drawer = None
    /\ ~ui.panel.adding /\ ui.panel.target = None

MethodsDue(a) == IF seen.list[a].type = "credit_card" THEN {} ELSE {a}

\* One of the things that open from the page.
Opened(new) ==
    /\ OnPage /\ ui.opens < Opens
    /\ ui' = [new EXCEPT !.opens = @ + 1]
    /\ UNCHANGED <<page, db, seen, lost>>

Opening(new) == Opened(new) /\ UNCHANGED <<due, call>>

\* Showing the methods of another account mounts another panel: what the one before
\* had under way changes the server and no screen.
PanelHooks == {"addMethod", "deleteMethod"}

Unmounted ==
    [k \in Slots |-> IF Running(k) /\ call[k].hook \in PanelHooks
                     THEN [call[k] EXCEPT !.heard = FALSE, !.body.here = FALSE] ELSE call[k]]

Expand(a) ==
    /\ a \in Shown /\ MethodsDue(a) # {}
    /\ Opened([ui EXCEPT !.expanded = IF @ = a THEN None ELSE a, !.panel = NewPanel,
                         !.draft = @ + 1])
    /\ due' = IF ui.expanded = a THEN due ELSE due \cup {a}
    /\ call' = Unmounted

\* The drawer keeps the row it was opened with, whatever becomes of the account.
OpenDrawer(a) ==
    /\ a \in Shown
    /\ Opened([ui EXCEPT !.drawer = [id |-> a, active |-> seen.list[a].active]])
    /\ due' = due \cup MethodsDue(a)
    /\ UNCHANGED call

CloseDrawer == ui.drawer # None /\ Locally([ui EXCEPT !.drawer = None])

ToggleActive ==
    /\ ui.drawer # None /\ ~Pending("toggle")
    /\ Sends("toggle", [id |-> ui.drawer.id, active |-> ~ui.drawer.active])

-----------------------------------------------------------------------------
(***************************************************************************)
(* The dialogs of the page.  Closing the first keeps what was typed.       *)
(***************************************************************************)
OpenCreate == Opening([ui EXCEPT !.creating = TRUE])

CloseCreate == ui.creating /\ Locally([ui EXCEPT !.creating = FALSE])

TypeAccount(form) ==
    ui.creating /\ form # ui.form /\ Locally([ui EXCEPT !.form = form])

HandleCreate ==
    /\ ui.creating /\ ui.form.name # None /\ ~Pending("create")
    /\ Sends("create", [name |-> ui.form.name, type |-> ui.form.type, draft |-> ui.draft])

OpenEdit(a) ==
    /\ a \in Shown
    /\ Opening([ui EXCEPT !.edit = [id |-> a, name |-> seen.list[a].name,
                                    active |-> seen.list[a].active]])

CloseEdit == ui.edit # None /\ Locally([ui EXCEPT !.edit = None])

TypeEdit(name, active) ==
    /\ ui.edit # None /\ <<name, active>> # <<ui.edit.name, ui.edit.active>>
    /\ Locally([ui EXCEPT !.edit.name = name, !.edit.active = active])

\* Both fields are sent, changed or not.
HandleEdit == ui.edit # None /\ ~Pending("edit") /\ Sends("edit", ui.edit)

AskDelete(a) == a \in Shown /\ Opening([ui EXCEPT !.target = a])

CancelDelete == ui.target # None /\ Locally([ui EXCEPT !.target = None])

\* The button is not disabled while the call is under way.
ConfirmDelete == ui.target # None /\ Sends("delete", [id |-> ui.target])

-----------------------------------------------------------------------------
(***************************************************************************)
(* The panel of payment methods.                                           *)
(***************************************************************************)
OpenAddMethod == InPanel /\ Opening([ui EXCEPT !.panel.adding = TRUE])

CloseAddMethod == ui.panel.adding /\ Locally([ui EXCEPT !.panel.adding = FALSE])

TypeMethod(name) ==
    ui.panel.adding /\ name # ui.panel.name /\ Locally([ui EXCEPT !.panel.name = name])

HandleAddMethod ==
    /\ InPanel /\ ui.panel.adding /\ ui.panel.name # None
    /\ ~Pending("addMethod")
    /\ Sends("addMethod",
             [account |-> ui.expanded, here |-> TRUE, draft |-> ui.draft])

AskDeleteMethod(m) ==
    InPanel /\ m \in Methods /\ Opening([ui EXCEPT !.panel.target = m])

CancelDeleteMethod ==
    ui.panel.target # None /\ Locally([ui EXCEPT !.panel.target = None])

ConfirmDeleteMethod ==
    /\ InPanel /\ ui.panel.target # None
    /\ Sends("deleteMethod", [account |-> ui.expanded, id |-> ui.panel.target, here |-> TRUE])

DialogUser ==
    \/ OpenCreate \/ CloseCreate \/ HandleCreate \/ CloseEdit \/ HandleEdit
    \/ CancelDelete \/ ConfirmDelete \/ CloseDrawer \/ ToggleActive
    \/ \E n \in Names, type \in AccountTypes : TypeAccount([name |-> n, type |-> type])
    \/ \E n \in Names, active \in BOOLEAN : TypeEdit(n, active)
    \/ \E a \in Shown : Expand(a) \/ OpenDrawer(a) \/ OpenEdit(a) \/ AskDelete(a)

PanelUser ==
    \/ OpenAddMethod \/ CloseAddMethod \/ HandleAddMethod \/ CancelDeleteMethod
    \/ ConfirmDeleteMethod
    \/ \E n \in Names : TypeMethod(n)
    \/ InPanel /\ \E m \in Methods : AskDeleteMethod(m)

-----------------------------------------------------------------------------
(***************************************************************************)
(* What comes back.  The code after an awaited call always runs: a dialog  *)
(* closes, whichever is open by then.                                      *)
(***************************************************************************)
HeardAccount(k) ==
    CASE call[k].hook = "create" ->
             [ui EXCEPT !.form = BlankForm, !.creating = FALSE, !.draft = @ + 1]
      [] call[k].hook = "edit" -> [ui EXCEPT !.edit = None]
      [] call[k].hook = "delete" -> [ui EXCEPT !.target = None]
      [] call[k].hook = "toggle" -> ui
      [] call[k].hook = "addMethod" ->
             IF call[k].body.here
             THEN [ui EXCEPT !.panel.name = None, !.panel.adding = FALSE, !.draft = @ + 1] ELSE ui
      [] call[k].hook = "deleteMethod" ->
             IF call[k].body.here THEN [ui EXCEPT !.panel.target = None] ELSE ui

\* A form that failed stays open; a confirmation does not.
FailedAccount(k) ==
    IF call[k].hook \in {"delete", "deleteMethod"} THEN HeardAccount(k) ELSE ui

InUse(a) ==
    \/ ui.expanded = a /\ InPanel
    \/ ui.drawer # None /\ ui.drawer.id = a

\* Every hook here waits until the lists in use are fetched again.
InvalidatedByAccount(k) ==
    IF call[k].hook \notin PanelHooks THEN {"list"}
    ELSE IF InUse(call[k].body.account) THEN {call[k].body.account} ELSE {}

SettleAccount(k) == Running(k) /\ Settles(k, InvalidatedByAccount(k))

AnswerAccount(k) == Running(k) /\ Over(k, HeardAccount(k))

\* An account that left the list takes its panel along.
FetchList ==
    /\ "list" \in due
    /\ due' = due \ {"list"}
    /\ seen' = [seen EXCEPT !.list = db.account]
    /\ LET gone == ui.expanded # None /\ ui.expanded \notin DOMAIN db.account
       IN  /\ ui' = IF gone THEN [ui EXCEPT !.expanded = None, !.panel = NewPanel] ELSE ui
           /\ call' = IF gone THEN Unmounted ELSE call
    /\ UNCHANGED <<page, db, lost>>

\* The methods of a deleted account are not answered.
FetchMethods(a) ==
    /\ a \in due
    /\ due' = due \ {a}
    /\ seen' = IF a \in DOMAIN db.account THEN [seen EXCEPT !.methods[a] = MethodsOf(a)] ELSE seen
    /\ UNCHANGED <<page, db, ui, call, lost>>

-----------------------------------------------------------------------------
AccountInit ==
    /\ page = "accounts"
    /\ db = [account |-> StartAccounts, method |-> StartMethods, gone |-> {}]
    /\ seen = [list |-> NoData, methods |-> [a \in AccountIds |-> NoData]]
    /\ due = {"list"}
    /\ ui = [creating |-> FALSE, form |-> BlankForm, edit |-> None, target |-> None,
             expanded |-> None, panel |-> NewPanel, drawer |-> None, draft |-> 0,
             opens |-> 0]
    /\ call = [k \in Slots |-> Idle]
    /\ lost = FALSE

AccountNext ==
    \/ DialogUser \/ PanelUser \/ FetchList
    \/ \E k \in Slots : \/ ServeAccount(k) \/ SettleAccount(k) \/ AnswerAccount(k)
                        \/ Running(k) /\ Fails(k, FailedAccount(k))
    \/ \E a \in AccountIds : FetchMethods(a)

-----------------------------------------------------------------------------
(***************************************************************************)
(* Properties.                                                             *)
(***************************************************************************)
AccountsTypeOK ==
    /\ DOMAIN db.account \subseteq AccountIds /\ DOMAIN db.method \subseteq MethodIds
    /\ \A a \in DOMAIN db.account : db.account[a].type \in AccountTypes
    /\ ui.expanded \in AccountIds \cup {None} /\ ui.target \in AccountIds \cup {None}
    /\ due \subseteq AccountIds \cup {"list"}
    /\ CallRow({"create", "edit", "toggle", "delete"} \cup PanelHooks)

\* Once all calls are answered and nothing is being fetched, the list of accounts and
\* the panel's list of methods are the server's - unless an answer was lost.
AccountsCurrent ==
    ~lost /\ due = {} /\ (\A k \in Slots : ~Running(k)) =>
        /\ seen.list = db.account
        /\ InPanel => seen.methods[ui.expanded] = MethodsOf(ui.expanded)

\* What was typed once makes one row, however often it is submitted, closed, opened
\* again and submitted again - unless an answer was lost.
OneRowPerDraft ==
    ~lost =>
        /\ \A a, b \in DOMAIN db.account \cap NewIds :
              db.account[a].draft = db.account[b].draft => a = b
        /\ \A m, n \in DOMAIN db.method \cap NewIds :
              db.method[m].draft = db.method[n].draft => m = n
=============================================================================
