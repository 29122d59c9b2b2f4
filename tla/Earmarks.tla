------------------------------ MODULE Earmarks ------------------------------
(***************************************************************************)
(* The page of earmarks, cash set aside for a purpose                      *)
(* (pages/Earmarks.tsx), and the drawer that adds or edits one             *)
(* (components/earmarks/EarmarkDrawer.tsx).                                *)
(*                                                                         *)
(* The drawer stays mounted: it goes on watching the earmark last opened,  *)
(* and its form starts over whenever the drawer opens or closes or that    *)
(* earmark is found changed.  note stands for the fields that only pass    *)
(* through.                                                                *)
(***************************************************************************)
EXTENDS Screen

CONSTANTS StartEarmarks,  \* the earmarks there are when the page is opened
          NewEarmark,     \* the id of one created during the visit
          Cash,           \* the balance of the bank and cash accounts
          Typed,          \* bound: the amounts the user types
          Changes         \* bound: how often the user types in a visit

EarmarkIds == DOMAIN StartEarmarks \cup {NewEarmark}

-----------------------------------------------------------------------------
(***************************************************************************)
(* The server.  A deleted earmark is not in db.                            *)
(***************************************************************************)
ActiveIn(rows) == {e \in DOMAIN rows : rows[e].active}

Earmarked(rows) == MapThenSumSet(LAMBDA e : rows[e].amount, ActiveIn(rows))

\* The cash is checked when an earmark is created.  The same check fails with an
\* error of its own, whatever the amounts, when an active one is edited or a
\* paused one is activated: nothing is changed then.
EarmarkAccepted(k) ==
    LET h == call[k].hook
        b == call[k].body
    IN  CASE h = "create" -> Earmarked(db) + b.form.amount <= Cash
          [] h = "patch"  -> b.id \in DOMAIN db \ ActiveIn(db)
          [] h = "toggle" -> b.id \in ActiveIn(db)
          [] OTHER        -> b.id \in DOMAIN db

EarmarkResult(k) ==
    LET h == call[k].hook
        b == call[k].body
    IN  CASE h = "create" -> [e \in DOMAIN db \cup {NewEarmark} |->
                                 IF e = NewEarmark THEN [amount |-> b.form.amount, note |-> b.form.note, active |-> TRUE]
                                 ELSE db[e]]
          [] h = "patch"  -> [db EXCEPT ![b.id].amount = b.form.amount, ![b.id].note = b.form.note]
          [] h = "toggle" -> [db EXCEPT ![b.id].active = ~@]
          [] OTHER        -> [e \in DOMAIN db \ {b.id} |-> db[e]]

ServeEarmark(k) == Running(k) /\ Serve(k, EarmarkAccepted(k), EarmarkResult(k))

-----------------------------------------------------------------------------
(***************************************************************************)
(* The page.                                                               *)
(***************************************************************************)
BlankForm == [amount |-> 0, note |-> None]

FormOf(row) == [amount |-> row.amount, note |-> row.note]

\* What the form is after its effect ran for the earmark id: blank for a new one,
\* what is known of the earmark, and what it was while nothing is.
Synced(id, item) ==
    IF id = None THEN BlankForm ELSE IF item[id] = NoData THEN ui.form ELSE FormOf(item[id])

Shown == IF seen.list = NoData THEN {} ELSE DOMAIN seen.list

OnPage == seen.list # NoData /\ ~ui.open /\ ui.target = None

\* Another earmark is another query; the same one is not asked for again.
OpenDrawer(id) ==
    /\ OnPage /\ ui.changes < Changes
    /\ ui' = [ui EXCEPT !.open = TRUE, !.id = id, !.form = Synced(id, seen.item), !.touched = FALSE,
                        !.changes = @ + 1]
    /\ due' = IF id = ui.id THEN due ELSE (due \ {"item"}) \cup IF id = None THEN {} ELSE {"item"}
    /\ UNCHANGED <<page, db, seen, call, lost>>

HandleCreate == OpenDrawer(None)

HandleEdit(e) == e \in Shown /\ OpenDrawer(e)

\* The button stays enabled while the call is under way.
HandleToggle(e) == OnPage /\ e \in Shown /\ Sends("toggle", [id |-> e])

AskDelete(e) == OnPage /\ e \in Shown /\ Locally([ui EXCEPT !.target = e])

ConfirmDelete == ui.target # None /\ Sends("deleteHere", [id |-> ui.target])

CancelDelete == ui.target # None /\ Locally([ui EXCEPT !.target = None])

-----------------------------------------------------------------------------
(***************************************************************************)
(* The drawer.                                                             *)
(***************************************************************************)
Known == ui.id # None /\ seen.item[ui.id] # NoData

\* Only while the earmark is being fetched: once that has failed, the form is there.
Loading == ui.id # None /\ ~Known /\ "item" \in due

InDialog == ui.confirm /\ Known

InForm == ui.open /\ ~Loading /\ ~InDialog

Closed(state) == [state EXCEPT !.open = FALSE, !.form = Synced(ui.id, seen.item), !.touched = FALSE]

CloseDrawer == ui.open /\ ~InDialog /\ Locally(Closed(ui))

\* touched is kept for the properties: the user has typed since the form last
\* started over.
Edited(form) ==
    /\ InForm /\ form # ui.form /\ ui.changes < Changes
    /\ Locally([ui EXCEPT !.form = form, !.touched = TRUE, !.changes = @ + 1])

TypeAmount(a) == Edited([ui.form EXCEPT !.amount = a])

TypeNote == Edited([ui.form EXCEPT !.note = "new"])

HandleSubmit ==
    /\ InForm /\ ui.form.amount > 0
    /\ ~Pending("create") /\ ~Pending("patch")
    /\ IF ui.id = None THEN NewEarmark \notin DOMAIN db ELSE TRUE
    /\ Sends(IF ui.id = None THEN "create" ELSE "patch", [id |-> ui.id, form |-> ui.form])

\* Of the drawer's own hook.
ToggleInDrawer == InForm /\ Known /\ Sends("toggle", [id |-> ui.id])

AskDeleteInDrawer == InForm /\ Known /\ Locally([ui EXCEPT !.confirm = TRUE])

InConfirm == ui.open /\ InDialog

ConfirmInDrawer == InConfirm /\ Sends("delete", [id |-> ui.id])

CancelInDrawer == InConfirm /\ Locally([ui EXCEPT !.confirm = FALSE])

EarmarkUser ==
    \/ HandleCreate \/ ConfirmDelete \/ CancelDelete \/ CloseDrawer \/ TypeNote \/ HandleSubmit
    \/ ToggleInDrawer \/ AskDeleteInDrawer \/ ConfirmInDrawer \/ CancelInDrawer
    \/ \E e \in Shown : HandleEdit(e) \/ HandleToggle(e) \/ AskDelete(e)
    \/ \E a \in Typed : TypeAmount(a)

-----------------------------------------------------------------------------
(***************************************************************************)
(* What comes back.                                                        *)
(***************************************************************************)
\* The drawer or the dialog closes, whichever earmark it is open for by then.
HeardEarmark(k) ==
    LET h == call[k].hook
    IN  CASE ~call[k].heard         -> ui
          [] h = "toggle"           -> ui
          [] h = "deleteHere"       -> [ui EXCEPT !.target = None]
          [] h = "delete"           -> Closed([ui EXCEPT !.confirm = FALSE])
          [] h \in {"create", "patch"} -> Closed(ui)

InvalidatedByEarmark == {"list"} \cup IF ui.id = None THEN {} ELSE {"item"}

AnswerEarmark(k) == Running(k) /\ Returns(k, InvalidatedByEarmark, HeardEarmark(k))

FetchList ==
    /\ "list" \in due
    /\ due' = due \ {"list"}
    /\ seen' = [seen EXCEPT !.list = db]
    /\ UNCHANGED <<page, db, ui, call, lost>>

\* One that was deleted is not found, and what was known of it stays.
FetchItem ==
    /\ "item" \in due
    /\ due' = due \ {"item"}
    /\ LET item == IF ui.id \in DOMAIN db THEN [seen.item EXCEPT ![ui.id] = db[ui.id]] ELSE seen.item
       IN  /\ seen' = [seen EXCEPT !.item = item]
           /\ ui' = IF item = seen.item THEN ui
                    ELSE [ui EXCEPT !.form = Synced(ui.id, item), !.touched = FALSE]
    /\ UNCHANGED <<page, db, call, lost>>

\* The fetch and its retries fail: a form that was waiting is shown as it was, and what it
\* is saved with goes to the earmark the drawer is open for.
FetchItemFails ==
    /\ "item" \in due
    /\ due' = due \ {"item"}
    /\ UNCHANGED <<page, db, seen, ui, call, lost>>

-----------------------------------------------------------------------------
EarmarkInit ==
    /\ page = "earmarks"
    /\ db = StartEarmarks
    /\ seen = [list |-> NoData, item |-> [e \in EarmarkIds |-> NoData]]
    /\ due = {"list"}
    /\ ui = [open |-> FALSE, id |-> None, form |-> BlankForm, touched |-> FALSE,
             target |-> None, confirm |-> FALSE, changes |-> 0]
    /\ call = [k \in Slots |-> Idle]
    /\ lost = FALSE

EarmarkNext ==
    \/ EarmarkUser
    \/ \E k \in Slots : ServeEarmark(k) \/ AnswerEarmark(k) \/ Fails(k, ui)
    \/ FetchList
    \/ FetchItem
    \/ FetchItemFails

-----------------------------------------------------------------------------
(***************************************************************************)
(* Properties.                                                             *)
(***************************************************************************)
EarmarksTypeOK ==
    /\ DOMAIN db \subseteq EarmarkIds
    /\ ui.id \in EarmarkIds \cup {None} /\ ui.target \in EarmarkIds \cup {None}
    /\ ui.form.amount \in Nat
    /\ CallRow({"create", "patch", "toggle", "delete", "deleteHere"})

\* Once all calls are answered and nothing is being fetched, the list is the
\* server's - unless an answer was lost.
EarmarksCurrent ==
    ~lost /\ due = {} /\ (\A k \in Slots : ~Running(k)) => seen.list = db

\* A form nobody has typed in is blank for a new earmark, and holds the earmark the drawer
\* is open for if that could be fetched, whatever it was open for before.  If it could not,
\* the form is the one of the earmark before, and nothing keeps the user from saving that.
FormIsTheEarmark ==
    ui.open /\ ~ui.touched /\ (ui.id = None \/ Known) =>
        ui.form = IF ui.id = None THEN BlankForm ELSE FormOf(seen.item[ui.id])
=============================================================================
