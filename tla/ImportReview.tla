---------------------------- MODULE ImportReview ----------------------------
(***************************************************************************)
(* The page that reviews an imported statement (pages/ImportReview.tsx,    *)
(* api/imports.ts): tabs of records by status, a selection, bulk confirm   *)
(* and reject, editing a record in its row, and the dialog that resolves a *)
(* duplicate.                                                              *)
(*                                                                         *)
(* db is the batch and its records; of a record's parsed_json only the     *)
(* type and the destination account matter here.  A row's drafts live as   *)
(* long as the row is on the screen, and are not refreshed with the record.*)
(* seen.early is a history field: the queries last answered while the      *)
(* statement was being parsed, when there were no records yet.             *)
(***************************************************************************)
EXTENDS Screen

CONSTANTS Records,     \* ids of the statement's records
          Bills,       \* those that match a credit on the card
          Bank, Card,  \* the user's accounts
          UploadedFor, \* bound: the accounts the statement may be uploaded for, or None
          Visited,     \* bound: the tabs the user goes to
          Chosen,      \* bound: the accounts the user chooses for the statement
          Tried        \* bound: the destinations the user chooses for a transfer

Accounts == {Bank, Card}
Tabs == {"pending", "confirmed", "rejected", "duplicate", "failed"}
ImportQueries == Tabs \cup {"batch", "hints"}
Draft == [mode : {"view", "edit", "name"}, type : {"expense", "transfer"},
          dest : Accounts \cup {None}]
Row == [status : Tabs, type : {"expense", "transfer"}, dest : Accounts \cup {None}]

-----------------------------------------------------------------------------
(***************************************************************************)
(* What the screen shows.                                                  *)
(***************************************************************************)
Processing == seen.batch # NoData /\ seen.batch.status = "processing"

BatchAccount == IF seen.batch = NoData THEN None ELSE seen.batch.account

\* The list of the tab shown (what another tab showed before is not kept).
Listed == IF seen.list = NoData THEN <<>> ELSE seen.list

Shown == DOMAIN Listed

\* useTransferSuggestions is enabled on the pending tab, once parsing is done.
QueriesOn(tab) ==
    {"batch", tab} \cup (IF tab = "pending" /\ ~Processing THEN {"hints"} ELSE {})

QueriesUsed == QueriesOn(ui.tab)

Hinted == IF seen.hints = NoData THEN {} ELSE seen.hints

NewDraft(row) == [mode |-> "view", type |-> row.type, dest |-> row.dest]

\* A row keeps its state while it stays in the table; a new one starts afresh.
RowsFor(list) ==
    [r \in DOMAIN list |-> IF r \in DOMAIN ui.row THEN ui.row[r] ELSE NewDraft(list[r])]

\* A row has a mutation of its own, named by its record, that goes with the row.
ModalHooks == {"keep", "separate", "replace"}
ImportHooks == Records \cup ModalHooks \cup {"confirm", "reject", "account"}

Leaving(list) == Unheard([h \in ImportHooks |-> h \in Records \ DOMAIN list])

\* The destinations a transfer may have: not the account of the statement.
Destinations == Accounts \ {BatchAccount}

\* The input of a row's name has the focus until what it holds is being saved.
Naming(r) == ui.row[r].mode = "name" /\ ~Pending(r)

\* No dialog covers the page, and clicking does not first leave an input.
PageFree ==
    /\ ui.resolve = None /\ ~ui.rejecting /\ seen.batch # NoData
    /\ \A r \in Shown : ~Naming(r)

BulkTab == ui.tab \in {"pending", "duplicate"}

-----------------------------------------------------------------------------
(***************************************************************************)
(* Tabs and selection.                                                     *)
(***************************************************************************)
SelectTab(t) ==
    /\ PageFree /\ t \in Visited \ {ui.tab}
    /\ ui' = [ui EXCEPT !.tab = t, !.selected = {}, !.row = <<>>]
    /\ seen' = [seen EXCEPT !.list = NoData, !.early = {}]
    /\ call' = Leaving(<<>>)
    /\ due' = (due \cap {"batch"}) \cup (QueriesOn(t) \ {"batch"})
    /\ UNCHANGED <<page, db, lost>>

\* Other rows have no checkbox.
Selectable(r) == r \in Shown /\ Listed[r].status \in {"pending", "duplicate"}

ToggleSelect(r) ==
    /\ PageFree /\ Selectable(r)
    /\ Locally([ui EXCEPT !.selected = IF r \in @ THEN @ \ {r} ELSE @ \cup {r}])

\* The bulk buttons are on the screen.
BulkOffered == PageFree /\ BulkTab /\ Shown # {}

ToggleAll ==
    /\ BulkOffered
    /\ Locally([ui EXCEPT !.selected =
          IF Cardinality(@) = Cardinality(Shown) THEN {} ELSE Shown])

\* The record_ids of a bulk action: with nothing selected, all there are.
SelectedIds == IF ui.selected = {} THEN None ELSE ui.selected

ConfirmSelected(force) ==
    /\ BulkOffered
    /\ force => ui.tab = "duplicate"
    /\ ~Pending("confirm") /\ BatchAccount # None
    /\ Sends("confirm", [ids |-> SelectedIds, force |-> force])

OpenReject ==
    /\ BulkOffered
    /\ ~Pending("reject")
    /\ Locally([ui EXCEPT !.rejecting = TRUE])

CancelReject == ui.rejecting /\ Locally([ui EXCEPT !.rejecting = FALSE])

\* The dialog's button is not disabled while the call is under way.
RejectSelected == ui.rejecting /\ Sends("reject", [ids |-> SelectedIds])

SelectAccount(a) ==
    /\ PageFree /\ ~Pending("account") /\ a \in Chosen \ {BatchAccount}
    /\ Sends("account", [account |-> a])

-----------------------------------------------------------------------------
(***************************************************************************)
(* A row: editing it, renaming it, accepting a suggestion.                 *)
(***************************************************************************)
Editable(r) == PageFree /\ r \in Shown /\ Listed[r].status \in {"pending", "duplicate", "failed"}

SetRow(r, new) == Locally([ui EXCEPT !.row[r] = new])

\* A duplicate offers Resolve in the place of Edit.
StartEdit(r) ==
    /\ Editable(r) /\ ui.row[r].mode = "view" /\ Listed[r].status # "duplicate"
    /\ SetRow(r, [ui.row[r] EXCEPT !.mode = "edit"])

CancelEdit(r) ==
    /\ Editable(r) /\ ui.row[r].mode = "edit"
    /\ SetRow(r, [ui.row[r] EXCEPT !.mode = "view"])

TypeDraft(r, type, dest) ==
    /\ Editable(r) /\ ui.row[r].mode = "edit"
    /\ \/ type # ui.row[r].type /\ dest = ui.row[r].dest
       \/ type = ui.row[r].type /\ type = "transfer" /\ dest \in (Destinations \cap Tried) \cup {None}
    /\ SetRow(r, [ui.row[r] EXCEPT !.type = type, !.dest = dest])

\* Mutant: whatever was the destination stays in parsed_json.
StaleDestination(r) ==
    [record |-> r, from |-> "edit", type |-> ui.row[r].type,
     dest   |-> IF ui.row[r].type = "transfer" THEN ui.row[r].dest ELSE Listed[r].dest,
     status |-> IF Listed[r].status = "failed" THEN "pending" ELSE None]

\* The parsed_json sent drops a destination unless the record is a transfer.
EditPatch(r) ==
    LET draft == ui.row[r]
    IN  [record |-> r, from |-> "edit", type |-> draft.type,
         dest   |-> IF draft.type = "transfer" THEN draft.dest ELSE None,
         status |-> IF Listed[r].status = "failed" THEN "pending" ELSE None]

SaveEdit(r) ==
    /\ Editable(r) /\ ui.row[r].mode = "edit" /\ ~Pending(r)
    /\ ui.row[r].type = "transfer" => ui.row[r].dest # None
    /\ Sends(r, EditPatch(r))

\* A row says that it may be the payment of a bill.
Suggested(r) ==
    /\ Editable(r) /\ ui.row[r].mode # "edit" /\ ~Pending(r)
    /\ r \in Hinted /\ Listed[r].type = "expense"

ApplySuggestion(r) ==
    /\ Suggested(r)
    /\ Sends(r, [record |-> r, from |-> "view", type |-> "transfer",
                 dest |-> Card, status |-> None])

StartNameEdit(r) ==
    /\ Editable(r) /\ ui.row[r].mode = "view"
    /\ SetRow(r, [ui.row[r] EXCEPT !.mode = "name"])

\* On Enter or on leaving the input, a new name goes out with the rest of the
\* record as the list shows it; with no new name, or on Escape, it just closes.
SaveNameEdit(r) ==
    /\ r \in Shown /\ Naming(r)
    /\ \/ SetRow(r, [ui.row[r] EXCEPT !.mode = "view"])
       \/ Sends(r, [record |-> r, from |-> "name", type |-> Listed[r].type,
                    dest |-> Listed[r].dest, status |-> None])

RowSteps(r) ==
    \/ StartEdit(r) \/ CancelEdit(r) \/ SaveEdit(r) \/ ApplySuggestion(r)
    \/ StartNameEdit(r) \/ SaveNameEdit(r)
    \/ \E type \in {"expense", "transfer"}, dest \in Accounts \cup {None} :
          TypeDraft(r, type, dest)

-----------------------------------------------------------------------------
(***************************************************************************)
(* The dialog that resolves a duplicate.                                   *)
(***************************************************************************)
ModalBusy == \E h \in ModalHooks : Pending(h)

OpenResolve(r) ==
    /\ PageFree /\ r \in Shown
    /\ Listed[r].status = "duplicate" /\ ui.row[r].mode # "edit"
    /\ Locally([ui EXCEPT !.resolve = r])

\* Closing it does not stop what it sent, but nobody hears the answer.
CloseResolve ==
    /\ ui.resolve # None /\ ~ui.replacing
    /\ ui' = [ui EXCEPT !.resolve = None]
    /\ call' = Unheard([h \in ImportHooks |-> h \in ModalHooks])
    /\ UNCHANGED <<page, db, seen, due, lost>>

KeepExisting ==
    /\ ui.resolve # None /\ ~ui.replacing /\ ~ModalBusy
    /\ Sends("keep", [record |-> ui.resolve, status |-> "rejected"])

ImportSeparate ==
    /\ ui.resolve # None /\ ~ui.replacing /\ ~ModalBusy /\ BatchAccount # None
    /\ Sends("separate", [ids |-> {ui.resolve}, force |-> TRUE])

OpenReplace ==
    /\ ui.resolve # None /\ ~ui.replacing /\ ~ModalBusy /\ BatchAccount # None
    /\ Locally([ui EXCEPT !.replacing = TRUE])

CancelReplace == ui.replacing /\ Locally([ui EXCEPT !.replacing = FALSE])

Replace == ui.replacing /\ Sends("replace", [record |-> ui.resolve])

ModalSteps ==
    \/ CloseResolve \/ KeepExisting \/ ImportSeparate
    \/ OpenReplace \/ CancelReplace \/ Replace

-----------------------------------------------------------------------------
(***************************************************************************)
(* The server's side: the handlers of routers/imports.py.                  *)
(***************************************************************************)
\* What _record_to_transaction refuses.
Convertible(row) == row.type = "transfer" => row.dest \notin {None, db.account}

Asked(ids) == IF ids = None THEN DOMAIN db.rec ELSE ids \cap DOMAIN db.rec

ConfirmEffect(b) ==
    LET statuses == IF b.force THEN {"pending", "duplicate"} ELSE {"pending"}
        chosen == {r \in Asked(b.ids) : db.rec[r].status \in statuses}
    IN  [db EXCEPT !.rec = [r \in DOMAIN @ |->
            IF r \notin chosen THEN @[r]
            ELSE [@[r] EXCEPT !.status = IF Convertible(db.rec[r]) THEN "confirmed" ELSE "failed"]]]

RejectEffect(b) ==
    [db EXCEPT !.rec = [r \in DOMAIN @ |->
        IF r \in Asked(b.ids) /\ @[r].status = "pending"
        THEN [@[r] EXCEPT !.status = "rejected"] ELSE @[r]]]

PatchEffect(b) ==
    [db EXCEPT !.rec[b.record] =
        [status |-> IF b.status = None THEN @.status ELSE b.status,
         type |-> b.type, dest |-> b.dest]]

ReplaceOk(b) ==
    /\ db.account # None
    /\ db.rec[b.record].status = "duplicate" /\ Convertible(db.rec[b.record])

\* What the server does with the call k, and whether it does it.
ServeImport(k) ==
    LET h == call[k].hook
        b == call[k].body
    IN  CASE h \in {"confirm", "separate"} -> Serve(k, db.account # None, ConfirmEffect(b))
          [] h = "reject"  -> Serve(k, TRUE, RejectEffect(b))
          [] h = "account" -> Serve(k, TRUE, [db EXCEPT !.account = b.account])
          [] h = "keep"    -> Serve(k, TRUE, [db EXCEPT !.rec[b.record].status = b.status])
          [] h = "replace" -> Serve(k, ReplaceOk(b), [db EXCEPT !.rec[b.record].status = "confirmed"])
          [] OTHER         -> Serve(k, TRUE, PatchEffect(b))

\* The background job stores the records of the statement with its status.
ParsingEnds ==
    /\ db.status = "processing"
    /\ \E known \in SUBSET Records :
          db' = [db EXCEPT !.status = "completed", !.rec =
              [r \in Records |-> [status |-> IF r \in known THEN "duplicate" ELSE "pending",
                                  type |-> "expense", dest |-> None]]]
    /\ UNCHANGED <<page, seen, due, ui, call, lost>>

-----------------------------------------------------------------------------
(***************************************************************************)
(* Answers.                                                                *)
(***************************************************************************)
\* Mutant: the hooks invalidate the list of batches only.
ForgetsTheBatch == {}

\* Every hook invalidates all that is kept about the batch.
InvalidatedByImport == ImportQueries

SettleImport(k) == Settles(k, InvalidatedByImport \cap QueriesUsed)

\* The callbacks given to mutate, when the component is still there to hear: the
\* dialogs close and the selection is dropped, but a failure leaves them open.  What
\* a row sent ends the editing it was sent from: a suggestion ends none.
HeardImport(k) ==
    LET h == call[k].hook
    IN  IF ~call[k].heard THEN ui
        ELSE
        CASE h = "confirm"   -> [ui EXCEPT !.selected = {}]
          [] h = "reject"    -> [ui EXCEPT !.selected = {}, !.rejecting = FALSE]
          [] h = "account"   -> ui
          [] h \in ModalHooks -> [ui EXCEPT !.resolve = None, !.replacing = FALSE]
          [] OTHER -> [ui EXCEPT !.row[h].mode = IF @ = call[k].body.from THEN "view" ELSE @]

\* Only a rename that failed is given up.
FailedImport(k) ==
    LET h == call[k].hook
    IN  IF call[k].heard /\ h \in Records /\ call[k].body.from = "name"
        THEN [ui EXCEPT !.row[h].mode = IF @ = "name" THEN "view" ELSE @]
        ELSE ui

\* GET /imports/{id}, .../records?status=, .../transfer-suggestions
AnswerOf(q) ==
    IF q = "batch" THEN [seen EXCEPT !.batch = [status |-> db.status, account |-> db.account]]
    ELSE IF q = "hints" THEN [seen EXCEPT !.hints =
        IF db.account # Bank THEN {}
        ELSE {r \in Bills \cap DOMAIN db.rec :
                 db.rec[r].status = "pending" /\ db.rec[r].type = "expense"}]
    ELSE LET having == {r \in DOMAIN db.rec : db.rec[r].status = q}
         IN  [seen EXCEPT !.list = [r \in having |-> db.rec[r]]]

\* While the statement is being parsed, both are fetched over and over.
Polled == IF Processing THEN {"batch", ui.tab} ELSE {}

\* Once the statement is seen to be parsed, the hints are fetched.
Enabled(q) == IF q = "batch" /\ Processing /\ db.status # "processing" /\ ui.tab = "pending"
              THEN {"hints"} ELSE {}

Early(q) == IF db.status = "processing" THEN seen.early \cup {q} ELSE seen.early \ {q}

FetchImport(q) ==
    /\ q \in due \cup Polled
    /\ seen' = [AnswerOf(q) EXCEPT !.early = Early(q)]
    /\ due' = (due \ {q}) \cup Enabled(q)
    /\ IF q = ui.tab
       THEN /\ ui' = [ui EXCEPT !.row = RowsFor(seen'.list)]
            /\ call' = Leaving(seen'.list)
       ELSE UNCHANGED <<ui, call>>
    /\ UNCHANGED <<page, db, lost>>

-----------------------------------------------------------------------------
ImportInit ==
    /\ page = "import"
    /\ db \in {[status |-> "processing", account |-> a, rec |-> <<>>] : a \in UploadedFor}
    /\ seen = [batch |-> NoData, list |-> NoData, hints |-> NoData, early |-> {}]
    /\ due = {"batch", "pending", "hints"}
    /\ ui = [tab |-> "pending", selected |-> {}, resolve |-> None,
             replacing |-> FALSE, rejecting |-> FALSE, row |-> <<>>]
    /\ call = [k \in Slots |-> Idle]
    /\ lost = FALSE

ImportUser ==
    \/ \E t \in Tabs : SelectTab(t)
    \/ ToggleAll
    \/ OpenReject \/ CancelReject \/ RejectSelected
    \/ \E force \in BOOLEAN : ConfirmSelected(force)
    \/ \E a \in Accounts \cup {None} : SelectAccount(a)
    \/ \E r \in Records : ToggleSelect(r) \/ OpenResolve(r) \/ RowSteps(r)
    \/ ModalSteps

ImportClient ==
    \/ \E k \in Slots : Running(k) /\ (
          \/ ServeImport(k) \/ SettleImport(k)
          \/ Fails(k, FailedImport(k)) \/ Over(k, HeardImport(k)))
    \/ \E q \in ImportQueries : FetchImport(q)

ImportNext == ParsingEnds \/ ImportUser \/ ImportClient

-----------------------------------------------------------------------------
(***************************************************************************)
(* Properties.                                                             *)
(***************************************************************************)
ImportTypeOK ==
    /\ db.account \in Accounts \cup {None}
    /\ DOMAIN db.rec \in {{}, Records}
    /\ \A r \in DOMAIN db.rec : db.rec[r] \in Row
    /\ due \subseteq ImportQueries
    /\ seen.early \subseteq ImportQueries
    /\ ui.tab \in Tabs /\ ui.selected \subseteq Records
    /\ DOMAIN ui.row = Shown
    /\ \A r \in Shown : ui.row[r] \in Draft
    /\ CallRow(ImportHooks)

\* Whatever is edited, renamed or suggested, in whatever order the requests reach
\* the server: a record that is a transfer has a destination, and no other has one.
TransfersHaveDestinations ==
    \A r \in DOMAIN db.rec : db.rec[r].type = "transfer" <=> db.rec[r].dest # None

\* With nothing under way and no answer lost, each query in use shows what the server
\* has, unless it was last answered before the statement was parsed: the list is polled
\* only while the batch is known to be in parsing (api/imports.ts:84,97), so an empty
\* answer that comes just before the one that ends the polling stays on the screen until
\* the tab is changed or something is sent, although docs/TDD.md:175 (FR-11.3) has the
\* records presented for review; and so do hints fetched before the batch was first heard of.
ImportScreenCurrent ==
    ~lost /\ (\A k \in Slots : ~Running(k)) /\ due = {} /\ ~Processing =>
        \A q \in QueriesUsed \ seen.early : AnswerOf(q) = seen
=============================================================================
