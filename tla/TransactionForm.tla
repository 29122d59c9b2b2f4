--------------------------- MODULE TransactionForm ---------------------------
(***************************************************************************)
(* The page that adds or edits a transaction (pages/TransactionForm.tsx,   *)
(* components/forms/TransactionForm.tsx, components/MultiAutocomplete.tsx).*)
(*                                                                         *)
(* The form starts from the transaction, follows it whenever a refetch     *)
(* finds it changed, and sends all its fields, but an empty one is left    *)
(* out.  text stands for the fields that only pass through.                *)
(***************************************************************************)
EXTENDS Screen

CONSTANTS Accounts,     \* ids of the active accounts
          Liabilities,  \* the credit cards and loans among them
          MethodsOf,    \* the payment methods of each account
          DefaultOf,    \* the default category of each payee, or None
          Categories, Tags,
          NewPayee, NewCategory, NewTag,  \* ids of those created inline
          Types,        \* bound: the types chosen
          Changes,      \* bound: how many fields are changed in a visit
          StartTxns     \* the transactions edited, None for a new one

Payees == DOMAIN DefaultOf

-----------------------------------------------------------------------------
(***************************************************************************)
(* What the form shows.                                                    *)
(***************************************************************************)
BlankForm == [type |-> "expense", amount |-> 0, account |-> None, to |-> None, method |-> None,
              payee |-> None, category |-> None, tags |-> {}, text |-> None]

Empty(form, field) == form[field] = None

DefaultCategory(p) == IF p \in Payees THEN DefaultOf[p] ELSE None

\* A payee just set fills in its category, unless there is one.
WithDefault(form) ==
    [form EXCEPT !.category = IF @ = None THEN DefaultCategory(form.payee) ELSE @]

FormOf(txn) ==
    [type |-> txn.type, amount |-> txn.amount, account |-> txn.account, to |-> txn.to,
     method |-> txn.method, payee |-> txn.payee, category |-> txn.category,
     tags |-> txn.tags, text |-> txn.text]

\* Mutant: a change of account always clears the method.
AlwaysCleared(account, txn) == None

\* The payment method goes with the account, but the transaction's own comes back.
MethodFor(account, txn) ==
    IF txn # NoData /\ account = txn.account THEN txn.method ELSE None

\* The effects of the transaction arriving: the fields follow it, then the payee,
\* if it is another one, its category.
Followed(txn) ==
    LET form == [FormOf(txn) EXCEPT !.method = MethodFor(txn.account, txn)]
    IN  IF ~ui.loaded \/ txn.payee # ui.form.payee THEN WithDefault(form) ELSE form

\* Only while the transaction is being fetched: once that has failed, the form is there,
\* blank, and is saved as an edit.
Loading == ui.editing /\ seen.txn = NoData /\ due # {}

Ready == ~ui.done /\ ~Loading

OfMoney == ui.form.type \notin {"transfer", "opening_balance"}

\* touched is kept for the properties: the user has changed the form since it
\* last followed the transaction.
Edited(form) ==
    /\ Ready /\ form # ui.form /\ ui.changes < Changes
    /\ Locally([ui EXCEPT !.form = form, !.touched = TRUE, !.changes = @ + 1])

-----------------------------------------------------------------------------
(***************************************************************************)
(* The fields.                                                             *)
(***************************************************************************)
ChooseType(type) == Edited([ui.form EXCEPT !.type = type])

TypeAmount == Edited([ui.form EXCEPT !.amount = 1])

\* An opening balance may not be put on a card or a loan.
ChooseAccount(a) ==
    /\ ui.form.type = "opening_balance" => a \notin Liabilities
    /\ Edited([ui.form EXCEPT !.account = a, !.method = IF a = ui.form.account THEN @ ELSE MethodFor(a, seen.txn)])

ChooseTo(a) ==
    /\ ui.form.type = "transfer" /\ a # ui.form.account
    /\ Edited([ui.form EXCEPT !.to = a])

ChooseMethod(m) ==
    /\ OfMoney /\ ui.form.account # None
    /\ m = None \/ m \in MethodsOf[ui.form.account]
    /\ Edited([ui.form EXCEPT !.method = m])

ChoosePayee(p) == OfMoney /\ p # ui.form.payee /\ Edited(WithDefault([ui.form EXCEPT !.payee = p]))

ChooseCategory(c) == OfMoney /\ Edited([ui.form EXCEPT !.category = c])

ToggleTag(t) ==
    /\ ui.form.type # "opening_balance"
    /\ Edited([ui.form EXCEPT !.tags = IF t \in @ THEN @ \ {t} ELSE @ \cup {t}])

TypeText == Edited([ui.form EXCEPT !.text = "new"])

\* Creating what a box does not find; nothing is disabled meanwhile, and a tag is
\* added in the end to the tags there were when it was asked for.
CreateInline(hook) ==
    /\ Ready
    /\ \/ hook = "newTag" /\ ui.form.type # "opening_balance" /\ NewTag \notin db.tags
       \/ hook = "newPayee" /\ OfMoney /\ NewPayee \notin db.payees
       \/ hook = "newCategory" /\ OfMoney /\ NewCategory \notin db.categories
    /\ Sends(hook, [tags |-> ui.form.tags])

-----------------------------------------------------------------------------
(***************************************************************************)
(* Submitting.                                                             *)
(***************************************************************************)
Complete ==
    /\ ui.form.account # None /\ ui.form.amount > 0
    /\ ui.form.type = "transfer" => ui.form.to # None

\* The destination is left out unless it is a transfer; None is left out.
Payload == [ui.form EXCEPT !.to = IF ui.form.type = "transfer" THEN @ ELSE None]

\* Mutant: the button stays enabled.
SubmitsAgain == Ready /\ Complete /\ Sends(IF ui.editing THEN "patch" ELSE "create", Payload)

Submit ==
    /\ Ready /\ Complete
    /\ ~Pending("create") /\ ~Pending("patch")
    /\ Sends(IF ui.editing THEN "patch" ELSE "create", Payload)

\* The window gets the focus again, and the transaction is fetched again.  Bound: not once
\* its first fetch has failed, when the page would load, and the form start, anew.
Refocus ==
    /\ ui.editing /\ ~ui.done /\ seen.txn # NoData /\ due = {} /\ due' = {"txn"}
    /\ UNCHANGED <<page, db, seen, ui, call, lost>>

FormUser ==
    \/ TypeAmount \/ TypeText \/ Submit \/ Refocus
    \/ \E type \in Types : ChooseType(type)
    \/ \E a \in Accounts \cup {None} : ChooseAccount(a) \/ ChooseTo(a)
    \/ \E m \in UNION {MethodsOf[a] : a \in Accounts} \cup {None} : ChooseMethod(m)
    \/ \E p \in db.payees \cup {None} : ChoosePayee(p)
    \/ \E c \in db.categories \cup {None} : ChooseCategory(c)
    \/ \E t \in db.tags : ToggleTag(t)
    \/ \E hook \in {"newTag", "newPayee", "newCategory"} : CreateInline(hook)

-----------------------------------------------------------------------------
(***************************************************************************)
(* The server, and what comes back.                                        *)
(***************************************************************************)
\* Fields that are not sent are left alone.
Kept(row, b, field) == IF Empty(b, field) THEN row[field] ELSE b[field]

PatchedTxn(row, b) ==
    [b EXCEPT !.to = Kept(row, b, "to"), !.method = Kept(row, b, "method"),
              !.payee = Kept(row, b, "payee"), !.text = Kept(row, b, "text")]

DestinationOk(type, to) == (type = "transfer") <=> (to # None)

TxnAccepted(k) ==
    LET b == call[k].body
    IN  CASE call[k].hook = "create" -> DestinationOk(b.type, b.to)
          [] call[k].hook = "patch"  -> DestinationOk(b.type, PatchedTxn(db.txn, b).to)
          [] OTHER -> TRUE

TxnResult(k) ==
    LET b == call[k].body
    IN  CASE call[k].hook = "create" -> [db EXCEPT !.created = @ + 1]
          [] call[k].hook = "patch"  -> [db EXCEPT !.txn = PatchedTxn(@, b)]
          [] call[k].hook = "newTag" -> [db EXCEPT !.tags = @ \cup {NewTag}]
          [] call[k].hook = "newPayee" -> [db EXCEPT !.payees = @ \cup {NewPayee}]
          [] call[k].hook = "newCategory" -> [db EXCEPT !.categories = @ \cup {NewCategory}]

ServeTxn(k) == Running(k) /\ Serve(k, TxnAccepted(k), TxnResult(k))

\* The same transaction is edited in another tab.
OtherTab ==
    /\ ui.editing /\ db.txn.text # "other" /\ \A k \in Slots : call[k] = Idle
    /\ db' = [db EXCEPT !.txn.text = "other"]
    /\ UNCHANGED <<page, seen, due, ui, call, lost>>

\* A saved form goes away; what was created is chosen in its box.  The payees are
\* there again before that, so that the payee so far fills in its category first.
HeardTxn(k) ==
    LET h == call[k].hook
    IN  CASE h \in {"create", "patch"} -> [ui EXCEPT !.done = TRUE]
          [] h = "newTag" -> [ui EXCEPT !.form.tags = call[k].body.tags \cup {NewTag}, !.touched = TRUE]
          [] h = "newPayee" -> [ui EXCEPT !.form = [WithDefault(@) EXCEPT !.payee = NewPayee],
                                       !.touched = TRUE]
          [] h = "newCategory" -> [ui EXCEPT !.form.category = NewCategory, !.touched = TRUE]

AnswerTxn(k) ==
    Running(k) /\ Returns(k, IF call[k].hook = "patch" THEN {"txn"} ELSE {}, HeardTxn(k))

\* Only a transaction that is found changed reaches the form again.
FetchTxn ==
    /\ due # {}
    /\ due' = {}
    /\ seen' = [txn |-> db.txn]
    /\ ui' = IF db.txn = seen.txn THEN ui
             ELSE [ui EXCEPT !.form = Followed(db.txn), !.loaded = TRUE, !.touched = FALSE]
    /\ UNCHANGED <<page, db, call, lost>>

\* The fetch and its retries fail.
FetchTxnFails ==
    /\ due # {}
    /\ due' = {}
    /\ UNCHANGED <<page, db, seen, ui, call, lost>>

-----------------------------------------------------------------------------
TxnFormInit ==
    /\ page = "transactionForm"
    /\ \E start \in StartTxns :
          /\ db = [txn |-> start, created |-> 0, tags |-> Tags, payees |-> Payees, categories |-> Categories]
          /\ due = IF start = None THEN {} ELSE {"txn"}
          /\ ui = [editing |-> start # None, loaded |-> FALSE, form |-> BlankForm,
                   touched |-> FALSE, changes |-> 0, done |-> FALSE]
    /\ seen = [txn |-> NoData]
    /\ call = [k \in Slots |-> Idle]
    /\ lost = FALSE

TxnFormNext ==
    \/ FormUser
    \/ \E k \in Slots : ServeTxn(k) \/ AnswerTxn(k) \/ Fails(k, ui)
    \/ OtherTab
    \/ FetchTxn
    \/ FetchTxnFails

-----------------------------------------------------------------------------
(***************************************************************************)
(* Properties.                                                             *)
(***************************************************************************)
TxnFormTypeOK ==
    /\ ui.form.account \in Accounts \cup {None} /\ ui.form.to \in Accounts \cup {None}
    /\ ui.form.payee \in db.payees \cup {None} /\ ui.form.tags \subseteq db.tags
    /\ CallRow({"create", "patch", "newTag", "newPayee", "newCategory"})

\* However often the form is submitted, refused and submitted again, one visit adds
\* one transaction - unless an answer was lost and the user tried again.
OneRowPerVisit == ~lost => db.created <= 1

\* Once the transaction was fetched and until the user changes something, the form shows
\* it as it was last fetched, its payment method and its payee's category included.
FormFollowsRow ==
    ui.loaded /\ ~ui.touched =>
        /\ ui.form.category \in {seen.txn.category, DefaultCategory(seen.txn.payee)}
        /\ [ui.form EXCEPT !.category = seen.txn.category] = FormOf(seen.txn)
=============================================================================
