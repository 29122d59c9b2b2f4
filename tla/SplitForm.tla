------------------------------ MODULE SplitForm ------------------------------
(***************************************************************************)
(* The form that creates a split or edits one (components/SplitForm.tsx),  *)
(* with the transaction picker and the payee box it is made of, against    *)
(* the server's handlers of SplitHandlers.                                 *)
(*                                                                         *)
(* The form works with the amounts its queries have: seen.txn holds NoData *)
(* for a transaction not fetched yet and 0 for one that could not be       *)
(* fetched, which is how the code reads it.  The server's amounts are      *)
(* whole cents; those typed into the form may be finer, and are kept in    *)
(* tenths of a cent.                                                       *)
(***************************************************************************)
EXTENDS Screen, SplitHandlers

CONSTANTS Cards,   \* the payee cards there may be on the form
          Typed,   \* bound: the amounts the user types, in tenths of a cent
          Starts   \* the databases and splits the form is opened on

CardRow == [payee : PayeeRef, amount : Int, touched : BOOLEAN,
            incomes : SUBSET TxnIds, forgiven : Int]

-----------------------------------------------------------------------------
(***************************************************************************)
(* What the form derives from the lists it has and from its own state.     *)
(***************************************************************************)
\* The list of splits, as far as the form reads it.
SplitList(d) ==
    [s \in {z \in DOMAIN d.split : IsLive(d.split, z)} |->
        [expenses |-> ExpensesOf(d, s),
         incomes  |-> {x.txn : x \in {y \in d.paid : y.share \in SharesOf(d, s)}}]]

OtherSplits == IF seen.splits = NoData THEN {} ELSE DOMAIN seen.splits \ {ui.split}

AlreadySplit == UNION {seen.splits[s].expenses : s \in OtherSplits}

UsedIncomes == UNION {seen.splits[s].incomes : s \in OtherSplits}

LinkedHere == UNION {ui.card[c].incomes : c \in DOMAIN ui.card}

Referenced == ui.expenses \cup LinkedHere

Resolving == \E t \in Referenced : seen.txn[t] = NoData

\* An amount that is not in the cache counts for nothing.
KnownIn(cache, T) == MapThenSumSet(LAMBDA t : IF cache[t] = NoData THEN 0 ELSE cache[t], T)

KnownTotal(T) == KnownIn(seen.txn, T)

\* Tenths of a cent: a cent, EPS, and toFixed(2).  What is right between two cents is
\* rounded up, and is within EPS; for a float both depend on its last bit.
Cent == 10
Tolerance == 5
Rounded(x) == (x + 5) \div Cent

TotalExpense == KnownTotal(ui.expenses)

MyShare == IF ui.excluded THEN 0 ELSE ui.own

CardTotal(C) == MapThenSumSet(LAMBDA c : ui.card[c].amount, C)

-----------------------------------------------------------------------------
(***************************************************************************)
(* Validation.                                                             *)
(***************************************************************************)
\* Mutant: the linked payments are not held against the share.
AnyPayment(c) ==
    /\ ui.card[c].payee # NoPayee
    /\ \A b \in DOMAIN ui.card \ {c} : ui.card[b].payee # ui.card[c].payee
    /\ ui.card[c].amount > 0 /\ ui.card[c].forgiven >= 0

\* No payeeError for any card: of two with one payee the later gets it.
CardFits(c) ==
    LET card == ui.card[c]
    IN  /\ card.payee # NoPayee
        /\ \A b \in DOMAIN ui.card \ {c} : ui.card[b].payee # card.payee
        /\ card.amount > 0
        /\ card.forgiven >= 0
        /\ Cent * KnownTotal(card.incomes) + card.forgiven <= card.amount + Tolerance

Balance == MyShare + CardTotal(DOMAIN ui.card) - Cent * TotalExpense

Fits ==
    /\ ui.expenses # {}
    /\ MyShare >= 0
    /\ -Tolerance <= Balance /\ Balance <= Tolerance
    /\ \A c \in DOMAIN ui.card : CardFits(c)

CanSubmit == ui.open /\ ~Pending("create") /\ ~Pending("update") /\ ~Resolving /\ Fits

-----------------------------------------------------------------------------
(***************************************************************************)
(* The picker lists the live transactions of a type, whatever their date,  *)
(* and leaves out those it is told to; picking one puts it in the cache.   *)
(***************************************************************************)
PickerItems(type, excluded) == {t \in DOMAIN db.txn \ excluded : LiveTxn(db, t) /\ db.txn[t].type = type}

PickedIn(cache, t) == [cache EXCEPT ![t] = db.txn[t].amount]

\* Bound: the user waits for a save to be answered before going on.
Waits == Pending("create") \/ Pending("update")

Picks(t, new) ==
    /\ ui.open /\ ~Waits
    /\ seen' = [seen EXCEPT !.txn = PickedIn(@, t)]
    /\ ui' = new
    /\ UNCHANGED <<page, db, due, call, lost>>

\* A step of the user that changes nothing is none.
Edits(new) == ui.open /\ ~Waits /\ new # ui /\ Locally(new)

SetCard(c, new) == [ui EXCEPT !.card[c] = new]

PickExpense(t) ==
    /\ t \in PickerItems("expense", AlreadySplit \cup ui.expenses)
    /\ Picks(t, [ui EXCEPT !.expenses = @ \cup {t}])

RemoveExpense(t) ==
    t \in ui.expenses /\ Edits([ui EXCEPT !.expenses = @ \ {t}])

TypeMyShare(a) == ~ui.excluded /\ Edits([ui EXCEPT !.own = a])

SetExcluded == Edits([ui EXCEPT !.excluded = ~@])

\* What is left of the expenses, rounded.
Remainder(allocated) == Cent * Rounded(Max({0, Cent * TotalExpense - allocated}))

MyShareRemainder ==
    /\ ~ui.excluded
    /\ Edits([ui EXCEPT !.own = Remainder(CardTotal(DOMAIN ui.card))])

-----------------------------------------------------------------------------
(***************************************************************************)
(* The payee cards.                                                        *)
(***************************************************************************)
NewCard == [payee |-> NoPayee, amount |-> 0, touched |-> FALSE, incomes |-> {}, forgiven |-> 0]

\* Bound: one card at a time is without a payee.
AddCard ==
    LET c == CHOOSE c \in Cards \ DOMAIN ui.card : TRUE
    IN  /\ Cards # DOMAIN ui.card
        /\ \A b \in DOMAIN ui.card : ui.card[b].payee # NoPayee
        /\ Edits([ui EXCEPT !.card =
              [b \in DOMAIN @ \cup {c} |-> IF b = c THEN NewCard ELSE @[b]]])

RemoveCard(c) == Edits([ui EXCEPT !.card = [b \in DOMAIN @ \ {c} |-> @[b]]])

\* The box can be emptied.  Bound: as for AddCard.
ChoosePayee(c, p) ==
    /\ p \in seen.payees \cup {NoPayee}
    /\ p = NoPayee => \A b \in DOMAIN ui.card \ {c} : ui.card[b].payee # NoPayee
    /\ Edits(SetCard(c, [ui.card[c] EXCEPT !.payee = p]))

\* "Create ..." in the payee box; it is not disabled while it creates.
\* Bound: there is an id for it.
CreatePayee(c) ==
    /\ ui.open /\ ~Waits /\ DOMAIN db.payee # Payees
    /\ Sends("payee", [card |-> c])

TypeAmount(c, a) ==
    Edits(SetCard(c, [ui.card[c] EXCEPT !.amount = a, !.touched = TRUE]))

CardRemainder(c) ==
    LET others == CardTotal(DOMAIN ui.card \ {c})
    IN  Edits(SetCard(c, [ui.card[c] EXCEPT !.touched = TRUE,
                 !.amount = Remainder(MyShare + others)]))

\* Bound: one payee at a time is forgiven something.
TypeForgiven(c, a) ==
    /\ \A b \in DOMAIN ui.card \ {c} : ui.card[b].forgiven = 0
    /\ Edits(SetCard(c, [ui.card[c] EXCEPT !.forgiven = a, !.touched = TRUE]))

\* Mutant: the amount is worked out before the picker has put the transaction in the cache.
MirrorTooEarly(c, T, cache) ==
    LET card == ui.card[c]
    IN  [card EXCEPT !.incomes = T, !.amount = IF card.touched THEN @ ELSE Cent * KnownTotal(T)]

\* Until the user touches the amount it follows the linked payments, read from the cache.
Relinked(c, T, cache) ==
    LET card == ui.card[c]
    IN  [card EXCEPT !.incomes = T, !.amount = IF card.touched THEN @ ELSE Cent * KnownIn(cache, T)]

LinkIncome(c, t) ==
    /\ t \in PickerItems("income", UsedIncomes \cup LinkedHere)
    /\ Picks(t, SetCard(c, Relinked(c, ui.card[c].incomes \cup {t}, PickedIn(seen.txn, t))))

UnlinkIncome(c, t) ==
    /\ t \in ui.card[c].incomes
    /\ Edits(SetCard(c, Relinked(c, ui.card[c].incomes \ {t}, seen.txn)))

CardSteps(c) ==
    \/ RemoveCard(c) \/ CreatePayee(c) \/ CardRemainder(c)
    \/ \E p \in PayeeRef : ChoosePayee(c, p)
    \/ \E a \in Typed : TypeAmount(c, a) \/ TypeForgiven(c, a)
    \/ \E t \in TxnIds : LinkIncome(c, t) \/ UnlinkIncome(c, t)

\* Closed, the form keeps nothing.
Closed == [open |-> FALSE, split |-> ui.split, expenses |-> {}, own |-> 0, excluded |-> FALSE,
           card |-> <<>>]

\* The form as it opens on the split s of d, or empty.
OwnShares(d, s) == {h \in SharesOf(d, s) : d.share[h].payee = NoPayee}

OpenedOn(d, s) ==
    IF s = None
    THEN [open |-> TRUE, split |-> None, expenses |-> {}, own |-> 0, excluded |-> FALSE,
          card |-> <<>>]
    ELSE LET payeeShares == SharesOf(d, s) \ OwnShares(d, s)
             place == CHOOSE f \in [payeeShares -> Cards] : IsInjective(f)
         IN  [open |-> TRUE, split |-> s, expenses |-> ExpensesOf(d, s),
              own |-> IF OwnShares(d, s) = {} THEN 0
                      ELSE Cent * d.share[CHOOSE h \in OwnShares(d, s) : TRUE].amount,
              excluded |-> OwnShares(d, s) = {},
              card |-> [c \in {place[h] : h \in payeeShares} |->
                  LET h == CHOOSE h \in payeeShares : place[h] = c
                  IN  [payee |-> d.share[h].payee, amount |-> Cent * d.share[h].amount,
                       touched |-> TRUE, forgiven |-> Cent * d.share[h].forgiven,
                       incomes |-> {x.txn : x \in SettlementsOf(d, h)}]]]

-----------------------------------------------------------------------------
(***************************************************************************)
(* Submitting.                                                             *)
(***************************************************************************)
\* Mutant: nothing is said of what was forgiven.
ForgetsForgiven ==
    LET CardOf(p) == CHOOSE c \in DOMAIN ui.card : ui.card[c].payee = p
        named   == {ui.card[c].payee : c \in DOMAIN ui.card}
        own     == IF MyShare > 0 THEN {NoPayee} ELSE {}
    IN  [p \in named \cup own |->
            IF p = NoPayee THEN [amount |-> Rounded(MyShare), forgiven |-> 0, incomes |-> {}]
            ELSE [amount |-> Rounded(ui.card[CardOf(p)].amount), forgiven |-> 0,
                  incomes |-> ui.card[CardOf(p)].incomes]]

\* The shares of the body, each amount rounded for itself; an own share of nothing is
\* left out.
FormBody ==
    LET CardOf(p) == CHOOSE c \in DOMAIN ui.card : ui.card[c].payee = p
        named   == {ui.card[c].payee : c \in DOMAIN ui.card}
        own     == IF MyShare > 0 THEN {NoPayee} ELSE {}
    IN  [p \in named \cup own |->
            IF p = NoPayee THEN [amount |-> Rounded(MyShare), forgiven |-> 0, incomes |-> {}]
            ELSE [amount   |-> Rounded(ui.card[CardOf(p)].amount),
                  forgiven |-> Rounded(ui.card[CardOf(p)].forgiven),
                  incomes  |-> ui.card[CardOf(p)].incomes]]

Submit ==
    /\ CanSubmit
    /\ Sends(IF ui.split = None THEN "create" ELSE "update",
             [split |-> ui.split, expenses |-> ui.expenses, shares |-> FormBody])

Cancel == Edits(Closed)

FormUser ==
    \/ \E t \in TxnIds : PickExpense(t) \/ RemoveExpense(t)
    \/ \E a \in Typed : TypeMyShare(a)
    \/ SetExcluded \/ MyShareRemainder \/ AddCard \/ Submit \/ Cancel
    \/ \E c \in DOMAIN ui.card : CardSteps(c)

-----------------------------------------------------------------------------
(***************************************************************************)
(* The server, and what comes back.                                        *)
(***************************************************************************)
ShareIdsKept(s) == DOMAIN db.share \ SharesOf(db, s)

CreateResult(b) == CreateSplitWrite(db, db, DOMAIN db.share, b.expenses, b.shares)

UpdateResult(b) == UpdateSplitWrite(db, db, ShareIdsKept(b.split), b.split, b.expenses, b.shares)

ServeForm(k) ==
    LET b == call[k].body
    IN  \/ /\ Running(k) /\ call[k].hook = "create" /\ CreateSplitOk(db, b.expenses, b.shares)
           /\ HasSplitId(db) /\ HasShareIds(DOMAIN db.share, b.shares)
           /\ Serve(k, Commits(CreateResult(b)), CreateResult(b).db)
        \/ /\ Running(k) /\ call[k].hook = "update"
           /\ UpdateSplitOk(db, b.split, b.expenses, b.shares)
           /\ HasShareIds(ShareIdsKept(b.split), b.shares)
           /\ Serve(k, Commits(UpdateResult(b)), UpdateResult(b).db)

\* POST /payees: the new payee comes back with the answer.
ServePayee(k, p) ==
    /\ Running(k) /\ call[k].hook = "payee" /\ call[k].state = "sent"
    /\ p \in Payees \ DOMAIN db.payee
    /\ db' = [db EXCEPT !.payee = [q \in DOMAIN @ \cup {p} |-> "live"]]
    /\ call' = [call EXCEPT ![k].state = "done", ![k].body = [card |-> @.card, payee |-> p]]
    /\ UNCHANGED <<page, seen, due, ui, lost>>

\* A split that was saved closes the form; the lists of splits are fetched again.
SaveAnswered(k) ==
    /\ Running(k) /\ call[k].hook \in {"create", "update"}
    /\ Returns(k, {"splits"}, Closed)

\* The new payee is chosen on its card, if that is still there - once the list
\* of payees has been fetched again, which the hook waits for.
PayeeSettles(k) == Running(k) /\ call[k].hook = "payee" /\ Settles(k, {"payees"})

PayeeAnswered(k) ==
    /\ Running(k) /\ call[k].hook = "payee"
    /\ LET c == call[k].body.card
       IN  Over(k, IF c \notin DOMAIN ui.card THEN ui
                   ELSE SetCard(c, [ui.card[c] EXCEPT !.payee = call[k].body.payee]))

FetchForm(q) ==
    /\ q \in due
    /\ due' = due \ {q}
    /\ seen' = IF q = "splits" THEN [seen EXCEPT !.splits = SplitList(db)]
               ELSE [seen EXCEPT !.payees = DOMAIN db.payee]
    /\ UNCHANGED <<page, db, ui, call, lost>>

\* One query for each transaction referenced; its answer is good for five minutes.
FetchTxn(t) ==
    /\ ui.open /\ t \in Referenced /\ seen.txn[t] = NoData
    /\ seen' = [seen EXCEPT !.txn[t] = db.txn[t].amount]
    /\ UNCHANGED <<page, db, due, ui, call, lost>>

FetchTxnFails(t) ==
    /\ ui.open /\ t \in Referenced /\ seen.txn[t] = NoData
    /\ seen' = [seen EXCEPT !.txn[t] = 0]
    /\ UNCHANGED <<page, db, due, ui, call, lost>>

-----------------------------------------------------------------------------
FormInit ==
    /\ page = "splitForm"
    /\ \E s \in Starts :
          /\ db = s.db
          /\ ui = OpenedOn(s.db, s.split)
          /\ seen = [txn |-> [t \in TxnIds |-> NoData], splits |-> SplitList(s.db),
                     payees |-> DOMAIN s.db.payee]
    /\ due = {}
    /\ call = [k \in Slots |-> Idle]
    /\ lost = FALSE

FormClient ==
    \/ \E k \in Slots :
          \/ ServeForm(k) \/ SaveAnswered(k) \/ PayeeSettles(k) \/ PayeeAnswered(k)
          \/ Fails(k, ui)
          \/ \E p \in Payees : ServePayee(k, p)
    \/ \E q \in {"splits", "payees"} : FetchForm(q)
    \/ \E t \in TxnIds : FetchTxn(t) \/ FetchTxnFails(t)

FormNext == FormUser \/ FormClient

-----------------------------------------------------------------------------
(***************************************************************************)
(* Properties.                                                             *)
(***************************************************************************)
FormTypeOK ==
    /\ IsDatabase(db)
    /\ ui.expenses \subseteq TxnIds /\ DOMAIN ui.card \subseteq Cards
    /\ \A c \in DOMAIN ui.card : ui.card[c] \in CardRow
    /\ \A t \in TxnIds : seen.txn[t] \in Nat \cup {NoData}
    /\ CallRow({"create", "update", "payee"})

FormCredit(s) == IF s = None THEN FullCredit(db) ELSE KeptCredit(db, s)

Submitted(k) == call[k] = Idle /\ call'[k] # Idle /\ call'[k].hook \in {"create", "update"}

\* Nothing on the form is finer than a cent.
WholeCents ==
    \A a \in {MyShare} \cup UNION {{ui.card[c].amount, ui.card[c].forgiven} : c \in DOMAIN ui.card} :
        a % Cent = 0

\* What the form lets through passes the arithmetic of the server's handlers -
\* distinct payees, an income once, shares that add up, nothing covered twice -
\* as long as the amounts the form works with are the transactions' own and nothing
\* typed is finer than a cent.  Finer shares may add up on the form and not once each
\* is rounded: the server refuses 33.333 three times for 100.
SentBodiesFit ==
    [][page = "splitForm" =>
          \A k \in Slots :
              Submitted(k) /\ WholeCents /\ (\A t \in Referenced : seen.txn[t] = db.txn[t].amount) =>
              LET b == call'[k].body
              IN  ValidBody(b.shares) /\ BodyFits(db, b.expenses, b.shares, FormCredit(b.split))
      ]_screenVars

\* An amount nobody has touched is what the linked payments bring, also for a
\* payment picked a moment ago from outside the lists on the screen.
AmountMirrorsPayments ==
    \A c \in DOMAIN ui.card :
        ~ui.card[c].touched => ui.card[c].amount = Cent * TxnTotal(db, ui.card[c].incomes)

\* What a split holds, whatever the ids of its rows.
SplitContent(d, s) ==
    [expenses |-> ExpensesOf(d, s),
     shares   |-> {[payee |-> d.share[h].payee, amount |-> d.share[h].amount,
                    forgiven |-> d.share[h].forgiven, status |-> d.share[h].status,
                    paid |-> {<<x.txn, x.amount>> : x \in SettlementsOf(d, h)}] :
                      h \in SharesOf(d, s)}]

\* A split as the form leaves it and payments and forgiving since: each status is what the
\* amounts call for; the user has one share at most, of something, which nobody pays or is
\* forgiven.  PATCH of a share, or the purge of a payment, may leave one that is not.
AsSaved(d, s) ==
    /\ \A h \in SharesOf(d, s) :
          d.share[h].status = DeriveStatus(d.share[h].amount, Paid(d, h), d.share[h].forgiven)
    /\ \A h \in OwnShares(d, s) :
          /\ d.share[h].amount > 0 /\ d.share[h].forgiven = 0 /\ SettlementsOf(d, h) = {}
          /\ \A g \in OwnShares(d, s) : g = h

\* Saving the form as it opened leaves a split as it was saved: every payment at
\* what it was credited with, every amount forgiven, every status.
UnchangedEditKeepsSplit ==
    [][page = "splitForm" =>
          \A k \in Slots :
              /\ Submitted(k) /\ ui.split # None
              /\ ui = OpenedOn(db, ui.split) /\ AsSaved(db, ui.split)
              => SplitContent(UpdateResult(call'[k].body).db, ui.split) = SplitContent(db, ui.split)
      ]_screenVars
=============================================================================
