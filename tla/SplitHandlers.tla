--------------------------- MODULE SplitHandlers ---------------------------
(***************************************************************************)
(* The request handlers that write the split tables (routers/splits.py),   *)
(* and those of transactions, imports, payees and the purge job that       *)
(* change the rows splits hang on.                                         *)
(*                                                                         *)
(* A handler first checks, then writes.  XOk(v, ...) is what handler X     *)
(* checks in the database v it reads; X(v, d, ...) is what it then writes  *)
(* into the database d it finds when it writes.  A lone request has v = d; *)
(* under READ COMMITTED without row locks another request may commit in    *)
(* between, and then d is newer than v.                                    *)
(***************************************************************************)
EXTENDS SplitTables, Functions

(***************************************************************************)
(* What a handler hands to the database: the rows it would commit, the     *)
(* splits whose shares it wrote (they fire the deferred trigger), and      *)
(* whether it reached its commit at all.                                   *)
(***************************************************************************)
Result(reached, d, touched) == [reached |-> reached, db |-> d, touched |-> touched]

Commits(res) == res.reached /\ CommitAccepts(res.db, res.touched)

\* Mutant: an update writes the whole row back.
WholeRow(old, new, current) == new

\* An ORM update writes only the columns the handler changed.
Column(old, new, current) == IF new # old THEN new ELSE current

MergeShare(old, new, current) ==
    [split    |-> current.split,
     payee    |-> Column(old.payee, new.payee, current.payee),
     amount   |-> Column(old.amount, new.amount, current.amount),
     forgiven |-> Column(old.forgiven, new.forgiven, current.forgiven),
     status   |-> Column(old.status, new.status, current.status)]

UpdateShare(v, d, h, new) ==
    [d EXCEPT !.share = [g \in DOMAIN d.share |->
        IF g = h THEN MergeShare(v.share[h], new, d.share[h]) ELSE d.share[g]]]

\* Commit one share: no UPDATE is sent when nothing changed, and one that finds
\* its row gone aborts the request.
SaveShare(v, d, h, new) ==
    LET dirty == new # v.share[h]
    IN  Result(dirty => h \in DOMAIN d.share, UpdateShare(v, d, h, new),
               IF dirty THEN {v.share[h].split} ELSE {})

\* Mutants: a fourth status; a share partly forgiven and covered is forgiven.
PartialStatus(amount, paid, forgiven) ==
    IF paid = 0 /\ forgiven < amount THEN "pending"
    ELSE IF paid + forgiven < amount THEN "partial"
    ELSE IF paid = 0 THEN "forgiven" ELSE "settled"

ForgivenFirst(amount, paid, forgiven) ==
    IF paid + forgiven < amount THEN "pending"
    ELSE IF forgiven > 0 THEN "forgiven" ELSE "settled"

DeriveStatus(amount, paid, forgiven) ==
    IF paid + forgiven < amount THEN "pending"
    ELSE IF paid = 0 THEN "forgiven" ELSE "settled"

-----------------------------------------------------------------------------
(***************************************************************************)
(* Request bodies.  A split body maps each payee (NoPayee for the user's   *)
(* own share) to the share asked for; that it is a function is the         *)
(* schema's "each payee once, at most one own share".                      *)
(***************************************************************************)
Draft == [amount : 1..MaxMoney, forgiven : 0..MaxMoney, incomes : SUBSET TxnIds]

ValidBody(body) ==
    /\ DOMAIN body # {} /\ DOMAIN body \subseteq PayeeRef
    /\ \A p \in DOMAIN body : body[p] \in Draft
    /\ NoPayee \in DOMAIN body => body[NoPayee].incomes = {} /\ body[NoPayee].forgiven = 0
    /\ \A p, q \in DOMAIN body : p # q => body[p].incomes \cap body[q].incomes = {}

BodyTotal(body) == MapThenSumSet(LAMBDA p : body[p].amount, DOMAIN body)

\* What linking an income credits: its full amount, except that an update keeps
\* the credit an income already has in the split.
FullCredit(v) == [t \in DOMAIN v.txn |-> v.txn[t].amount]

\* Mutant: an update credits every income in full.
ForgottenCredit(v, s) == FullCredit(v)

KeptCredit(v, s) ==
    [t \in DOMAIN v.txn |->
        LET kept == {x \in CreditsOf(v, t) : x.share \in SharesOf(v, s)}
        IN  IF kept # {} THEN (CHOOSE x \in kept : TRUE).amount ELSE v.txn[t].amount]

CreditTotal(credit, T) == MapThenSumSet(LAMBDA t : credit[t], T)

SplitParent(v, t, freed) == IsExpense(v, t) /\ \A l \in v.links \ freed : l.txn # t

\* The shares a body asks for, as rows ready to insert.
BodyRows(body, credit) ==
    [p \in DOMAIN body |->
        [payee    |-> p,
         amount   |-> body[p].amount,
         forgiven |-> body[p].forgiven,
         status   |-> DeriveStatus(body[p].amount, CreditTotal(credit, body[p].incomes),
                                   body[p].forgiven),
         incomes  |-> body[p].incomes]]

\* The checks create_split and update_split share.
BodyFits(v, exps, body, credit) ==
    /\ BodyTotal(body) = TxnTotal(v, exps)
    /\ \A p \in DOMAIN body :
          /\ body[p].amount <= TxnTotal(v, exps)
          /\ CreditTotal(credit, body[p].incomes) + body[p].forgiven <= body[p].amount

-----------------------------------------------------------------------------
(***************************************************************************)
(* New rows.  A uuid4 key is one no row has, and none a request in flight  *)
(* still remembers (taken).                                                *)
(***************************************************************************)
NewSplitId(d) == CHOOSE s \in SplitIds : s \notin DOMAIN d.split

HasSplitId(d) == \E s \in SplitIds : s \notin DOMAIN d.split

HasShareIds(taken, rows) == \E f \in [DOMAIN rows -> ShareIds \ taken] : IsInjective(f)

NewShareIds(taken, rows) ==
    CHOOSE f \in [DOMAIN rows -> ShareIds \ taken] : IsInjective(f)

\* The rows of split s: its parents, and one share and its settlements per row.
InsertRows(d, s, exps, rows, ids, credit) ==
    [d EXCEPT
       !.split = [z \in DOMAIN d.split \cup {s} |->
                     IF z \in DOMAIN d.split THEN d.split[z] ELSE "live"],
       !.links = @ \cup {[split |-> s, txn |-> t] : t \in exps},
       !.share = [h \in DOMAIN d.share \cup {ids[k] : k \in DOMAIN rows} |->
                     IF h \in DOMAIN d.share THEN d.share[h]
                     ELSE LET row == rows[CHOOSE k \in DOMAIN rows : ids[k] = h]
                          IN  [split |-> s, payee |-> row.payee, amount |-> row.amount,
                               forgiven |-> row.forgiven, status |-> row.status]],
       !.paid  = @ \cup UNION {{[share |-> ids[k], txn |-> t, amount |-> credit[t]] :
                                   t \in rows[k].incomes} : k \in DOMAIN rows}]

\* validate_invariant, on the rows just written.
ValidSplit(d, s) ==
    /\ LinksOf(d, s) # {}
    /\ Balanced(d, s)
    /\ \A g, h \in SharesOf(d, s) :
          d.share[g].payee = d.share[h].payee /\ d.share[g].payee # NoPayee => g = h

\* Mutant: saving makes the split live again.
SaveRevived(d, taken, s, exps, rows, credit) ==
    LET new == InsertRows(d, s, exps, rows, NewShareIds(taken, rows), credit)
    IN  Result(ValidSplit(new, s), [new EXCEPT !.split = [@ EXCEPT ![s] = "live"]], {s})

SaveSplit(d, taken, s, exps, rows, credit) ==
    LET new == InsertRows(d, s, exps, rows, NewShareIds(taken, rows), credit)
    IN  Result(ValidSplit(new, s), new, {s})

-----------------------------------------------------------------------------
(***************************************************************************)
(* create_split                                                            *)
(***************************************************************************)
CreateSplitOk(v, exps, body) ==
    /\ \A t \in exps : SplitParent(v, t, {})
    /\ \A p \in DOMAIN body : \A t \in body[p].incomes : IsIncome(v, t) /\ CreditsOf(v, t) = {}
    /\ BodyFits(v, exps, body, FullCredit(v))

CreateSplitWrite(v, d, taken, exps, body) ==
    LET credit == FullCredit(v)
    IN  SaveSplit(d, taken, NewSplitId(d), exps, BodyRows(body, credit), credit)

(***************************************************************************)
(* update_split (PUT): delete the split's links, settlements and shares,   *)
(* and recreate them from the body.                                        *)
(***************************************************************************)
UpdateSplitOk(v, s, exps, body) ==
    /\ IsLive(v.split, s)
    /\ \A t \in exps : SplitParent(v, t, LinksOf(v, s))
    /\ \A p \in DOMAIN body : \A t \in body[p].incomes :
          /\ IsIncome(v, t)
          /\ \A x, y \in CreditsOf(v, t) : x = y
          /\ \A x \in CreditsOf(v, t) : x.share \in SharesOf(v, s)
    /\ BodyFits(v, exps, body, KeptCredit(v, s))

ClearSplit(d, s) ==
    [d EXCEPT !.links = @ \ LinksOf(d, s),
              !.share = [h \in DOMAIN d.share \ SharesOf(d, s) |-> d.share[h]],
              !.paid  = {x \in @ : x.share \notin SharesOf(d, s)}]

UpdateSplitWrite(v, d, taken, s, exps, body) ==
    LET credit == KeptCredit(v, s)
    IN  SaveSplit(ClearSplit(d, s), taken, s, exps, BodyRows(body, credit), credit)

(***************************************************************************)
(* bundle_split: past expenses, the incomes that repaid them (one settled  *)
(* share per payee), write-offs (payee |-> amount), and the rest as the    *)
(* user's own share.                                                       *)
(***************************************************************************)
WriteOffTotal(offs) == MapThenSumSet(LAMBDA p : offs[p], DOMAIN offs)

BundleRest(v, exps, incs, offs) == TxnTotal(v, exps) - TxnTotal(v, incs) - WriteOffTotal(offs)

BundleSplitOk(v, exps, incs, offs) ==
    /\ \A t \in exps : SplitParent(v, t, {})
    /\ \A t \in incs : IsIncome(v, t) /\ CreditsOf(v, t) = {}
    /\ BundleRest(v, exps, incs, offs) >= 0
    /\ \A t \in incs : v.txn[t].amount <= TxnTotal(v, exps)
    /\ \A p \in DOMAIN offs : offs[p] <= TxnTotal(v, exps)

PayerOf(v, t) == IF TxnPayee[t] \in DOMAIN v.payee THEN TxnPayee[t] ELSE NoPayee

BundleRow(payee, amount, forgiven, status, incomes) ==
    [payee |-> payee, amount |-> amount, forgiven |-> forgiven,
     status |-> status, incomes |-> incomes]

BundleRows(v, exps, incs, offs) ==
    LET Group(p) == {t \in incs : PayerOf(v, t) = p}
        rest     == BundleRest(v, exps, incs, offs)
        groups   == {"income"} \X {PayerOf(v, t) : t \in incs}
        writeOff == {"forgiven"} \X DOMAIN offs
        own      == IF rest > 0 THEN {<<"own", NoPayee>>} ELSE {}
    IN  [k \in groups \cup writeOff \cup own |->
            CASE k \in groups ->
                   BundleRow(k[2], TxnTotal(v, Group(k[2])), 0, "settled", Group(k[2]))
              [] k \in writeOff -> BundleRow(k[2], offs[k[2]], offs[k[2]], "forgiven", {})
              [] OTHER -> BundleRow(NoPayee, rest, 0, "pending", {})]

BundleSplitWrite(v, d, taken, exps, incs, offs) ==
    SaveSplit(d, taken, NewSplitId(d), exps, BundleRows(v, exps, incs, offs), FullCredit(v))

(***************************************************************************)
(* delete_split: free the linked transactions, keep the shares.            *)
(***************************************************************************)
DeleteSplitOk(v, s) == IsLive(v.split, s)

\* Mutants: deleting a split leaves its settlements, or its links.
DeleteKeepsPaid(v, d, s) ==
    Result(TRUE, [d EXCEPT !.links = @ \ LinksOf(d, s),
                           !.split = [@ EXCEPT ![s] = "deleted"]], {})

DeleteKeepsLinks(v, d, s) ==
    Result(TRUE, [d EXCEPT !.paid = {x \in @ : x.share \notin SharesOf(d, s)},
                           !.split = [@ EXCEPT ![s] = "deleted"]], {})

DeleteSplitWrite(v, d, s) ==
    Result(TRUE,
           [d EXCEPT !.links = @ \ LinksOf(d, s),
                     !.paid  = {x \in @ : x.share \notin SharesOf(d, s)},
                     !.split = [z \in DOMAIN d.split |->
                                   IF z = s THEN "deleted" ELSE d.split[z]]],
           {})

-----------------------------------------------------------------------------
(***************************************************************************)
(* The handlers on one share of a live split.                              *)
(***************************************************************************)
ShareFound(v, h) == h \in DOMAIN v.share /\ IsLive(v.split, v.share[h].split)

\* patch_share; fields names the columns the body sets
PatchShareOk(v, h, fields, amount, payee) ==
    /\ ShareFound(v, h)
    /\ "amount" \in fields => amount >= Paid(v, h) + v.share[h].forgiven
    /\ "payee" \in fields /\ payee # NoPayee =>
          \A g \in SharesOf(v, v.share[h].split) \ {h} : v.share[g].payee # payee

PatchShareWrite(v, d, h, fields, amount, payee) ==
    LET new == [v.share[h] EXCEPT !.amount = IF "amount" \in fields THEN amount ELSE @,
                                  !.payee  = IF "payee" \in fields THEN payee ELSE @]
    IN  Result(h \in DOMAIN d.share, UpdateShare(v, d, h, new), {v.share[h].split})

\* Mutant: the income is not looked up in other shares.
SettleTakenIncome(v, h, t, credit) ==
    /\ ShareFound(v, h)
    /\ IsIncome(v, t)
    /\ Paid(v, h) + v.share[h].forgiven < v.share[h].amount
    /\ Paid(v, h) + v.share[h].forgiven + credit <= v.share[h].amount

\* settle_share
SettleShareOk(v, h, t, credit) ==
    /\ ShareFound(v, h)
    /\ IsIncome(v, t)
    /\ CreditsOf(v, t) = {}
    /\ Paid(v, h) + v.share[h].forgiven < v.share[h].amount
    /\ Paid(v, h) + v.share[h].forgiven + credit <= v.share[h].amount

SettleShareWrite(v, d, h, t, credit) ==
    LET share == v.share[h]
        paid  == Paid(v, h) + credit
        saved == SaveShare(v, d, h,
                   [share EXCEPT !.status = DeriveStatus(share.amount, paid, share.forgiven)])
        twice == \E x \in d.paid : x.share = h /\ x.txn = t
    IN  Result(saved.reached /\ ~twice,
               [saved.db EXCEPT !.paid =
                  @ \cup {[share |-> h, txn |-> t, amount |-> credit]}],
               saved.touched)

\* unlink_settlement
UnlinkSettlementOk(v, h, x) == ShareFound(v, h) /\ x \in SettlementsOf(v, h)

\* Mutant: the status is not derived again.
UnlinkKeepsStatus(v, d, h, x) == Result(TRUE, [d EXCEPT !.paid = @ \ {x}], {})

UnlinkSettlementWrite(v, d, h, x) ==
    LET share    == v.share[h]
        unlinked == [d EXCEPT !.paid = @ \ {x}]
    IN  SaveShare(v, unlinked, h,
          [share EXCEPT !.status =
             DeriveStatus(share.amount, Paid(unlinked, h), share.forgiven)])

\* Mutant: what was received is not counted.
ForgivePaidShare(v, h, amount) == ShareFound(v, h) /\ amount <= v.share[h].amount

\* forgive_share: the amount replaces what was forgiven before
ForgiveShareOk(v, h, amount) ==
    ShareFound(v, h) /\ Paid(v, h) + amount <= v.share[h].amount

ForgiveShareWrite(v, d, h, amount) ==
    LET share == v.share[h]
    IN  SaveShare(v, d, h,
          [share EXCEPT !.forgiven = amount,
                        !.status = DeriveStatus(share.amount, Paid(v, h), amount)])

\* unsettle_share
UnsettleShareOk(v, h) ==
    ShareFound(v, h) /\ ~(v.share[h].status = "pending" /\ v.share[h].forgiven = 0)

UnsettleShareWrite(v, d, h) ==
    SaveShare(v, [d EXCEPT !.paid = @ \ SettlementsOf(d, h)], h,
              [v.share[h] EXCEPT !.forgiven = 0, !.status = "pending"])
=============================================================================
