--------------------------- MODULE LedgerHandlers ---------------------------
(***************************************************************************)
(* The handlers outside routers/splits.py that change the rows splits hang *)
(* on: transactions (routers/transactions.py), the replacement of a        *)
(* duplicate by an imported record (routers/imports.py), payees            *)
(* (routers/payees.py), the passing of the 30 days, and the daily purge    *)
(* (workers/purge_worker.py).  Check and write as in SplitHandlers.        *)
(***************************************************************************)
EXTENDS SplitHandlers

SetState(table, id, state) ==
    [z \in DOMAIN table |-> IF z = id THEN state ELSE table[z]]

SetTxnState(d, T, state) ==
    [t \in DOMAIN d.txn |-> IF t \in T THEN [d.txn[t] EXCEPT !.state = state] ELSE d.txn[t]]

InsertTxn(d, t, type, amount) ==
    [z \in DOMAIN d.txn \cup {t} |->
        IF z \in DOMAIN d.txn THEN d.txn[z]
        ELSE [type |-> type, amount |-> amount, state |-> "live"]]

\* create_transaction (income or expense)
CreateTxnWrite(d, t, type, amount) ==
    Result(t \notin DOMAIN d.txn, [d EXCEPT !.txn = InsertTxn(d, t, type, amount)], {})

\* patch_transaction: type and amount; nothing is asked of a split the
\* transaction may be linked to
PatchTxnOk(v, t) == LiveTxn(v, t)

PatchTxnWrite(v, d, t, type, amount) ==
    LET Patched(row) ==
            [row EXCEPT !.type = Column(v.txn[t].type, type, @),
                        !.amount = Column(v.txn[t].amount, amount, @)]
    IN  Result(t \in DOMAIN d.txn,
               [d EXCEPT !.txn = [z \in DOMAIN d.txn |->
                                     IF z = t THEN Patched(d.txn[z]) ELSE d.txn[z]]],
               {})

\* delete_transaction: refused while the transaction is linked to a split
DeleteTxnOk(v, t) == LiveTxn(v, t) /\ ~IsLinked(v, t) /\ CreditsOf(v, t) = {}

DeleteTxnWrite(d, t) ==
    Result(t \in DOMAIN d.txn, [d EXCEPT !.txn = SetTxnState(d, {t}, "deleted")], {})

\* restore_transaction: within 30 days
RestoreTxnOk(v, t) == t \in DOMAIN v.txn /\ v.txn[t].state = "deleted"

RestoreTxnWrite(d, t) ==
    Result(t \in DOMAIN d.txn, [d EXCEPT !.txn = SetTxnState(d, {t}, "live")], {})

\* replace_existing: soft-delete the live transactions among olds and insert
\* the imported one
ReplaceTxnsWrite(v, d, olds, t, type, amount) ==
    LET found   == {z \in olds : LiveTxn(v, z)}
        deleted == [d EXCEPT !.txn = SetTxnState(d, found, "deleted")]
    IN  Result(found \subseteq DOMAIN d.txn /\ t \notin DOMAIN d.txn,
               [deleted EXCEPT !.txn = InsertTxn(deleted, t, type, amount)], {})

\* delete_payee, restore_payee
DeletePayeeOk(v, p) == IsLive(v.payee, p)
DeletePayeeWrite(d, p) ==
    Result(p \in DOMAIN d.payee, [d EXCEPT !.payee = SetState(d.payee, p, "deleted")], {})

RestorePayeeOk(v, p) == p \in DOMAIN v.payee /\ v.payee[p] = "deleted"
RestorePayeeWrite(d, p) ==
    Result(p \in DOMAIN d.payee, [d EXCEPT !.payee = SetState(d.payee, p, "live")], {})

-----------------------------------------------------------------------------
(***************************************************************************)
(* Retention.  Every soft-deleted row leaves its 30-day window at its own  *)
(* time; the purge then removes all such rows in one database transaction. *)
(* split_expenses restrict the removal, settlements go with their income,  *)
(* shares lose a purged payee (which fires the split trigger).             *)
(***************************************************************************)
ExpireTxn(d, t) ==
    Result(t \in DOMAIN d.txn /\ d.txn[t].state = "deleted",
           [d EXCEPT !.txn = SetTxnState(d, {t}, "expired")], {})

ExpirePayee(d, p) ==
    Result(p \in DOMAIN d.payee /\ d.payee[p] = "deleted",
           [d EXCEPT !.payee = SetState(d.payee, p, "expired")], {})

ExpiredTxns(d) == {t \in DOMAIN d.txn : d.txn[t].state = "expired"}
ExpiredPayees(d) == {p \in DOMAIN d.payee : d.payee[p] = "expired"}

\* Rows a pending purge would fail on
PurgeBlockers(d) == {t \in ExpiredTxns(d) : IsLinked(d, t)}

\* Mutant: split_expenses rows go with their transaction.
PurgeCascades(d) ==
    LET txns == ExpiredTxns(d)
    IN  Result(TRUE,
               [d EXCEPT !.txn   = [t \in DOMAIN d.txn \ txns |-> d.txn[t]],
                         !.paid  = {x \in @ : x.txn \notin txns},
                         !.links = {l \in @ : l.txn \notin txns}],
               {})

PurgeWrite(d) ==
    LET txns   == ExpiredTxns(d)
        payees == ExpiredPayees(d)
        hit    == {h \in DOMAIN d.share : d.share[h].payee \in payees}
    IN  Result(PurgeBlockers(d) = {},
               [d EXCEPT
                  !.txn   = [t \in DOMAIN d.txn \ txns |-> d.txn[t]],
                  !.paid  = {x \in @ : x.txn \notin txns},
                  !.payee = [p \in DOMAIN d.payee \ payees |-> d.payee[p]],
                  !.share = [h \in DOMAIN d.share |->
                                IF h \in hit THEN [d.share[h] EXCEPT !.payee = NoPayee]
                                ELSE d.share[h]]],
               {d.share[h].split : h \in hit})
=============================================================================
