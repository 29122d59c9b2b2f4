----------------------------- MODULE RaceProofs -----------------------------
(***************************************************************************)
(* Proofs about SplitRaces, for every value of its constants: any number   *)
(* of workers and requests, on any databases.                              *)
(*                                                                         *)
(* What a request in flight read may be out of date; two things about it   *)
(* are not.  Splits are never removed, so that the split it found is still *)
(* there, live or deleted; and a share id is never used for another split, *)
(* as new ids are not among those some request has read (Seen).  Each      *)
(* handler is a function from the database it finds, v being the one it    *)
(* read, to the one it leaves, and Moved is what it owes.                  *)
(***************************************************************************)
EXTENDS SplitRaces, TableProofs

\* What a request in flight read of a database that has since become d.
Seen(v, d) ==
    /\ IsDatabase(v)
    /\ DOMAIN v.split \subseteq DOMAIN d.split
    /\ \A h \in DOMAIN v.share \cap DOMAIN d.share : v.share[h].split = d.share[h].split

Requests ==
    [op : {"create"}, exps : SUBSET TxnIds, body : Bodies]
    \cup [op : {"update"}, split : SplitIds, exps : SUBSET TxnIds, body : Bodies]
    \cup [op : {"delete"}, split : SplitIds]
    \cup [op : {"patch"}, share : ShareIds, amount : Amounts]
    \cup [op : {"assign"}, share : ShareIds, payee : PayeeRef]
    \cup [op : {"settle"}, share : ShareIds, txn : TxnIds, amount : Amounts]
    \cup [op : {"unlink"}, share : ShareIds, settlement : Settlement]
    \cup [op : {"forgive"}, share : ShareIds, amount : Amounts \cup {0}]
    \cup [op : {"unsettle"}, share : ShareIds]
    \cup [op : {"patchTxn"}, txn : TxnIds, value : TxnValues]
    \cup [op : {"deleteTxn", "restoreTxn"}, txn : TxnIds]

Pending(p, d) ==
    p.request \in Requests /\ Accepts(p.view, p.request) /\ Seen(p.view, d)

IInv ==
    /\ IsDatabase(db) /\ Constraints(db) /\ Populated(db)
    /\ DOMAIN slot = Workers
    /\ \A w \in Workers : slot[w] # Idle => Pending(slot[w], db)
    /\ requests \in 0..MaxRequests

\* NoLostUpdates, of a step from d to n that a request of kind op makes.
OwnColumns(d, n, op) ==
    \A h \in DOMAIN d.share \cap DOMAIN n.share :
        /\ n.share[h].amount # d.share[h].amount => op = "patch"
        /\ n.share[h].payee # d.share[h].payee => op = "assign"
        /\ n.share[h].forgiven # d.share[h].forgiven => op \in {"forgive", "unsettle"}
        /\ n.share[h].status # d.share[h].status => op \in {"settle", "unlink", "forgive", "unsettle"}

\* What a step from d to n owes, with no id of taken new in n.
Moved(d, n, touched, taken) ==
    /\ IsDatabase(n) /\ Populated(n) /\ Untouched(d, n, touched)
    /\ DOMAIN d.split \subseteq DOMAIN n.split
    /\ \A s \in DOMAIN d.split : d.split[s] = "deleted" => n.split[s] = "deleted"
    /\ \A h \in DOMAIN n.share : IF h \in DOMAIN d.share THEN n.share[h].split = d.share[h].split
                                 ELSE h \notin taken

\* A database as the handlers find it, and what they read of it before.
Base(v, d) == IsDatabase(d) /\ Constraints(d) /\ Populated(d) /\ Seen(v, d)

-----------------------------------------------------------------------------
(***************************************************************************)
(* Handlers on one share.                                                  *)
(***************************************************************************)

\* What a share handler finds in what it read.
LEMMA ShareRead ==
    ASSUME NEW v, NEW d, NEW h, Seen(v, d), ShareFound(v, h)
    PROVE  /\ h \in DOMAIN v.share /\ v.share[h] \in ShareRow
           /\ h \in DOMAIN d.share => v.share[h].split = d.share[h].split
BY DEF Seen, ShareFound, IsDatabase, IsTable

\* A step that updates shares moves no share to another split, and touches the
\* split of a share whose amount it changes.
LEMMA SharesUpdatedMoved ==
    ASSUME NEW d, NEW n, NEW touched, NEW taken,
           IsDatabase(d), Populated(d), Constraints(n), SharesUpdated(d, n),
           \A x \in n.paid \ d.paid : x = [share |-> x.share, txn |-> x.txn, amount |-> x.amount],
           \A h \in DOMAIN d.share : n.share[h].amount # d.share[h].amount => d.share[h].split \in touched
    PROVE  Moved(d, n, touched, taken)
<1>1. DOMAIN n.share = DOMAIN d.share /\ IsTable(n.share, ShareIds, ShareRow)
  BY DEF SharesUpdated, IsDatabase, IsTable
<1>2. n.paid \subseteq Settlement
  <2>1. ASSUME NEW x \in n.paid \ d.paid PROVE x \in Settlement
    <3>1. x.amount \in Money /\ x.share \in DOMAIN n.share /\ x.txn \in DOMAIN n.txn
      BY DEF Constraints, ColumnDomains, ForeignKeys
    <3>2. x.share \in ShareIds /\ x.txn \in TxnIds
      BY <1>1, <3>1 DEF SharesUpdated, IsDatabase, IsTable
    <3> QED  BY <3>1, <3>2 DEF Settlement
  <2> QED  BY <2>1 DEF IsDatabase
<1>3. IsDatabase(n)
  BY <1>1, <1>2 DEF IsDatabase, SharesUpdated
<1>4. \A s : SharesOf(n, s) = SharesOf(d, s) /\ LinksOf(n, s) = LinksOf(d, s)
  BY <1>1 DEF SharesOf, LinksOf, SharesUpdated
<1>5. Populated(n)
  BY <1>4 DEF Populated, SharesUpdated
<1>6. Untouched(d, n, touched)
  BY <1>4 DEF Untouched, SharesUpdated, SharesOf
<1> QED  BY <1>1, <1>3, <1>5, <1>6 DEF Moved, SharesUpdated

\* patch_share: a body with an amount, or with a payee.
LEMMA PatchShareMoved ==
    ASSUME NEW v, NEW d, NEW taken, NEW h, NEW fields, NEW amount, NEW payee \in PayeeRef,
           Base(v, d), PatchShareOk(v, h, fields, amount, payee),
           Commits(PatchShareWrite(v, d, h, fields, amount, payee))
    PROVE  LET res == PatchShareWrite(v, d, h, fields, amount, payee)
           IN  /\ Moved(d, res.db, res.touched, taken)
               /\ fields = {"amount"} => OwnColumns(d, res.db, "patch")
               /\ fields = {"payee"} => OwnColumns(d, res.db, "assign")
<1> DEFINE new == [v.share[h] EXCEPT !.amount = IF "amount" \in fields THEN amount ELSE @,
                                     !.payee  = IF "payee" \in fields THEN payee ELSE @]
           n == UpdateShare(v, d, h, new)
<1>1. /\ PatchShareWrite(v, d, h, fields, amount, payee).db = n
      /\ PatchShareWrite(v, d, h, fields, amount, payee).touched = {v.share[h].split}
      /\ h \in DOMAIN d.share /\ Constraints(n)
  BY DEF PatchShareWrite, Commits, CommitAccepts, Result
<1>2. v.share[h] \in ShareRow /\ v.share[h].split = d.share[h].split
  BY <1>1, ShareRead DEF Base, PatchShareOk
<1>3. /\ new.payee \in PayeeRef /\ new.status \in Statuses
      /\ new.forgiven = v.share[h].forgiven /\ new.status = v.share[h].status
      /\ "amount" \notin fields => new.amount = v.share[h].amount
      /\ "payee" \notin fields => new.payee = v.share[h].payee
  BY <1>2 DEF ShareRow
<1> HIDE DEF new
<1>4. SharesUpdated(d, n) /\ n.paid = d.paid
  BY <1>1, <1>3, UpdateShareFacts DEF Base, Constraints
<1>5. \A g \in DOMAIN d.share :
         /\ g # h => n.share[g] = d.share[g]
         /\ n.share[g].forgiven = d.share[g].forgiven /\ n.share[g].status = d.share[g].status
         /\ "amount" \notin fields => n.share[g].amount = d.share[g].amount
         /\ "payee" \notin fields => n.share[g].payee = d.share[g].payee
  BY <1>3, UpdateShareColumns DEF Base
<1> HIDE DEF n
<1>6. Moved(d, n, {v.share[h].split}, taken)
  BY <1>1, <1>2, <1>4, <1>5, SharesUpdatedMoved DEF Base
<1>7. /\ fields = {"amount"} => OwnColumns(d, n, "patch")
      /\ fields = {"payee"} => OwnColumns(d, n, "assign")
  BY <1>5 DEF OwnColumns
<1> QED  BY <1>1, <1>6, <1>7

\* A payment handler saves what is forgiven and the status, of a share it read,
\* after taking settlements away at most.
LEMMA PaymentMoved ==
    ASSUME NEW v, NEW d, NEW e, NEW taken, NEW touched, NEW h, NEW new,
           Base(v, d), ShareFound(v, h), IsDatabase(e),
           e.txn = d.txn, e.payee = d.payee, e.split = d.split, e.share = d.share,
           e.links = d.links, e.paid \subseteq d.paid,
           new.payee = v.share[h].payee, new.amount = v.share[h].amount, new.status \in Statuses,
           Constraints(UpdateShare(v, e, h, new))
    PROVE  LET n == UpdateShare(v, e, h, new)
           IN  /\ Moved(d, n, touched, taken)
               /\ OwnColumns(d, n, "forgive") /\ OwnColumns(d, n, "unsettle")
               /\ new.forgiven = v.share[h].forgiven => OwnColumns(d, n, "settle") /\ OwnColumns(d, n, "unlink")
<1> DEFINE n == UpdateShare(v, e, h, new)
<1>1. v.share[h].payee \in PayeeRef
  BY ShareRead DEF Base, ShareRow
<1>2. SharesUpdated(e, n) /\ n.paid = e.paid
  BY <1>1, UpdateShareFacts DEF Constraints
<1>3. \A g \in DOMAIN d.share :
         /\ n.share[g].amount = d.share[g].amount /\ n.share[g].payee = d.share[g].payee
         /\ new.forgiven = v.share[h].forgiven => n.share[g].forgiven = d.share[g].forgiven
  BY UpdateShareColumns
<1>4. Constraints(n)
  OBVIOUS
<1> HIDE DEF n
<1>5. SharesUpdated(d, n)
  BY <1>2 DEF SharesUpdated, IsDatabase, Base
<1>6. Moved(d, n, touched, taken)
  BY <1>2, <1>3, <1>4, <1>5, SharesUpdatedMoved DEF Base
<1>7. /\ OwnColumns(d, n, "forgive") /\ OwnColumns(d, n, "unsettle")
      /\ new.forgiven = v.share[h].forgiven => OwnColumns(d, n, "settle") /\ OwnColumns(d, n, "unlink")
  BY <1>3 DEF OwnColumns
<1> QED  BY <1>6, <1>7 DEF n

\* The database without some settlements.
LEMMA WithoutSettlements ==
    ASSUME NEW d, NEW P, IsDatabase(d), P \subseteq d.paid
    PROVE  LET e == [d EXCEPT !.paid = P]
           IN  /\ IsDatabase(e)
               /\ e.txn = d.txn /\ e.payee = d.payee /\ e.split = d.split
               /\ e.share = d.share /\ e.links = d.links /\ e.paid \subseteq d.paid
BY DEF IsDatabase

\* forgive_share
LEMMA ForgiveShareMoved ==
    ASSUME NEW v, NEW d, NEW taken, NEW h, NEW amount, Base(v, d),
           ForgiveShareOk(v, h, amount), Commits(ForgiveShareWrite(v, d, h, amount))
    PROVE  LET res == ForgiveShareWrite(v, d, h, amount)
           IN  Moved(d, res.db, res.touched, taken) /\ OwnColumns(d, res.db, "forgive")
<1> DEFINE status == DeriveStatus(v.share[h].amount, Paid(v, h), amount)
           new == [v.share[h] EXCEPT !.forgiven = amount, !.status = status]
           n == UpdateShare(v, d, h, new)
<1>1. ForgiveShareWrite(v, d, h, amount).db = n /\ Constraints(n)
  BY DEF ForgiveShareWrite, SaveShare, Commits, CommitAccepts, Result
<1>2. ShareFound(v, h) /\ v.share[h] \in ShareRow
  BY ShareRead DEF Base, ForgiveShareOk
<1>3. new.payee = v.share[h].payee /\ new.amount = v.share[h].amount /\ new.status = status
  BY <1>2 DEF ShareRow
<1>4. status \in Statuses
  BY DeriveStatusType
<1> HIDE DEF new, status
<1> QED  BY <1>1, <1>2, <1>3, <1>4, PaymentMoved DEF Base

\* unlink_settlement
LEMMA UnlinkSettlementMoved ==
    ASSUME NEW v, NEW d, NEW taken, NEW h, NEW x, Base(v, d),
           UnlinkSettlementOk(v, h, x), Commits(UnlinkSettlementWrite(v, d, h, x))
    PROVE  LET res == UnlinkSettlementWrite(v, d, h, x)
           IN  Moved(d, res.db, res.touched, taken) /\ OwnColumns(d, res.db, "unlink")
<1> DEFINE P == d.paid \ {x}
           e == [d EXCEPT !.paid = P]
           status == DeriveStatus(v.share[h].amount, Paid(e, h), v.share[h].forgiven)
           new == [v.share[h] EXCEPT !.status = status]
           n == UpdateShare(v, e, h, new)
<1>1. UnlinkSettlementWrite(v, d, h, x).db = n /\ Constraints(n)
  BY DEF UnlinkSettlementWrite, SaveShare, Commits, CommitAccepts, Result
<1>2. ShareFound(v, h) /\ v.share[h] \in ShareRow
  BY ShareRead DEF Base, UnlinkSettlementOk
<1>3. /\ new.payee = v.share[h].payee /\ new.amount = v.share[h].amount
      /\ new.forgiven = v.share[h].forgiven /\ new.status = status
  BY <1>2 DEF ShareRow
<1>4. status \in Statuses
  BY DeriveStatusType
<1>5. /\ IsDatabase(e)
      /\ e.txn = d.txn /\ e.payee = d.payee /\ e.split = d.split
      /\ e.share = d.share /\ e.links = d.links /\ e.paid \subseteq d.paid
  BY WithoutSettlements DEF Base
<1> HIDE DEF new, status, e
<1> QED  BY <1>1, <1>2, <1>3, <1>4, <1>5, PaymentMoved

\* unsettle_share
LEMMA UnsettleShareMoved ==
    ASSUME NEW v, NEW d, NEW taken, NEW h, Base(v, d),
           UnsettleShareOk(v, h), Commits(UnsettleShareWrite(v, d, h))
    PROVE  LET res == UnsettleShareWrite(v, d, h)
           IN  Moved(d, res.db, res.touched, taken) /\ OwnColumns(d, res.db, "unsettle")
<1> DEFINE P == d.paid \ SettlementsOf(d, h)
           e == [d EXCEPT !.paid = P]
           new == [v.share[h] EXCEPT !.forgiven = 0, !.status = "pending"]
           n == UpdateShare(v, e, h, new)
<1>1. UnsettleShareWrite(v, d, h).db = n /\ Constraints(n)
  BY DEF UnsettleShareWrite, SaveShare, Commits, CommitAccepts, Result
<1>2. ShareFound(v, h) /\ v.share[h] \in ShareRow
  BY ShareRead DEF Base, UnsettleShareOk
<1>3. /\ new.payee = v.share[h].payee /\ new.amount = v.share[h].amount
      /\ new.status \in Statuses
  BY <1>2 DEF ShareRow, Statuses
<1>4. /\ IsDatabase(e)
      /\ e.txn = d.txn /\ e.payee = d.payee /\ e.split = d.split
      /\ e.share = d.share /\ e.links = d.links /\ e.paid \subseteq d.paid
  BY WithoutSettlements DEF Base
<1> HIDE DEF new, e
<1> QED  BY <1>1, <1>2, <1>3, <1>4, PaymentMoved

\* settle_share, which may credit an income another request has credited since.
LEMMA SettleShareMoved ==
    ASSUME NEW v, NEW d, NEW taken, NEW h, NEW t, NEW credit, Base(v, d),
           SettleShareOk(v, h, t, credit), Commits(SettleShareWrite(v, d, h, t, credit))
    PROVE  LET res == SettleShareWrite(v, d, h, t, credit)
           IN  Moved(d, res.db, res.touched, taken) /\ OwnColumns(d, res.db, "settle")
<1> DEFINE status == DeriveStatus(v.share[h].amount, Paid(v, h) + credit, v.share[h].forgiven)
           new == [v.share[h] EXCEPT !.status = status]
           u == UpdateShare(v, d, h, new)
           x == [share |-> h, txn |-> t, amount |-> credit]
           n == SettleShareWrite(v, d, h, t, credit).db
           touched == SettleShareWrite(v, d, h, t, credit).touched
<1>1. n = [u EXCEPT !.paid = @ \cup {x}] /\ Constraints(n)
  <2>1. SettleShareWrite(v, d, h, t, credit).db
        = [SaveShare(v, d, h, new).db EXCEPT !.paid = @ \cup {x}]
    BY DEF SettleShareWrite, Result
  <2>2. SaveShare(v, d, h, new).db = u
    BY DEF SaveShare, Result
  <2>3. Constraints(n)
    BY DEF Commits, CommitAccepts
  <2> HIDE DEF new, u, x, n
  <2> QED  BY <2>1, <2>2, <2>3 DEF n
<1>2. v.share[h] \in ShareRow
  BY ShareRead DEF Base, SettleShareOk
<1>3. /\ new.payee = v.share[h].payee /\ new.amount = v.share[h].amount
      /\ new.forgiven = v.share[h].forgiven /\ new.status = status
      /\ v.share[h].payee \in PayeeRef
  BY <1>2 DEF ShareRow
<1>4. status \in Statuses
  BY DeriveStatusType
<1> HIDE DEF new, status, n, touched
<1>5. DOMAIN u = {"txn", "payee", "split", "share", "links", "paid"}
  BY DEF UpdateShare, Base, IsDatabase
<1>6. \A g \in DOMAIN d.share :
         /\ u.share[g].amount = d.share[g].amount /\ u.share[g].payee = d.share[g].payee
         /\ u.share[g].forgiven = d.share[g].forgiven
  BY <1>3, UpdateShareColumns DEF Base
<1>7. SharesUpdated(d, u) /\ u.paid = d.paid
  <2> HIDE DEF u
  <2>1. n.share = u.share /\ u.paid \subseteq n.paid
    BY <1>1, <1>5
  <2>2. ColumnDomains(u)
    BY <1>1, <2>1 DEF Constraints, ColumnDomains
  <2> QED  BY <1>3, <1>4, <2>2, UpdateShareFacts DEF Base, u
<1> HIDE DEF u
<1>8. SharesUpdated(d, n) /\ n.share = u.share /\ n.paid = d.paid \cup {x}
  BY <1>1, <1>5, <1>7 DEF SharesUpdated
<1>9. Moved(d, n, touched, taken)
  <2>1. \A y \in n.paid \ d.paid : y = [share |-> y.share, txn |-> y.txn, amount |-> y.amount]
    BY <1>8
  <2>2. \A g \in DOMAIN d.share : n.share[g].amount = d.share[g].amount
    BY <1>6, <1>8
  <2> HIDE DEF x
  <2> QED  BY <1>1, <1>8, <2>1, <2>2, SharesUpdatedMoved DEF Base
<1>10. OwnColumns(d, n, "settle")
  BY <1>6, <1>8 DEF OwnColumns
<1> QED  BY <1>9, <1>10 DEF n, touched

-----------------------------------------------------------------------------
(***************************************************************************)
(* Handlers on a whole split.                                              *)
(***************************************************************************)

\* Writing a split inserts shares under new ids, whole, and leaves the others.
LEMMA SaveSplitMoved ==
    ASSUME NEW d, NEW e, NEW s \in SplitIds, NEW exps \in SUBSET TxnIds,
           NEW rows, NEW taken, NEW credit, NEW op,
           IsDatabase(d), Populated(d), IsDatabase(e), Emptied(d, e, s),
           DOMAIN d.share \subseteq taken, HasShareIds(taken, rows),
           \A k \in DOMAIN rows : rows[k].payee \in PayeeRef /\ rows[k].status \in Statuses,
           Commits(SaveSplit(e, taken, s, exps, rows, credit))
    PROVE  LET res == SaveSplit(e, taken, s, exps, rows, credit)
           IN  Moved(d, res.db, res.touched, taken) /\ OwnColumns(d, res.db, op)
<1> DEFINE ids == NewShareIds(taken, rows)
           n == InsertRows(e, s, exps, rows, ids, credit)
<1>1. /\ SaveSplit(e, taken, s, exps, rows, credit).db = n
      /\ SaveSplit(e, taken, s, exps, rows, credit).touched = {s}
      /\ ValidSplit(n, s) /\ Constraints(n)
  BY DEF SaveSplit, Commits, CommitAccepts, Result
<1>2. DOMAIN e.share \subseteq taken
  BY DEF Emptied
<1>3. ids \in [DOMAIN rows -> ShareIds \ taken] /\ IsInjective(ids)
  BY NewShareIdsFacts
<1> HIDE DEF ids
<1>4. IsDatabase(n)
  BY <1>1, <1>2, <1>3, InsertRowsType
<1>5. Inserted(e, n, s, exps, rows, ids, credit)
  BY <1>2, <1>3, InsertRowsFacts
<1> HIDE DEF n
<1>6. LinksOf(n, s) # {} /\ SharesOf(n, s) # {}
  BY <1>1, <1>4, ValidSplitPopulated
<1>7. \A z \in DOMAIN n.split \ {s} :
         /\ z \in DOMAIN d.split /\ n.split[z] = d.split[z]
         /\ SharesOf(n, z) = SharesOf(d, z) /\ LinksOf(n, z) = LinksOf(d, z)
         /\ \A h \in SharesOf(d, z) : n.share[h] = d.share[h]
  BY <1>5, OthersStay
<1>8. Populated(n) /\ Untouched(d, n, {s})
  BY <1>6, <1>7 DEF Populated, Untouched
<1>9. \A h \in DOMAIN n.share : IF h \in DOMAIN d.share THEN n.share[h] = d.share[h] ELSE h \notin taken
  <2> TAKE h \in DOMAIN n.share
  <2>1. CASE h \in DOMAIN e.share
    BY <2>1, <1>5 DEF Inserted, Emptied
  <2>2. CASE h \notin DOMAIN e.share
    <3>1. PICK k \in DOMAIN rows : h = ids[k]
      BY <2>2, <1>5 DEF Inserted
    <3> QED  BY <3>1, <1>3
  <2> QED  BY <2>1, <2>2
<1>10. DOMAIN d.split \subseteq DOMAIN n.split /\ \A z \in DOMAIN d.split : n.split[z] = d.split[z]
  BY <1>5 DEF Inserted, Emptied
<1>11. Moved(d, n, {s}, taken)
  BY <1>4, <1>8, <1>9, <1>10 DEF Moved
<1>12. OwnColumns(d, n, op)
  BY <1>9 DEF OwnColumns
<1> QED  BY <1>1, <1>11, <1>12

\* create_split, under an id no split has.
LEMMA CreateSplitMoved ==
    ASSUME NEW v, NEW d, NEW taken, NEW exps \in SUBSET TxnIds, NEW body, Base(v, d),
           DOMAIN d.share \subseteq taken, ValidBody(body), HasSplitId(d), HasShareIds(taken, body),
           Commits(CreateSplitWrite(v, d, taken, exps, body))
    PROVE  LET res == CreateSplitWrite(v, d, taken, exps, body)
           IN  Moved(d, res.db, res.touched, taken) /\ OwnColumns(d, res.db, "create")
<1> DEFINE s == NewSplitId(d)
           rows == BodyRows(body, FullCredit(v))
<1>1. s \in SplitIds /\ s \notin DOMAIN d.split
  BY NewSplitIdFacts
<1>2. CreateSplitWrite(v, d, taken, exps, body) = SaveSplit(d, taken, s, exps, rows, FullCredit(v))
  BY DEF CreateSplitWrite
<1> HIDE DEF s
<1>3. Emptied(d, d, s)
  BY <1>1 DEF Emptied, Base, Constraints, ForeignKeys
<1>4. /\ DOMAIN rows = DOMAIN body
      /\ \A k \in DOMAIN rows : rows[k].payee \in PayeeRef /\ rows[k].status \in Statuses
  BY BodyRowsType
<1> HIDE DEF rows
<1>5. HasShareIds(taken, rows)
  BY <1>4 DEF HasShareIds
<1> QED  BY <1>1, <1>2, <1>3, <1>4, <1>5, SaveSplitMoved DEF Base

\* update_split, of a split that may have been deleted since, or updated.
LEMMA UpdateSplitMoved ==
    ASSUME NEW v, NEW d, NEW taken, NEW s \in SplitIds, NEW exps \in SUBSET TxnIds, NEW body,
           Base(v, d), DOMAIN d.share \subseteq taken, ValidBody(body), HasShareIds(taken, body),
           Commits(UpdateSplitWrite(v, d, taken, s, exps, body))
    PROVE  LET res == UpdateSplitWrite(v, d, taken, s, exps, body)
           IN  Moved(d, res.db, res.touched, taken) /\ OwnColumns(d, res.db, "update")
<1> DEFINE e == ClearSplit(d, s)
           rows == BodyRows(body, KeptCredit(v, s))
<1>1. UpdateSplitWrite(v, d, taken, s, exps, body) = SaveSplit(e, taken, s, exps, rows, KeptCredit(v, s))
  BY DEF UpdateSplitWrite
<1>2. IsDatabase(e) /\ Emptied(d, e, s)
  BY ClearSplitFacts DEF Base
<1> HIDE DEF e
<1>3. /\ DOMAIN rows = DOMAIN body
      /\ \A k \in DOMAIN rows : rows[k].payee \in PayeeRef /\ rows[k].status \in Statuses
  BY BodyRowsType
<1> HIDE DEF rows
<1>4. HasShareIds(taken, rows)
  BY <1>3 DEF HasShareIds
<1> QED  BY <1>1, <1>2, <1>3, <1>4, SaveSplitMoved DEF Base

\* delete_split
LEMMA DeleteSplitMoved ==
    ASSUME NEW v, NEW d, NEW taken, NEW s, Base(v, d)
    PROVE  LET res == DeleteSplitWrite(v, d, s)
           IN  Moved(d, res.db, res.touched, taken) /\ OwnColumns(d, res.db, "delete")
<1> DEFINE n == DeleteSplitWrite(v, d, s).db
           touched == DeleteSplitWrite(v, d, s).touched
<1>1. /\ IsDatabase(n) /\ n.share = d.share
      /\ n.links = d.links \ LinksOf(d, s)
      /\ n.split = [z \in DOMAIN d.split |-> IF z = s THEN "deleted" ELSE d.split[z]]
  BY DeleteSplitRows DEF Base
<1> HIDE DEF n, touched
<1>2. \A z : z # s => SharesOf(n, z) = SharesOf(d, z) /\ LinksOf(n, z) = LinksOf(d, z)
  BY <1>1 DEF SharesOf, LinksOf
<1>3. Populated(n) /\ Untouched(d, n, touched)
  BY <1>1, <1>2 DEF Populated, Untouched, Base
<1>4. Moved(d, n, touched, taken) /\ OwnColumns(d, n, "delete")
  BY <1>1, <1>3 DEF Moved, OwnColumns
<1> QED  BY <1>4 DEF n, touched

-----------------------------------------------------------------------------
(***************************************************************************)
(* Handlers on transactions, the passing of 30 days and the purge.         *)
(***************************************************************************)

\* Rewriting transactions moves no split.
LEMMA TxnTableMoved ==
    ASSUME NEW d, NEW table, NEW touched, NEW taken, NEW op,
           IsDatabase(d), Populated(d), IsTable(table, TxnIds, TxnRow)
    PROVE  LET n == [d EXCEPT !.txn = table]
           IN  Moved(d, n, touched, taken) /\ OwnColumns(d, n, op)
<1> DEFINE n == [d EXCEPT !.txn = table]
<1>1. IsDatabase(n) /\ n.split = d.split /\ n.share = d.share /\ n.links = d.links
  BY TxnTableType
<1> HIDE DEF n
<1>2. \A s : SharesOf(n, s) = SharesOf(d, s) /\ LinksOf(n, s) = LinksOf(d, s)
  BY <1>1 DEF SharesOf, LinksOf
<1>3. Moved(d, n, touched, taken) /\ OwnColumns(d, n, op)
  BY <1>1, <1>2 DEF Moved, Populated, Untouched, OwnColumns
<1> QED  BY <1>3 DEF n

\* patch_transaction, delete_transaction, restore_transaction and the passing of
\* 30 days are of that kind.
LEMMA SetTxnStateMoved ==
    ASSUME NEW d, NEW T, NEW state \in Retention, NEW res, NEW taken, NEW op,
           IsDatabase(d), Populated(d), res.db = [d EXCEPT !.txn = SetTxnState(d, T, state)]
    PROVE  Moved(d, res.db, res.touched, taken) /\ OwnColumns(d, res.db, op)
<1>1. IsTable(SetTxnState(d, T, state), TxnIds, TxnRow)
  BY SetTxnStateType DEF IsDatabase
<1> QED  BY <1>1, TxnTableMoved

\* The purge takes payees from shares.
LEMMA PurgeMoved ==
    ASSUME NEW d, NEW taken, IsDatabase(d), Populated(d)
    PROVE  Moved(d, PurgeWrite(d).db, PurgeWrite(d).touched, taken)
<1> DEFINE n == PurgeWrite(d).db
           touched == PurgeWrite(d).touched
<1>1. /\ IsDatabase(n) /\ n.split = d.split /\ n.links = d.links
      /\ DOMAIN n.share = DOMAIN d.share
      /\ \A h \in DOMAIN d.share : /\ n.share[h].split = d.share[h].split
                                   /\ n.share[h].amount = d.share[h].amount
  BY PurgeRows
<1> HIDE DEF n, touched
<1>2. \A s : SharesOf(n, s) = SharesOf(d, s) /\ LinksOf(n, s) = LinksOf(d, s)
  BY <1>1 DEF SharesOf, LinksOf
<1>3. Moved(d, n, touched, taken)
  BY <1>1, <1>2 DEF Moved, Populated, Untouched, SharesOf
<1> QED  BY <1>3 DEF n, touched

-----------------------------------------------------------------------------
(***************************************************************************)
(* Requests.                                                               *)
(***************************************************************************)

\* Whatever a request asked for, and whatever it read, what it commits is a move
\* that writes no other column than its own.
LEMMA WritesMoved ==
    ASSUME NEW v, NEW d, NEW taken, NEW r \in Requests, Base(v, d), Accepts(v, r),
           DOMAIN d.share \subseteq taken,
           r.op = "create" => HasSplitId(d),
           r.op \in {"create", "update"} => HasShareIds(taken, r.body),
           Commits(Writes(v, d, taken, r))
    PROVE  LET res == Writes(v, d, taken, r)
           IN  Moved(d, res.db, res.touched, taken) /\ OwnColumns(d, res.db, r.op)
<1> DEFINE res == Writes(v, d, taken, r)
<1>1. CASE r.op = "create"
  <2>1. r.exps \in SUBSET TxnIds /\ ValidBody(r.body)
    BY <1>1, RacesAssumption DEF Requests
  <2>2. res = CreateSplitWrite(v, d, taken, r.exps, r.body)
    BY <1>1 DEF Writes
  <2> HIDE DEF res
  <2> QED  BY <1>1, <2>1, <2>2, CreateSplitMoved DEF res
<1>2. CASE r.op = "update"
  <2>1. r.split \in SplitIds /\ r.exps \in SUBSET TxnIds /\ ValidBody(r.body)
    BY <1>2, RacesAssumption DEF Requests
  <2>2. res = UpdateSplitWrite(v, d, taken, r.split, r.exps, r.body)
    BY <1>2 DEF Writes
  <2> HIDE DEF res
  <2> QED  BY <1>2, <2>1, <2>2, UpdateSplitMoved DEF res
<1>3. CASE r.op = "delete"
  <2>1. res = DeleteSplitWrite(v, d, r.split)
    BY <1>3 DEF Writes
  <2> HIDE DEF res
  <2> QED  BY <1>3, <2>1, DeleteSplitMoved DEF res
<1>4. CASE r.op = "patch"
  <2>1. res = PatchShareWrite(v, d, r.share, {"amount"}, r.amount, NoPayee)
    BY <1>4 DEF Writes
  <2>2. PatchShareOk(v, r.share, {"amount"}, r.amount, NoPayee)
    BY <1>4 DEF Accepts
  <2>3. NoPayee \in PayeeRef
    BY DEF PayeeRef
  <2> HIDE DEF res
  <2> QED  BY <1>4, <2>1, <2>2, <2>3, PatchShareMoved DEF res
<1>5. CASE r.op = "assign"
  <2>1. res = PatchShareWrite(v, d, r.share, {"payee"}, 0, r.payee)
    BY <1>5 DEF Writes
  <2>2. PatchShareOk(v, r.share, {"payee"}, 0, r.payee)
    BY <1>5 DEF Accepts
  <2>3. r.payee \in PayeeRef
    BY <1>5 DEF Requests
  <2> HIDE DEF res
  <2> QED  BY <1>5, <2>1, <2>2, <2>3, PatchShareMoved DEF res
<1>6. CASE r.op = "settle"
  <2>1. res = SettleShareWrite(v, d, r.share, r.txn, r.amount)
    BY <1>6 DEF Writes
  <2>2. SettleShareOk(v, r.share, r.txn, r.amount)
    BY <1>6 DEF Accepts
  <2> HIDE DEF res
  <2> QED  BY <1>6, <2>1, <2>2, SettleShareMoved DEF res
<1>7. CASE r.op = "unlink"
  <2>1. res = UnlinkSettlementWrite(v, d, r.share, r.settlement)
    BY <1>7 DEF Writes
  <2>2. UnlinkSettlementOk(v, r.share, r.settlement)
    BY <1>7 DEF Accepts
  <2> HIDE DEF res
  <2> QED  BY <1>7, <2>1, <2>2, UnlinkSettlementMoved DEF res
<1>8. CASE r.op = "forgive"
  <2>1. res = ForgiveShareWrite(v, d, r.share, r.amount)
    BY <1>8 DEF Writes
  <2>2. ForgiveShareOk(v, r.share, r.amount)
    BY <1>8 DEF Accepts
  <2> HIDE DEF res
  <2> QED  BY <1>8, <2>1, <2>2, ForgiveShareMoved DEF res
<1>9. CASE r.op = "unsettle"
  <2>1. res = UnsettleShareWrite(v, d, r.share)
    BY <1>9 DEF Writes
  <2>2. UnsettleShareOk(v, r.share)
    BY <1>9 DEF Accepts
  <2> HIDE DEF res
  <2> QED  BY <1>9, <2>1, <2>2, UnsettleShareMoved DEF res
<1>10. CASE r.op = "patchTxn"
  <2>1. res = PatchTxnWrite(v, d, r.txn, r.value[1], r.value[2])
    BY <1>10 DEF Writes
  <2>2. r.value[1] \in TxnTypes /\ r.value[2] \in 1..MaxMoney
    <3>1. r.value \in TxnTypes \X (1..MaxMoney)
      BY <1>10, RacesAssumption DEF Requests
    <3> QED  BY <3>1
  <2> HIDE DEF res
  <2>3. PICK table : IsTable(table, TxnIds, TxnRow) /\ res.db = [d EXCEPT !.txn = table]
    BY <2>1, <2>2, PatchTxnType DEF Base
  <2> QED  BY <2>3, TxnTableMoved DEF res, Base
<1>11. CASE r.op = "deleteTxn"
  <2>1. res = DeleteTxnWrite(d, r.txn)
    BY <1>11 DEF Writes
  <2>2. res.db = [d EXCEPT !.txn = SetTxnState(d, {r.txn}, "deleted")]
    BY <2>1 DEF DeleteTxnWrite, Result
  <2> HIDE DEF res
  <2> QED  BY <2>2, SetTxnStateMoved DEF res, Base, Retention
<1>12. CASE r.op = "restoreTxn"
  <2>1. res = RestoreTxnWrite(d, r.txn)
    BY <1>12 DEF Writes
  <2>2. res.db = [d EXCEPT !.txn = SetTxnState(d, {r.txn}, "live")]
    BY <2>1 DEF RestoreTxnWrite, Result
  <2> HIDE DEF res
  <2> QED  BY <2>2, SetTxnStateMoved DEF res, Base, Retention
<1>13. \/ r.op = "create" \/ r.op = "update" \/ r.op = "delete" \/ r.op = "patch"
       \/ r.op = "assign" \/ r.op = "settle" \/ r.op = "unlink" \/ r.op = "forgive"
       \/ r.op = "unsettle" \/ r.op = "patchTxn" \/ r.op = "deleteTxn" \/ r.op = "restoreTxn"
  BY DEF Requests
<1> QED
  BY <1>1, <1>2, <1>3, <1>4, <1>5, <1>6, <1>7, <1>8, <1>9, <1>10, <1>11, <1>12, <1>13

\* What a request read is not contradicted by a move of another.
LEMMA SeenStays ==
    ASSUME NEW v, NEW d, NEW n, NEW touched, NEW taken,
           Seen(v, d), Moved(d, n, touched, taken), DOMAIN v.share \subseteq taken
    PROVE  Seen(v, n)
<1>1. \A h \in DOMAIN v.share \cap DOMAIN n.share :
         h \in DOMAIN d.share /\ n.share[h].split = d.share[h].split
  BY DEF Moved
<1> QED  BY <1>1 DEF Seen, Moved

\* A request to be made is one of the kinds there are, of ids.
LEMMA RequestsMade ==
    ASSUME IsDatabase(db), NEW r \in SplitRequests(db) \cup ShareRequests(db) \cup TxnRequests(db)
    PROVE  r \in Requests
<1>1. DOMAIN db.share \subseteq ShareIds /\ DOMAIN db.txn \subseteq TxnIds /\ db.paid \subseteq Settlement
  BY DEF IsDatabase, IsTable
<1>2. r \in SplitRequests(db) => r \in Requests
  BY DEF SplitRequests, Requests
<1>3. r \in ShareRequests(db) => r \in Requests
  BY <1>1 DEF ShareRequests, Requests
<1>4. r \in TxnRequests(db) => r \in Requests
  BY <1>1 DEF TxnRequests, Requests
<1> QED  BY <1>2, <1>3, <1>4

-----------------------------------------------------------------------------
(***************************************************************************)
(* The invariant of the specification, and its steps.                      *)
(***************************************************************************)

\* A move of the tables that the database accepts, or no move.
Moves ==
    \/ UNCHANGED db
    \/ /\ Constraints(db')
       /\ \E touched : Moved(db, db', touched, TakenIds) /\ TriggerAccepts(db', touched)

\* What the workers not idle read is not contradicted.
LEMMA PendingStays ==
    ASSUME IInv, Moves, NEW w \in Workers, slot[w] # Idle
    PROVE  Pending(slot[w], db')
<1>1. Pending(slot[w], db) /\ DOMAIN slot[w].view.share \subseteq TakenIds
  BY DEF IInv, TakenIds
<1> QED  BY <1>1, SeenStays DEF Moves, Pending

\* A move that a worker makes no less than its request keeps the invariant.
LEMMA MovesInv ==
    ASSUME IInv, Moves, requests' \in 0..MaxRequests, DOMAIN slot' = Workers,
           \A w \in Workers : slot'[w] # Idle => slot'[w] = slot[w]
    PROVE  IInv'
<1>1. \A w \in Workers : slot'[w] # Idle => Pending(slot'[w], db')
  BY PendingStays
<1>2. IsDatabase(db') /\ Constraints(db') /\ Populated(db')
  BY DEF IInv, Moves, Moved
<1> QED  BY <1>1, <1>2 DEF IInv

\* The databases to start from satisfy the invariant.
LEMMA InitInv == Init => IInv
BY RacesAssumption DEF Init, IInv, Populated, IsLive

\* A request that begins has read the database as it is.
LEMMA BeginStep ==
    ASSUME IInv, NEW w \in Workers,
           NEW r \in SplitRequests(db) \cup ShareRequests(db) \cup TxnRequests(db), Begin(w, r)
    PROVE  IInv' /\ Moves
<1> DEFINE p == [request |-> r, view |-> db]
<1>1. Pending(p, db)
  BY RequestsMade DEF Begin, Pending, Seen, IInv
<1>2. DOMAIN slot' = Workers /\ slot' = [slot EXCEPT ![w] = p] /\ UNCHANGED db
  BY DEF Begin, IInv
<1>3. requests' \in 0..MaxRequests
  BY RacesAssumption DEF Begin, IInv
<1> HIDE DEF p
<1>4. \A u \in Workers : slot'[u] # Idle => Pending(slot'[u], db')
  BY <1>1, <1>2 DEF IInv
<1> QED  BY <1>2, <1>3, <1>4 DEF IInv, Moves

\* What is committed.
LEMMA CommitMoves ==
    ASSUME IInv, NEW w \in Workers, Commit(w)
    PROVE  IInv' /\ Moves /\ OwnColumns(db, db', slot[w].request.op)
<1> DEFINE v == slot[w].view
           r == slot[w].request
           res == Outcome(w)
<1>1. Pending(slot[w], db) /\ Base(v, db) /\ r \in Requests /\ Accepts(v, r)
  BY DEF Commit, IInv, Pending, Base
<1>2. res = Writes(v, db, TakenIds, r) /\ Commits(res) /\ db' = res.db
  BY DEF Commit, Outcome
<1>3. /\ DOMAIN db.share \subseteq TakenIds
      /\ r.op = "create" => HasSplitId(db)
      /\ r.op \in {"create", "update"} => HasShareIds(TakenIds, r.body)
  BY DEF Commit, HasIds, TakenIds
<1> HIDE DEF res, v, r
<1>4. Moved(db, res.db, res.touched, TakenIds) /\ OwnColumns(db, res.db, r.op)
  BY <1>1, <1>2, <1>3, WritesMoved
<1>5. Moves
  BY <1>2, <1>4 DEF Moves, Commits, CommitAccepts
<1>6. DOMAIN slot' = Workers /\ \A u \in Workers : slot'[u] # Idle => slot'[u] = slot[u]
  BY DEF Commit, IInv
<1>7. requests' \in 0..MaxRequests
  BY DEF Commit, IInv
<1>8. IInv'
  BY <1>5, <1>6, <1>7, MovesInv
<1> QED  BY <1>2, <1>4, <1>5, <1>8 DEF r

\* A rollback changes nothing but the slot.
LEMMA AbortStep ==
    ASSUME IInv, NEW w \in Workers, Abort(w)
    PROVE  IInv' /\ Moves
<1>1. DOMAIN slot' = Workers /\ \A u \in Workers : slot'[u] # Idle => slot'[u] = slot[u]
  BY DEF Abort, IInv
<1>2. requests' \in 0..MaxRequests /\ Moves
  BY DEF Abort, IInv, Moves
<1> QED  BY <1>1, <1>2, MovesInv

\* The passing of 30 days and the purge make no request.
LEMMA RetentionStep ==
    ASSUME IInv, (\E t \in TxnIds : Expire(t)) \/ Purge
    PROVE  IInv' /\ Moves
<1>1. ASSUME NEW t \in TxnIds, Expire(t) PROVE Moves
  <2> DEFINE n == ExpireTxn(db, t).db
  <2>1. n = [db EXCEPT !.txn = SetTxnState(db, {t}, "expired")] /\ db' = n
    BY <1>1 DEF Expire, ExpireTxn, Result
  <2> HIDE DEF n
  <2>2. IsTable(SetTxnState(db, {t}, "expired"), TxnIds, TxnRow)
    BY SetTxnStateType DEF IInv, IsDatabase, Retention
  <2>3. Moved(db, db', {}, TakenIds)
    BY <2>1, <2>2, TxnTableMoved DEF IInv
  <2>4. Constraints(db')
    <3>1. /\ n.txn = SetTxnState(db, {t}, "expired") /\ n.payee = db.payee /\ n.split = db.split
          /\ n.share = db.share /\ n.links = db.links /\ n.paid = db.paid
      BY <2>1, <2>2, TxnTableType DEF IInv
    <3>2. DOMAIN n.txn = DOMAIN db.txn
      BY <3>1 DEF SetTxnState
    <3>3. Constraints(db)
      BY DEF IInv
    <3>4. ForeignKeys(n)
      BY <3>1, <3>2, <3>3 DEF Constraints, ForeignKeys
    <3>5. OneParentPerExpense(n) /\ OneSharePerPayee(n) /\ OneLinkPerShareAndIncome(n) /\ ColumnDomains(n)
      BY <3>1, <3>3 DEF Constraints, OneParentPerExpense, OneSharePerPayee, OneLinkPerShareAndIncome,
                        ColumnDomains
    <3> QED  BY <2>1, <3>4, <3>5 DEF Constraints
  <2> QED  BY <2>3, <2>4 DEF Moves, TriggerAccepts
<1>2. ASSUME Purge PROVE Moves
  <2>1. db' = PurgeWrite(db).db /\ Constraints(db') /\ TriggerAccepts(db', PurgeWrite(db).touched)
    BY <1>2 DEF Purge, Commits, CommitAccepts
  <2> QED  BY <2>1, PurgeMoved DEF Moves, IInv
<1>3. UNCHANGED <<slot, requests>>
  BY DEF Expire, Purge
<1> QED  BY <1>1, <1>2, <1>3, MovesInv DEF IInv

\* Every step.
LEMMA NextMoves == IInv /\ Next => IInv' /\ Moves
BY BeginStep, CommitMoves, AbortStep, RetentionStep DEF Next

\* The invariant holds in every reachable state, however requests overlap.
THEOREM Invariance == Spec => []IInv
<1>1. IInv /\ [Next]_vars => IInv'
  <2>1. IInv /\ UNCHANGED vars => IInv'
    BY DEF IInv, vars, Pending
  <2> QED  BY <2>1, NextMoves
<1> QED  BY <1>1, InitInv, PTL DEF Spec

\* Rows keep the types of their columns, and so does what requests have read.
THEOREM TypeCorrect == Spec => []TypeOK
<1>1. IInv => TypeOK
  BY DEF IInv, Pending, Seen, TypeOK
<1> QED  BY <1>1, Invariance, PTL

\* No overlapping requests leave a live split without a parent or without shares.
THEOREM SplitsStayWhole == Spec => []LiveSplitsAreWhole
<1>1. IInv => LiveSplitsAreWhole
  BY DEF IInv, Populated, LiveSplitsAreWhole, Live, IsLive
<1> QED  BY <1>1, Invariance, PTL

\* No request revives a split another has deleted.
THEOREM DeletedForGood == Spec => DeletedSplitsStayDeleted
<1> DEFINE Act == \A s \in DOMAIN db.split : db.split[s] = "deleted" =>
                     s \in DOMAIN db'.split /\ db'.split[s] = "deleted"
<1>1. Moves => Act
  BY DEF Moves, Moved
<1> HIDE DEF Act
<1>2. IInv /\ [Next]_vars => [Act]_vars
  BY <1>1, NextMoves
<1>3. Spec => [][Act]_vars
  BY <1>2, Invariance, PTL DEF Spec
<1> QED  BY <1>3 DEF DeletedSplitsStayDeleted, Act

\* No request commits shares that miss the total of parents it did not see edited.
THEOREM BalanceHolds == Spec => StepsKeepBalance
<1> DEFINE Act == \A s \in DOMAIN db'.split :
          /\ db'.split[s] = "live"
          /\ s \in DOMAIN db.split => Balanced(db, s) /\ SameParents(s)
          => Balanced(db', s)
<1>1. ASSUME IInv, IInv', Moves PROVE Act
  <2> SUFFICES ASSUME NEW s \in DOMAIN db'.split, db'.split[s] = "live",
                      s \in DOMAIN db.split => Balanced(db, s) /\ SameParents(s)
               PROVE  Balanced(db', s)
    OBVIOUS
  <2>1. /\ IsDatabase(db) /\ Constraints(db)
        /\ IsDatabase(db') /\ Constraints(db') /\ Populated(db')
    BY <1>1 DEF IInv
  <2>2. CASE UNCHANGED db
    BY <2>2
  <2>3. ASSUME NEW touched, Moved(db, db', touched, TakenIds), TriggerAccepts(db', touched)
        PROVE  Balanced(db', s)
    <3>1. CASE s \in touched
      <4>1. LinksOf(db', s) # {}
        BY <2>1 DEF Populated
      <4> QED  BY <2>1, <2>3, <3>1, <4>1, LinkedTotalPositive DEF TriggerAccepts
    <3>2. CASE s \notin touched
      BY <2>1, <2>3, <3>2, UntouchedBalanced DEF Moved, Untouched, SameParents
    <3> QED  BY <3>1, <3>2
  <2> QED  BY <1>1, <2>2, <2>3 DEF Moves
<1> HIDE DEF Act
<1>2. IInv /\ [Next]_vars => [Act]_vars
  BY <1>1, NextMoves
<1>3. Spec => [][Act]_vars
  BY <1>2, Invariance, PTL DEF Spec
<1> QED  BY <1>3 DEF StepsKeepBalance, Act

\* Only a worker that commits or rolls back becomes idle, and what it commits are
\* its own columns.
LEMMA IdleAgain ==
    ASSUME IInv, Next, NEW w \in Workers, slot[w] # Idle, slot'[w] = Idle
    PROVE  OwnColumns(db, db', slot[w].request.op)
<1>1. ASSUME NEW u \in Workers, NEW r, Begin(u, r) PROVE FALSE
  BY <1>1 DEF Begin, IInv
<1>2. ASSUME NEW u \in Workers, Commit(u) PROVE OwnColumns(db, db', slot[w].request.op)
  <2>1. u = w
    BY <1>2 DEF Commit, IInv
  <2> QED  BY <1>2, <2>1, CommitMoves
<1>3. ASSUME NEW u \in Workers, Abort(u) PROVE OwnColumns(db, db', slot[w].request.op)
  BY <1>3 DEF Abort, OwnColumns
<1>4. ASSUME (\E t \in TxnIds : Expire(t)) \/ Purge PROVE FALSE
  BY <1>4 DEF Expire, Purge
<1> QED  BY <1>1, <1>2, <1>3, <1>4 DEF Next

\* No request writes back a column that another request has changed since.
THEOREM UpdatesAreKept == Spec => NoLostUpdates
<1> DEFINE Act == \A w \in Workers : slot[w] # Idle /\ slot'[w] = Idle =>
          \A h \in DOMAIN db.share \cap DOMAIN db'.share :
              LET Changed(column) == db'.share[h][column] # db.share[h][column]
                  op == slot[w].request.op
              IN  /\ Changed("amount") => op = "patch"
                  /\ Changed("payee") => op = "assign"
                  /\ Changed("forgiven") => op \in {"forgive", "unsettle"}
                  /\ Changed("status") => op \in {"settle", "unlink", "forgive", "unsettle"}
<1>1. ASSUME IInv, Next PROVE Act
  <2> SUFFICES ASSUME NEW w \in Workers, slot[w] # Idle, slot'[w] = Idle,
                      NEW h \in DOMAIN db.share \cap DOMAIN db'.share
               PROVE  LET Changed(column) == db'.share[h][column] # db.share[h][column]
                          op == slot[w].request.op
                      IN  /\ Changed("amount") => op = "patch"
                          /\ Changed("payee") => op = "assign"
                          /\ Changed("forgiven") => op \in {"forgive", "unsettle"}
                          /\ Changed("status") => op \in {"settle", "unlink", "forgive", "unsettle"}
    OBVIOUS
  <2> QED  BY <1>1, IdleAgain DEF OwnColumns
<1> HIDE DEF Act
<1>2. IInv /\ [Next]_vars => [Act]_vars
  BY <1>1
<1>3. Spec => [][Act]_vars
  BY <1>2, Invariance, PTL DEF Spec
<1> QED  BY <1>3 DEF NoLostUpdates, Act
=============================================================================
