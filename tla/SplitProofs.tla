----------------------------- MODULE SplitProofs -----------------------------
(***************************************************************************)
(* Proofs about Splits, for every value of its constants.                  *)
(*                                                                         *)
(* Good is the inductive invariant, stated of a database d so that each    *)
(* handler can be treated as a function from one database to the next.  A  *)
(* handler's commit gives Constraints of the new database for free; what   *)
(* has to be shown is that its rows have their types, that no income is    *)
(* credited twice and that only live splits hold transactions.  Sound,     *)
(* further down, adds the amounts.                                         *)
(***************************************************************************)
EXTENDS Splits, TableProofs

IncomeOnce(d) == \A x, y \in d.paid : x.txn = y.txn => x = y

LiveHold(d) ==
    /\ \A l \in d.links : IsLive(d.split, l.split)
    /\ \A x \in d.paid : IsLive(d.split, d.share[x.share].split)

Good(d) == IsDatabase(d) /\ Constraints(d) /\ IncomeOnce(d) /\ LiveHold(d)

-----------------------------------------------------------------------------
(***************************************************************************)
(* Handlers on one share.                                                  *)
(***************************************************************************)

\* At most one settlement is new, and its income was free and its split is live.
OneNewCredit(d, n) ==
    \A x, y \in n.paid \ d.paid :
        /\ x = y
        /\ x \in [share : ShareIds, txn : TxnIds, amount : Int]
        /\ CreditsOf(d, x.txn) = {}
        /\ IsLive(d.split, d.share[x.share].split)

\* A share handler that credits at most one income, not credited before, to a
\* share of a live split keeps the invariant.
LEMMA SharesUpdatedGood ==
    ASSUME NEW d, NEW n, Good(d), Constraints(n),
           SharesUpdated(d, n), OneNewCredit(d, n)
    PROVE  Good(n)
<1>1. IsTable(n.share, ShareIds, ShareRow)
  BY DEF Good, IsDatabase, IsTable, SharesUpdated
<1>2. DOMAIN n.share = DOMAIN d.share
  BY DEF SharesUpdated
<1>3. n.paid \subseteq Settlement
  <2>1. ASSUME NEW x \in n.paid PROVE x \in [share : ShareIds, txn : TxnIds, amount : Int]
    BY DEF Good, IsDatabase, Settlement, Money, OneNewCredit
  <2> QED  BY <2>1 DEF Settlement, Constraints, ColumnDomains
<1>4. IsDatabase(n)
  BY <1>1, <1>3 DEF Good, IsDatabase, SharesUpdated
<1>5. IncomeOnce(n)
  BY DEF Good, IncomeOnce, CreditsOf, OneNewCredit
<1>6. LiveHold(n)
  BY <1>2 DEF Good, LiveHold, Constraints, ForeignKeys, SharesUpdated, OneNewCredit
<1> QED  BY <1>4, <1>5, <1>6 DEF Good

\* The same of a handler that saves share h and takes credits away at most.
LEMMA SaveShareGood ==
    ASSUME NEW d, NEW e, NEW h, NEW new,
           Good(d), IsDatabase(e), Constraints(UpdateShare(d, e, h, new)),
           e.txn = d.txn, e.payee = d.payee, e.split = d.split, e.share = d.share,
           e.links = d.links, e.paid \subseteq d.paid,
           h \in DOMAIN d.share, new.payee \in PayeeRef, new.status \in Statuses
    PROVE  Good(UpdateShare(d, e, h, new))
<1> DEFINE n == UpdateShare(d, e, h, new)
<1>1. SharesUpdated(e, n) /\ n.paid = e.paid
  BY UpdateShareFacts DEF Constraints
<1> HIDE DEF n
<1>2. SharesUpdated(d, n)
  BY <1>1 DEF SharesUpdated, IsDatabase, Good
<1>3. OneNewCredit(d, n)
  BY <1>1 DEF OneNewCredit
<1>4. Constraints(n)
  BY DEF n
<1>5. Good(n)
  BY <1>2, <1>3, <1>4, SharesUpdatedGood
<1> QED  BY <1>5 DEF n

\* What a share handler finds.
LEMMA ShareFoundFacts ==
    ASSUME NEW d, NEW h, Good(d), ShareFound(d, h)
    PROVE  /\ h \in DOMAIN d.share /\ h \in ShareIds
           /\ d.share[h] \in ShareRow
           /\ IsLive(d.split, d.share[h].split)
BY DEF ShareFound, Good, IsDatabase, IsTable

\* patch_share changes an amount or a payee and nothing else.
LEMMA PatchShareGood ==
    ASSUME NEW d, NEW h, NEW fields, NEW amount, NEW payee \in PayeeRef,
           Good(d), PatchShareOk(d, h, fields, amount, payee),
           Commits(PatchShareWrite(d, d, h, fields, amount, payee))
    PROVE  Good(PatchShareWrite(d, d, h, fields, amount, payee).db)
<1> DEFINE new == [d.share[h] EXCEPT !.amount = IF "amount" \in fields THEN amount ELSE @,
                                     !.payee  = IF "payee" \in fields THEN payee ELSE @]
           n == UpdateShare(d, d, h, new)
<1>1. PatchShareWrite(d, d, h, fields, amount, payee).db = n /\ Constraints(n)
  BY DEF PatchShareWrite, Commits, CommitAccepts, Result
<1>2. h \in DOMAIN d.share /\ d.share[h] \in ShareRow
  BY ShareFoundFacts DEF PatchShareOk
<1>3. new.payee \in PayeeRef /\ new.status \in Statuses
  BY <1>2 DEF ShareRow
<1> HIDE DEF new
<1>4. Good(n)
  BY <1>1, <1>2, <1>3, SaveShareGood DEF Good
<1> QED  BY <1>1, <1>4

\* forgive_share changes what is forgiven and the status of one share.
LEMMA ForgiveShareGood ==
    ASSUME NEW d, NEW h, NEW amount, Good(d), ForgiveShareOk(d, h, amount),
           Commits(ForgiveShareWrite(d, d, h, amount))
    PROVE  Good(ForgiveShareWrite(d, d, h, amount).db)
<1> DEFINE status == DeriveStatus(d.share[h].amount, Paid(d, h), amount)
           new == [d.share[h] EXCEPT !.forgiven = amount, !.status = status]
           n == UpdateShare(d, d, h, new)
<1>1. ForgiveShareWrite(d, d, h, amount).db = n /\ Constraints(n)
  BY DEF ForgiveShareWrite, SaveShare, Commits, CommitAccepts, Result
<1>2. h \in DOMAIN d.share /\ d.share[h] \in ShareRow
  BY ShareFoundFacts DEF ForgiveShareOk
<1>3. new.payee \in PayeeRef /\ new.status \in Statuses
  <2>1. status \in Statuses
    BY DeriveStatusType
  <2> HIDE DEF status
  <2> QED  BY <1>2, <2>1 DEF ShareRow
<1> HIDE DEF new
<1>4. Good(n)
  BY <1>1, <1>2, <1>3, SaveShareGood DEF Good
<1> QED  BY <1>1, <1>4

\* The database without some settlements is of the same type.
LEMMA FewerSettlements ==
    ASSUME NEW d, NEW P, Good(d), P \subseteq d.paid
    PROVE  LET e == [d EXCEPT !.paid = P]
           IN  /\ IsDatabase(e)
               /\ e.txn = d.txn /\ e.payee = d.payee /\ e.split = d.split
               /\ e.share = d.share /\ e.links = d.links /\ e.paid = P
BY DEF Good, IsDatabase

\* unlink_settlement takes one credit away.
LEMMA UnlinkSettlementGood ==
    ASSUME NEW d, NEW h, NEW x, Good(d), UnlinkSettlementOk(d, h, x),
           Commits(UnlinkSettlementWrite(d, d, h, x))
    PROVE  Good(UnlinkSettlementWrite(d, d, h, x).db)
<1> DEFINE P == d.paid \ {x}
           e == [d EXCEPT !.paid = P]
           status == DeriveStatus(d.share[h].amount, Paid(e, h), d.share[h].forgiven)
           new == [d.share[h] EXCEPT !.status = status]
           n == UpdateShare(d, e, h, new)
<1>1. UnlinkSettlementWrite(d, d, h, x).db = n /\ Constraints(n)
  BY DEF UnlinkSettlementWrite, SaveShare, Commits, CommitAccepts, Result
<1>2. h \in DOMAIN d.share /\ d.share[h] \in ShareRow
  BY ShareFoundFacts DEF UnlinkSettlementOk
<1>3. new.payee \in PayeeRef /\ new.status \in Statuses
  <2>1. status \in Statuses
    BY DeriveStatusType
  <2> HIDE DEF status
  <2> QED  BY <1>2, <2>1 DEF ShareRow
<1>4. /\ IsDatabase(e)
      /\ e.txn = d.txn /\ e.payee = d.payee /\ e.split = d.split
      /\ e.share = d.share /\ e.links = d.links /\ e.paid \subseteq d.paid
  BY FewerSettlements
<1> HIDE DEF new, e
<1>5. Good(n)
  BY <1>1, <1>2, <1>3, <1>4, SaveShareGood
<1> QED  BY <1>1, <1>5

\* unsettle_share takes all credits of a share away.
LEMMA UnsettleShareGood ==
    ASSUME NEW d, NEW h, Good(d), UnsettleShareOk(d, h),
           Commits(UnsettleShareWrite(d, d, h))
    PROVE  Good(UnsettleShareWrite(d, d, h).db)
<1> DEFINE P == d.paid \ SettlementsOf(d, h)
           e == [d EXCEPT !.paid = P]
           new == [d.share[h] EXCEPT !.forgiven = 0, !.status = "pending"]
           n == UpdateShare(d, e, h, new)
<1>1. UnsettleShareWrite(d, d, h).db = n /\ Constraints(n)
  BY DEF UnsettleShareWrite, SaveShare, Commits, CommitAccepts, Result
<1>2. h \in DOMAIN d.share /\ d.share[h] \in ShareRow
  BY ShareFoundFacts DEF UnsettleShareOk
<1>3. new.payee \in PayeeRef /\ new.status \in Statuses
  BY <1>2 DEF ShareRow, Statuses
<1>4. /\ IsDatabase(e)
      /\ e.txn = d.txn /\ e.payee = d.payee /\ e.split = d.split
      /\ e.share = d.share /\ e.links = d.links /\ e.paid \subseteq d.paid
  BY FewerSettlements
<1> HIDE DEF new, e
<1>5. Good(n)
  BY <1>1, <1>2, <1>3, <1>4, SaveShareGood
<1> QED  BY <1>1, <1>5

\* Settling adds one settlement, of an income that had none.
LEMMA SettleShareGood ==
    ASSUME NEW d, NEW h, NEW t \in TxnIds, NEW credit \in Int,
           Good(d), SettleShareOk(d, h, t, credit),
           Commits(SettleShareWrite(d, d, h, t, credit))
    PROVE  Good(SettleShareWrite(d, d, h, t, credit).db)
<1> DEFINE status == DeriveStatus(d.share[h].amount, Paid(d, h) + credit, d.share[h].forgiven)
           new == [d.share[h] EXCEPT !.status = status]
           u == UpdateShare(d, d, h, new)
           x == [share |-> h, txn |-> t, amount |-> credit]
           n == [u EXCEPT !.paid = @ \cup {x}]
<1>1. SettleShareWrite(d, d, h, t, credit).db = n /\ Constraints(n)
  <2> DEFINE saved == SaveShare(d, d, h, new)
             twice == \E y \in d.paid : y.share = h /\ y.txn = t
             m == [saved.db EXCEPT !.paid = @ \cup {x}]
  <2>1. SettleShareWrite(d, d, h, t, credit) = Result(saved.reached /\ ~twice, m, saved.touched)
    BY DEF SettleShareWrite
  <2>2. saved.db = u
    BY DEF SaveShare, Result
  <2> HIDE DEF saved, u, twice, x
  <2>3. m = n
    BY <2>2
  <2> HIDE DEF m, n
  <2> QED  BY <2>1, <2>3 DEF Commits, CommitAccepts, Result
<1>2. /\ h \in DOMAIN d.share /\ h \in ShareIds /\ d.share[h] \in ShareRow
      /\ IsLive(d.split, d.share[h].split)
  BY ShareFoundFacts DEF SettleShareOk
<1>3. new.payee \in PayeeRef /\ new.status \in Statuses
  <2>1. status \in Statuses
    BY DeriveStatusType
  <2> HIDE DEF status
  <2> QED  BY <1>2, <2>1 DEF ShareRow
<1> HIDE DEF new
<1>4. ColumnDomains(u)
  <2>1. DOMAIN u = {"txn", "payee", "split", "share", "links", "paid"}
    BY DEF UpdateShare, Good, IsDatabase
  <2> HIDE DEF u
  <2>2. n.share = u.share /\ u.paid \subseteq n.paid
    BY <2>1
  <2> QED  BY <1>1, <2>2 DEF Constraints, ColumnDomains
<1>5. SharesUpdated(d, u) /\ u.paid = d.paid
  BY <1>2, <1>3, <1>4, UpdateShareFacts DEF Good
<1> HIDE DEF u
<1>6. SharesUpdated(d, n) /\ n.paid = d.paid \cup {x}
  BY <1>5 DEF SharesUpdated, Good, IsDatabase
<1>7. OneNewCredit(d, n)
  BY <1>2, <1>6 DEF OneNewCredit, SettleShareOk
<1> HIDE DEF n
<1>8. Good(n)
  BY <1>1, <1>6, <1>7, SharesUpdatedGood
<1> QED  BY <1>1, <1>8

-----------------------------------------------------------------------------
(***************************************************************************)
(* Handlers on a whole split.                                              *)
(***************************************************************************)

\* Rows that may be inserted: of the right types, each income in one row, and
\* without a credit in d.
RowsFit(d, rows) ==
    /\ \A k \in DOMAIN rows :
          /\ rows[k].payee \in PayeeRef
          /\ rows[k].status \in Statuses
          /\ rows[k].incomes \subseteq TxnIds
          /\ \A t \in rows[k].incomes : CreditsOf(d, t) = {}
    /\ \A k, l \in DOMAIN rows : \A t \in rows[k].incomes : t \in rows[l].incomes => k = l

\* Inserting fitting rows into a split that is new or live keeps the invariant.
LEMMA InsertRowsGood ==
    ASSUME NEW d, NEW s \in SplitIds, NEW exps \in SUBSET TxnIds,
           NEW rows, NEW taken, NEW ids, NEW credit,
           Good(d), s \in DOMAIN d.split => d.split[s] = "live",
           DOMAIN d.share \subseteq taken,
           ids \in [DOMAIN rows -> ShareIds \ taken], IsInjective(ids),
           RowsFit(d, rows),
           Constraints(InsertRows(d, s, exps, rows, ids, credit))
    PROVE  Good(InsertRows(d, s, exps, rows, ids, credit))
<1> DEFINE n == InsertRows(d, s, exps, rows, ids, credit)
<1>1. IsDatabase(n)
  BY InsertRowsType DEF Good, RowsFit
<1>2. Inserted(d, n, s, exps, rows, ids, credit)
  BY InsertRowsFacts DEF Good
<1>3. IsLive(n.split, s)
  BY DEF InsertRows, Good, IsDatabase, IsLive
<1>4. Constraints(n)
  OBVIOUS
<1> HIDE DEF n
<1>5. \A x \in NewPaid(rows, ids, credit) : \E k \in DOMAIN rows :
         x.share = ids[k] /\ x.txn \in rows[k].incomes
         /\ x = [share |-> ids[k], txn |-> x.txn, amount |-> credit[x.txn]]
  <2> TAKE x \in NewPaid(rows, ids, credit)
  <2>1. PICK k \in DOMAIN rows :
           x \in {[share |-> ids[k], txn |-> t, amount |-> credit[t]] : t \in rows[k].incomes}
    BY DEF NewPaid
  <2> QED  BY <2>1
<1>6. IncomeOnce(n)
  <2>1. ASSUME NEW x \in NewPaid(rows, ids, credit) PROVE CreditsOf(d, x.txn) = {}
    BY <1>5 DEF RowsFit
  <2>2. ASSUME NEW x \in NewPaid(rows, ids, credit), NEW y \in NewPaid(rows, ids, credit),
               x.txn = y.txn
        PROVE  x = y
    BY <1>5, <2>2 DEF RowsFit
  <2> QED  BY <2>1, <2>2, <1>2 DEF Good, IncomeOnce, CreditsOf, Inserted
<1>7. LiveHold(n)
  <2>1. \A l \in n.links : IsLive(n.split, l.split)
    BY <1>2, <1>3 DEF Inserted, Good, LiveHold, IsLive
  <2>2. ASSUME NEW x \in d.paid PROVE IsLive(n.split, n.share[x.share].split)
    BY <1>2 DEF Inserted, Good, LiveHold, IsLive, Constraints, ForeignKeys
  <2>3. ASSUME NEW x \in NewPaid(rows, ids, credit) PROVE n.share[x.share].split = s
    BY <1>2, <1>5 DEF Inserted
  <2> QED  BY <2>1, <2>2, <2>3, <1>2, <1>3 DEF LiveHold, Inserted
<1> QED  BY <1>1, <1>4, <1>6, <1>7 DEF Good, n

\* A created or updated split, given rows that fit the database without it.
LEMMA SaveSplitGood ==
    ASSUME NEW d, NEW s \in SplitIds, NEW exps \in SUBSET TxnIds,
           NEW rows, NEW taken, NEW credit,
           Good(d), s \in DOMAIN d.split => d.split[s] = "live",
           DOMAIN d.share \subseteq taken, HasShareIds(taken, rows), RowsFit(d, rows),
           Commits(SaveSplit(d, taken, s, exps, rows, credit))
    PROVE  Good(SaveSplit(d, taken, s, exps, rows, credit).db)
<1> DEFINE ids == NewShareIds(taken, rows)
           n == InsertRows(d, s, exps, rows, ids, credit)
<1>1. SaveSplit(d, taken, s, exps, rows, credit).db = n /\ Constraints(n)
  BY DEF SaveSplit, Commits, CommitAccepts, Result
<1>2. ids \in [DOMAIN rows -> ShareIds \ taken] /\ IsInjective(ids)
  BY NewShareIdsFacts
<1> HIDE DEF ids
<1>3. Good(n)
  BY <1>1, <1>2, InsertRowsGood
<1> QED  BY <1>1, <1>3

\* Emptying a live split keeps the invariant, and frees what was credited to it.
LEMMA ClearSplitGood ==
    ASSUME NEW d, NEW s, Good(d)
    PROVE  LET e == ClearSplit(d, s)
           IN  Good(e) /\ Emptied(d, e, s) /\ e.paid = {x \in d.paid : x.share \notin SharesOf(d, s)}
<1> DEFINE e == ClearSplit(d, s)
<1>1. /\ IsDatabase(e) /\ Constraints(e) /\ Emptied(d, e, s)
      /\ e.links = d.links \ LinksOf(d, s)
      /\ e.paid = {x \in d.paid : x.share \notin SharesOf(d, s)}
  BY ClearSplitFacts DEF Good
<1> HIDE DEF e
<1>2. IncomeOnce(e)
  BY <1>1 DEF Good, IncomeOnce
<1>3. LiveHold(e)
  BY <1>1 DEF Good, LiveHold, Constraints, ForeignKeys, Emptied
<1> QED  BY <1>1, <1>2, <1>3 DEF Good, e

\* The rows of a valid body fit a database without credits of its incomes.
LEMMA BodyRowsFit ==
    ASSUME NEW d, NEW body, NEW credit, ValidBody(body),
           \A p \in DOMAIN body : \A t \in body[p].incomes : CreditsOf(d, t) = {}
    PROVE  RowsFit(d, BodyRows(body, credit)) /\ DOMAIN BodyRows(body, credit) = DOMAIN body
<1>1. \A p \in DOMAIN body : body[p].incomes \subseteq TxnIds
  BY DEF ValidBody, Draft
<1>2. \A p, q \in DOMAIN body : \A t \in body[p].incomes : t \in body[q].incomes => p = q
  BY DEF ValidBody
<1> QED  BY <1>1, <1>2, BodyRowsType DEF RowsFit

\* create_split inserts a new split whose incomes were free when it checked.
LEMMA CreateSplitGood ==
    ASSUME NEW d, NEW exps \in SUBSET TxnIds, NEW body, ValidBody(body),
           Good(d), CreateSplitOk(d, exps, body),
           HasSplitId(d), HasShareIds(DOMAIN d.share, body),
           Commits(CreateSplitWrite(d, d, DOMAIN d.share, exps, body))
    PROVE  Good(CreateSplitWrite(d, d, DOMAIN d.share, exps, body).db)
<1> DEFINE rows == BodyRows(body, FullCredit(d))
           s == NewSplitId(d)
<1>1. RowsFit(d, rows) /\ DOMAIN rows = DOMAIN body
  BY BodyRowsFit DEF CreateSplitOk
<1>2. HasShareIds(DOMAIN d.share, rows)
  BY <1>1 DEF HasShareIds
<1>3. s \in SplitIds /\ s \notin DOMAIN d.split
  BY NewSplitIdFacts
<1>4. CreateSplitWrite(d, d, DOMAIN d.share, exps, body)
      = SaveSplit(d, DOMAIN d.share, s, exps, rows, FullCredit(d))
  BY DEF CreateSplitWrite
<1> HIDE DEF rows, s
<1> QED  BY <1>1, <1>2, <1>3, <1>4, SaveSplitGood

\* An update credits only incomes that were free or credited to its own shares,
\* which it deletes first.
LEMMA UpdateSplitGood ==
    ASSUME NEW d, NEW s \in SplitIds, NEW exps \in SUBSET TxnIds, NEW body, ValidBody(body),
           Good(d), UpdateSplitOk(d, s, exps, body), HasShareIds(DOMAIN d.share, body),
           Commits(UpdateSplitWrite(d, d, DOMAIN d.share, s, exps, body))
    PROVE  Good(UpdateSplitWrite(d, d, DOMAIN d.share, s, exps, body).db)
<1> DEFINE e == ClearSplit(d, s)
           rows == BodyRows(body, KeptCredit(d, s))
<1>1. /\ Good(e) /\ e.split = d.split
      /\ DOMAIN e.share \subseteq DOMAIN d.share
      /\ e.paid = {x \in d.paid : x.share \notin SharesOf(d, s)}
  BY ClearSplitGood DEF Emptied
<1> HIDE DEF e
<1>2. \A p \in DOMAIN body : \A t \in body[p].incomes : CreditsOf(e, t) = {}
  BY <1>1 DEF UpdateSplitOk, CreditsOf
<1>3. RowsFit(e, rows) /\ DOMAIN rows = DOMAIN body
  BY <1>2, BodyRowsFit
<1>4. HasShareIds(DOMAIN d.share, rows)
  BY <1>3 DEF HasShareIds
<1>5. e.split[s] = "live"
  BY <1>1 DEF UpdateSplitOk, IsLive
<1>6. UpdateSplitWrite(d, d, DOMAIN d.share, s, exps, body)
      = SaveSplit(e, DOMAIN d.share, s, exps, rows, KeptCredit(d, s))
  BY DEF UpdateSplitWrite, e
<1> HIDE DEF rows
<1> QED  BY <1>1, <1>3, <1>4, <1>5, <1>6, SaveSplitGood

\* Each bundled income goes to the one share of its payer.
LEMMA BundleRowsFit ==
    ASSUME NEW d, NEW exps, NEW incs \in SUBSET TxnIds, NEW offs,
           IsDatabase(d), DOMAIN offs \subseteq PayeeRef,
           \A t \in incs : CreditsOf(d, t) = {}
    PROVE  RowsFit(d, BundleRows(d, exps, incs, offs))
<1> DEFINE rows == BundleRows(d, exps, incs, offs)
           Group(p) == {t \in incs : PayerOf(d, t) = p}
           groups == {"income"} \X {PayerOf(d, t) : t \in incs}
           writeOff == {"forgiven"} \X DOMAIN offs
<1>1. \A p : PayerOf(d, p) \in PayeeRef
  BY DEF PayerOf, IsDatabase, IsTable, PayeeRef
<1>2. \A k \in DOMAIN rows :
         \/ /\ k \in groups
            /\ rows[k].payee = k[2] /\ rows[k].status = "settled" /\ rows[k].incomes = Group(k[2])
         \/ /\ k \in writeOff
            /\ rows[k].payee = k[2] /\ rows[k].status = "forgiven" /\ rows[k].incomes = {}
         \/ rows[k].payee = NoPayee /\ rows[k].status = "pending" /\ rows[k].incomes = {}
  BY DEF BundleRows, BundleRow
<1> HIDE DEF rows
<1>3. \A k \in groups : k = <<"income", k[2]>> /\ k[2] \in PayeeRef
  BY <1>1
<1>4. \A k \in writeOff : k[2] \in PayeeRef
  OBVIOUS
<1>5. \A k \in DOMAIN rows : \A t \in rows[k].incomes :
         t \in incs /\ k = <<"income", PayerOf(d, t)>>
  BY <1>2, <1>3
<1> HIDE DEF groups, writeOff
<1>6. \A k \in DOMAIN rows : rows[k].payee \in PayeeRef /\ rows[k].status \in Statuses
  BY <1>2, <1>3, <1>4 DEF PayeeRef, Statuses
<1>7. RowsFit(d, rows)
  BY <1>5, <1>6 DEF RowsFit
<1> QED  BY <1>7 DEF rows

\* bundle_split puts each income in the row of its payer, hence in one row only.
LEMMA BundleSplitGood ==
    ASSUME NEW d, NEW exps \in SUBSET TxnIds, NEW incs \in SUBSET TxnIds, NEW offs,
           DOMAIN offs \subseteq PayeeRef, Good(d), BundleSplitOk(d, exps, incs, offs),
           HasSplitId(d), HasShareIds(DOMAIN d.share, BundleRows(d, exps, incs, offs)),
           Commits(BundleSplitWrite(d, d, DOMAIN d.share, exps, incs, offs))
    PROVE  Good(BundleSplitWrite(d, d, DOMAIN d.share, exps, incs, offs).db)
<1> DEFINE rows == BundleRows(d, exps, incs, offs)
           s == NewSplitId(d)
<1>1. RowsFit(d, rows)
  BY BundleRowsFit DEF BundleSplitOk, Good
<1>2. s \in SplitIds /\ s \notin DOMAIN d.split
  BY NewSplitIdFacts
<1>3. BundleSplitWrite(d, d, DOMAIN d.share, exps, incs, offs)
      = SaveSplit(d, DOMAIN d.share, s, exps, rows, FullCredit(d))
  BY DEF BundleSplitWrite
<1> HIDE DEF rows, s
<1> QED  BY <1>1, <1>2, <1>3, SaveSplitGood DEF rows

\* Deleting a split takes away all that it held.
LEMMA DeleteSplitGood ==
    ASSUME NEW d, NEW s \in SplitIds, Good(d), Commits(DeleteSplitWrite(d, d, s))
    PROVE  Good(DeleteSplitWrite(d, d, s).db)
<1> DEFINE n == DeleteSplitWrite(d, d, s).db
<1>1. /\ IsDatabase(n)
      /\ n.share = d.share
      /\ n.links = d.links \ LinksOf(d, s)
      /\ n.paid = {x \in d.paid : x.share \notin SharesOf(d, s)}
      /\ n.split = [z \in DOMAIN d.split |-> IF z = s THEN "deleted" ELSE d.split[z]]
  BY DeleteSplitRows DEF Good
<1>2. Constraints(n)
  BY DEF Commits, CommitAccepts
<1> HIDE DEF n
<1>3. IncomeOnce(n)
  BY <1>1 DEF Good, IncomeOnce
<1>4. LiveHold(n)
  BY <1>1 DEF Good, LiveHold, IsLive, LinksOf, SharesOf, Constraints, ForeignKeys
<1> QED  BY <1>1, <1>2, <1>3, <1>4 DEF Good, n

-----------------------------------------------------------------------------
(***************************************************************************)
(* Transactions, payees, retention.                                        *)
(***************************************************************************)

\* What is proved of splits does not depend on the state, type or amount of
\* transactions, nor on the state of payees.
LEMMA TxnTableGood ==
    ASSUME NEW d, NEW table, Good(d), IsTable(table, TxnIds, TxnRow),
           Constraints([d EXCEPT !.txn = table])
    PROVE  Good([d EXCEPT !.txn = table])
<1> DEFINE n == [d EXCEPT !.txn = table]
<1>1. /\ IsDatabase(n)
      /\ n.split = d.split /\ n.share = d.share /\ n.links = d.links /\ n.paid = d.paid
  BY TxnTableType DEF Good
<1> HIDE DEF n
<1>2. IncomeOnce(n) /\ LiveHold(n)
  BY <1>1 DEF Good, IncomeOnce, LiveHold
<1> QED  BY <1>1, <1>2 DEF Good, n

\* A commit that only rewrites the payees keeps the invariant.
LEMMA PayeeTableGood ==
    ASSUME NEW d, NEW table, Good(d), IsTable(table, Payees, Retention),
           Constraints([d EXCEPT !.payee = table])
    PROVE  Good([d EXCEPT !.payee = table])
<1> DEFINE n == [d EXCEPT !.payee = table]
<1>1. /\ DOMAIN n = DOMAIN d
      /\ n.txn = d.txn /\ n.payee = table /\ n.split = d.split
      /\ n.share = d.share /\ n.links = d.links /\ n.paid = d.paid
  BY DEF Good, IsDatabase
<1> HIDE DEF n
<1>2. IsDatabase(n) /\ IncomeOnce(n) /\ LiveHold(n)
  BY <1>1 DEF Good, IsDatabase, IncomeOnce, LiveHold
<1> QED  BY <1>2 DEF Good, n

\* create_transaction keeps the invariant.
LEMMA CreateTxnGood ==
    ASSUME NEW d, NEW t \in TxnIds, NEW type \in TxnTypes, NEW amount \in 1..MaxMoney,
           Good(d), Commits(CreateTxnWrite(d, t, type, amount))
    PROVE  Good(CreateTxnWrite(d, t, type, amount).db)
<1>1. IsTable(InsertTxn(d, t, type, amount), TxnIds, TxnRow)
  BY InsertTxnType DEF Good, IsDatabase
<1>2. /\ CreateTxnWrite(d, t, type, amount).db = [d EXCEPT !.txn = InsertTxn(d, t, type, amount)]
      /\ Constraints(CreateTxnWrite(d, t, type, amount).db)
  BY DEF CreateTxnWrite, Commits, CommitAccepts, Result
<1> QED  BY <1>1, <1>2, TxnTableGood

\* patch_transaction keeps it too, though it may unbalance a split.
LEMMA PatchTxnGood ==
    ASSUME NEW d, NEW t \in TxnIds, NEW type \in TxnTypes, NEW amount \in 1..MaxMoney,
           Good(d), Commits(PatchTxnWrite(d, d, t, type, amount))
    PROVE  Good(PatchTxnWrite(d, d, t, type, amount).db)
<1>1. PICK table : /\ IsTable(table, TxnIds, TxnRow)
                   /\ PatchTxnWrite(d, d, t, type, amount).db = [d EXCEPT !.txn = table]
  BY PatchTxnType DEF Good
<1>2. Constraints(PatchTxnWrite(d, d, t, type, amount).db)
  BY DEF Commits, CommitAccepts
<1> QED  BY <1>1, <1>2, TxnTableGood

\* Deleting, restoring and expiring a transaction set its state.
LEMMA SetTxnStateGood ==
    ASSUME NEW d, NEW T, NEW state \in Retention, NEW res, Good(d), Commits(res),
           res.db = [d EXCEPT !.txn = SetTxnState(d, T, state)]
    PROVE  Good(res.db)
<1>1. IsTable(SetTxnState(d, T, state), TxnIds, TxnRow)
  BY SetTxnStateType DEF Good, IsDatabase
<1> QED  BY <1>1, TxnTableGood DEF Commits, CommitAccepts

\* replace_existing soft-deletes transactions, linked ones included, and inserts
\* one; the links stay and still point to rows there are.
LEMMA ReplaceTxnsGood ==
    ASSUME NEW d, NEW olds, NEW t \in TxnIds, NEW type \in TxnTypes, NEW amount \in 1..MaxMoney,
           Good(d), Commits(ReplaceTxnsWrite(d, d, olds, t, type, amount))
    PROVE  Good(ReplaceTxnsWrite(d, d, olds, t, type, amount).db)
<1> DEFINE found == {z \in olds : LiveTxn(d, z)}
           deleted == [d EXCEPT !.txn = SetTxnState(d, found, "deleted")]
           table == InsertTxn(deleted, t, type, amount)
<1>1. IsTable(deleted.txn, TxnIds, TxnRow)
  BY SetTxnStateType DEF Retention, Good, IsDatabase
<1>2. IsTable(table, TxnIds, TxnRow)
  <2> HIDE DEF deleted
  <2> QED  BY <1>1, InsertTxnType
<1>3. [deleted EXCEPT !.txn = table] = [d EXCEPT !.txn = table]
  OBVIOUS
<1>4. /\ ReplaceTxnsWrite(d, d, olds, t, type, amount).db = [deleted EXCEPT !.txn = table]
      /\ Constraints(ReplaceTxnsWrite(d, d, olds, t, type, amount).db)
  BY DEF ReplaceTxnsWrite, Commits, CommitAccepts, Result
<1> HIDE DEF table, deleted
<1> QED  BY <1>2, <1>3, <1>4, TxnTableGood

\* Deleting, restoring and expiring a payee set its state.
LEMMA SetPayeeStateGood ==
    ASSUME NEW d, NEW p, NEW state \in Retention, NEW res, Good(d), Commits(res),
           res.db = [d EXCEPT !.payee = SetState(d.payee, p, state)]
    PROVE  Good(res.db)
<1>1. IsTable(SetState(d.payee, p, state), Payees, Retention)
  BY DEF SetState, IsTable, Good, IsDatabase
<1> QED  BY <1>1, PayeeTableGood DEF Commits, CommitAccepts

\* The purge removes rows, and payees from shares; it adds nothing.
LEMMA PurgeGood ==
    ASSUME NEW d, Good(d), Commits(PurgeWrite(d))
    PROVE  Good(PurgeWrite(d).db)
<1> DEFINE n == PurgeWrite(d).db
<1>1. /\ IsDatabase(n)
      /\ n.split = d.split /\ n.links = d.links
      /\ n.paid \subseteq d.paid
      /\ \A h \in DOMAIN d.share : n.share[h].split = d.share[h].split
  <2>1. IsDatabase(d)
    BY DEF Good
  <2> QED  BY <2>1, PurgeRows
<1>2. Constraints(n)
  BY DEF Commits, CommitAccepts
<1> HIDE DEF n
<1>3. IncomeOnce(n) /\ LiveHold(n)
  BY <1>1 DEF Good, IncomeOnce, LiveHold, Constraints, ForeignKeys
<1> QED  BY <1>1, <1>2, <1>3 DEF Good, n

-----------------------------------------------------------------------------
(***************************************************************************)
(* The invariant of the specification.                                     *)
(***************************************************************************)
IInv == Good(db) /\ edits \in 0..MaxEdits

\* The empty split tables satisfy the invariant.
LEMMA InitInv == Init => IInv
<1> SUFFICES ASSUME Init PROVE IInv
  OBVIOUS
<1>1. /\ DOMAIN db = {"txn", "payee", "split", "share", "links", "paid"}
      /\ db.txn = InitialTxns /\ db.payee = [p \in Payees |-> "live"]
      /\ DOMAIN db.split = {} /\ DOMAIN db.share = {} /\ db.links = {} /\ db.paid = {}
      /\ db.split = [s \in {} |-> "live"] /\ db.share = [h \in {} |-> 0]
  BY DEF Init
<1>2. IsTable(db.txn, TxnIds, TxnRow)
  BY <1>1, SplitsAssumption DEF IsTable, TxnRow, Retention
<1>3. IsDatabase(db)
  BY <1>1, <1>2 DEF IsDatabase, IsTable, Retention
<1>4. Constraints(db)
  BY <1>1 DEF Constraints, ForeignKeys, OneParentPerExpense, OneSharePerPayee,
              OneLinkPerShareAndIncome, ColumnDomains
<1>5. IncomeOnce(db) /\ LiveHold(db)
  BY <1>1 DEF IncomeOnce, LiveHold
<1>6. edits \in 0..MaxEdits
  BY SplitsAssumption DEF Init
<1> QED  BY <1>3, <1>4, <1>5, <1>6 DEF IInv, Good

\* A committed request that leaves a good database is a step of the invariant.
LEMMA CommitStep ==
    ASSUME NEW res, IInv, Good(res.db), Handle(res) \/ Edit(res)
    PROVE  IInv'
<1>1. db' = res.db
  BY DEF Handle, Edit
<1>2. edits' \in 0..MaxEdits
  BY SplitsAssumption DEF Handle, Edit, IInv
<1> QED  BY <1>1, <1>2 DEF IInv

\* Requests on whole splits preserve it,
LEMMA SplitRequestStep == IInv /\ SplitRequest => IInv'
<1> SUFFICES ASSUME IInv, SplitRequest PROVE IInv'
  OBVIOUS
<1> USE DEF IInv
<1>1. ASSUME NEW exps \in Expenses, NEW body \in Bodies, CreateSplit(exps, body) PROVE IInv'
  <2>1. exps \in SUBSET TxnIds /\ ValidBody(body)
    BY SplitsAssumption DEF Expenses
  <2> QED  BY <1>1, <2>1, CreateSplitGood, CommitStep DEF CreateSplit, Handle
<1>2. ASSUME NEW s \in SplitIds, NEW exps \in Expenses, NEW body \in Bodies,
             UpdateSplit(s, exps, body)
      PROVE  IInv'
  <2>1. exps \in SUBSET TxnIds /\ ValidBody(body)
    BY SplitsAssumption DEF Expenses
  <2> QED  BY <1>2, <2>1, UpdateSplitGood, CommitStep DEF UpdateSplit, Handle
<1>3. ASSUME NEW exps \in Expenses, NEW incs \in Incomes, NEW offs \in WriteOffs,
             BundleSplit(exps, incs, offs)
      PROVE  IInv'
  <2>1. exps \in SUBSET TxnIds /\ incs \in SUBSET TxnIds /\ DOMAIN offs \subseteq PayeeRef
    BY SplitsAssumption DEF Expenses, Incomes
  <2> QED  BY <1>3, <2>1, BundleSplitGood, CommitStep DEF BundleSplit, Handle
<1>4. ASSUME NEW s \in SplitIds, DeleteSplit(s) PROVE IInv'
  BY <1>4, DeleteSplitGood, CommitStep DEF DeleteSplit, Handle
<1> QED  BY <1>1, <1>2, <1>3, <1>4 DEF SplitRequest

\* requests on shares,
LEMMA ShareRequestStep == IInv /\ ShareRequest => IInv'
<1> SUFFICES ASSUME IInv, NEW h \in ShareIds,
                    \/ \E fields \in SUBSET {"amount", "payee"}, amount \in Amounts,
                          payee \in PayeeRef : PatchShare(h, fields, amount, payee)
                    \/ \E t \in TxnIds, credit \in Amounts : SettleShare(h, t, credit)
                    \/ \E x \in db.paid : UnlinkSettlement(h, x)
                    \/ \E amount \in Amounts \cup {0} : ForgiveShare(h, amount)
                    \/ UnsettleShare(h)
             PROVE  IInv'
  BY DEF ShareRequest, Given
<1> USE DEF IInv
<1>1. ASSUME NEW fields, NEW amount, NEW payee \in PayeeRef,
             PatchShare(h, fields, amount, payee)
      PROVE  IInv'
  BY <1>1, PatchShareGood, CommitStep DEF PatchShare, Handle
<1>2. ASSUME NEW t \in TxnIds, NEW credit \in Amounts, SettleShare(h, t, credit) PROVE IInv'
  <2>1. credit \in Int
    BY SplitsAssumption, TablesAssumption
  <2> QED  BY <1>2, <2>1, SettleShareGood, CommitStep DEF SettleShare, Handle
<1>3. ASSUME NEW x, UnlinkSettlement(h, x) PROVE IInv'
  BY <1>3, UnlinkSettlementGood, CommitStep DEF UnlinkSettlement, Handle
<1>4. ASSUME NEW amount, ForgiveShare(h, amount) PROVE IInv'
  BY <1>4, ForgiveShareGood, CommitStep DEF ForgiveShare, Handle
<1>5. ASSUME UnsettleShare(h) PROVE IInv'
  BY <1>5, UnsettleShareGood, CommitStep DEF UnsettleShare, Handle
<1> QED  BY <1>1, <1>2, <1>3, <1>4, <1>5

\* requests on transactions and payees,
LEMMA LedgerRequestStep == IInv /\ LedgerRequest => IInv'
<1> SUFFICES ASSUME IInv, LedgerRequest PROVE IInv'
  OBVIOUS
<1> USE DEF IInv
<1>1. \A value \in TxnValues : value[1] \in TxnTypes /\ value[2] \in 1..MaxMoney
  BY SplitsAssumption
<1>2. ASSUME NEW t \in TxnIds, NEW value \in TxnValues, CreateTxn(t, value[1], value[2])
      PROVE  IInv'
  BY <1>1, <1>2, CreateTxnGood, CommitStep DEF CreateTxn, Edit
<1>3. ASSUME NEW t \in TxnIds, NEW value \in TxnValues, PatchTxn(t, value[1], value[2])
      PROVE  IInv'
  BY <1>1, <1>3, PatchTxnGood, CommitStep DEF PatchTxn, Edit
<1>4. ASSUME NEW t \in TxnIds, NEW value \in TxnValues, NEW old,
             ReplaceTxns({old}, t, value[1], value[2])
      PROVE  IInv'
  BY <1>1, <1>4, ReplaceTxnsGood, CommitStep DEF ReplaceTxns, Edit
<1>5. ASSUME NEW t, DeleteTxn(t) PROVE IInv'
  <2>1. DeleteTxnWrite(db, t).db = [db EXCEPT !.txn = SetTxnState(db, {t}, "deleted")]
    BY DEF DeleteTxnWrite, Result
  <2> QED  BY <1>5, <2>1, SetTxnStateGood, CommitStep DEF DeleteTxn, Edit, Retention
<1>6. ASSUME NEW t, RestoreTxn(t) PROVE IInv'
  <2>1. RestoreTxnWrite(db, t).db = [db EXCEPT !.txn = SetTxnState(db, {t}, "live")]
    BY DEF RestoreTxnWrite, Result
  <2> QED  BY <1>6, <2>1, SetTxnStateGood, CommitStep DEF RestoreTxn, Handle, Retention
<1>7. ASSUME NEW p, DeletePayee(p) PROVE IInv'
  <2>1. DeletePayeeWrite(db, p).db = [db EXCEPT !.payee = SetState(db.payee, p, "deleted")]
    BY DEF DeletePayeeWrite, Result
  <2> QED  BY <1>7, <2>1, SetPayeeStateGood, CommitStep DEF DeletePayee, Edit, Retention
<1>8. ASSUME NEW p, RestorePayee(p) PROVE IInv'
  <2>1. RestorePayeeWrite(db, p).db = [db EXCEPT !.payee = SetState(db.payee, p, "live")]
    BY DEF RestorePayeeWrite, Result
  <2> QED  BY <1>8, <2>1, SetPayeeStateGood, CommitStep DEF RestorePayee, Handle, Retention
<1> QED  BY <1>2, <1>3, <1>4, <1>5, <1>6, <1>7, <1>8 DEF LedgerRequest

\* the passing of 30 days,
LEMMA ExpireStep == IInv /\ Expire => IInv'
<1> SUFFICES ASSUME IInv, Expire PROVE IInv'
  OBVIOUS
<1> USE DEF IInv
<1>1. ASSUME NEW t, Handle(ExpireTxn(db, t)) PROVE IInv'
  <2>1. ExpireTxn(db, t).db = [db EXCEPT !.txn = SetTxnState(db, {t}, "expired")]
    BY DEF ExpireTxn, Result
  <2> QED  BY <1>1, <2>1, SetTxnStateGood, CommitStep DEF Handle, Retention
<1>2. ASSUME NEW p, Handle(ExpirePayee(db, p)) PROVE IInv'
  <2>1. ExpirePayee(db, p).db = [db EXCEPT !.payee = SetState(db.payee, p, "expired")]
    BY DEF ExpirePayee, Result
  <2> QED  BY <1>2, <2>1, SetPayeeStateGood, CommitStep DEF Handle, Retention
<1> QED  BY <1>1, <1>2 DEF Expire

\* and the purge.
LEMMA PurgeStep == IInv /\ Purge => IInv'
<1> SUFFICES ASSUME IInv, Purge PROVE IInv'
  OBVIOUS
<1> QED  BY PurgeGood, CommitStep DEF IInv, Purge, Handle

\* The invariant holds in every reachable state: what the proofs below rest on.
THEOREM Invariance == Spec => []IInv
<1>1. IInv /\ [Next]_vars => IInv'
  <2>1. IInv /\ UNCHANGED vars => IInv'
    BY DEF IInv, vars
  <2> QED  BY <2>1, SplitRequestStep, ShareRequestStep, LedgerRequestStep, ExpireStep, PurgeStep
           DEF Next
<1> QED  BY <1>1, InitInv, PTL DEF Spec

\* Every table keeps rows of its columns' types, whichever requests are made.
THEOREM TypeCorrect == Spec => []TypeOK
<1>1. IInv => TypeOK
  BY DEF IInv, Good, TypeOK
<1> QED  BY <1>1, Invariance, PTL

\* No sequence of requests credits an income to two shares.
THEOREM IncomeCreditedOnce == Spec => []IncomeLinkedOnce
<1>1. IInv => IncomeLinkedOnce
  BY DEF IInv, Good, IncomeOnce, IncomeLinkedOnce
<1> QED  BY <1>1, Invariance, PTL

\* No sequence of requests leaves a transaction linked to a deleted split.
THEOREM DeletedSplitsAreEmpty == Spec => []OnlyLiveSplitsHold
<1>1. IInv => OnlyLiveSplitsHold
  BY DEF IInv, Good, LiveHold, OnlyLiveSplitsHold
<1> QED  BY <1>1, Invariance, PTL

-----------------------------------------------------------------------------
(***************************************************************************)
(* Money and claims.                                                       *)
(*                                                                         *)
(* Sound is what Good leaves out: amounts.  A share is never covered       *)
(* beyond its amount; that taking payments away keeps it so needs credits  *)
(* to be positive, and that a forgiven share counts as spent only once     *)
(* needs it to have received nothing.  Step is what a handler owes.  Last  *)
(* comes the refinement of SplitClaims, which rests on the same lemmas.    *)
(***************************************************************************)

(***************************************************************************)
(* What has been received on a share.                                      *)
(***************************************************************************)
Positive(d) == \A x \in d.paid : x.amount > 0

\* Received is a natural number, 0 without settlements,
LEMMA PaidType ==
    ASSUME NEW d, NEW h, IsDatabase(d), Constraints(d), Positive(d)
    PROVE  Paid(d, h) \in Nat /\ (SettlementsOf(d, h) = {} => Paid(d, h) = 0)
<1>1. IsFiniteSet(SettlementsOf(d, h))
  BY FiniteRows, FS_Subset DEF SettlementsOf
<1>2. \A x \in SettlementsOf(d, h) : x \in Settlement /\ Credit[x] = x.amount /\ x.amount \in Money
  BY DEF SettlementsOf, IsDatabase, Settlement, Credit
<1>3. \A x \in SettlementsOf(d, h) : Credit[x] \in Nat
  BY <1>2, TablesAssumption DEF Positive, SettlementsOf, Money
<1>4. Paid(d, h) = Total(Credit, SettlementsOf(d, h))
  BY <1>1, PaidTotal
<1> QED  BY <1>1, <1>3, <1>4, TotalNat, TotalEmpty

\* The same settlements are as much,
LEMMA PaidSame ==
    ASSUME NEW d, NEW n, NEW h, IsDatabase(d), Constraints(d), IsDatabase(n),
           SettlementsOf(n, h) = SettlementsOf(d, h)
    PROVE  Paid(n, h) = Paid(d, h)
<1>1. IsFiniteSet(SettlementsOf(d, h))
  BY FiniteRows, FS_Subset DEF SettlementsOf
<1> QED  BY <1>1, PaidTotal

\* fewer are not more,
LEMMA PaidFewer ==
    ASSUME NEW d, NEW n, NEW h, IsDatabase(d), Constraints(d), IsDatabase(n), Positive(d),
           SettlementsOf(n, h) \subseteq SettlementsOf(d, h)
    PROVE  Paid(n, h) \in Nat /\ Paid(n, h) <= Paid(d, h)
<1>1. IsFiniteSet(SettlementsOf(d, h)) /\ IsFiniteSet(SettlementsOf(n, h))
  BY FiniteRows, FS_Subset DEF SettlementsOf
<1>2. \A x \in SettlementsOf(d, h) : x \in Settlement /\ Credit[x] = x.amount /\ x.amount \in Money
  BY DEF SettlementsOf, IsDatabase, Settlement, Credit
<1>3. \A x \in SettlementsOf(d, h) : Credit[x] \in Nat
  BY <1>2, TablesAssumption DEF Positive, SettlementsOf, Money
<1>4. /\ Paid(d, h) = Total(Credit, SettlementsOf(d, h))
      /\ Paid(n, h) = Total(Credit, SettlementsOf(n, h))
  BY <1>1, PaidTotal
<1> QED  BY <1>1, <1>3, <1>4, TotalOfPart

\* and one more is its amount more.
LEMMA PaidMore ==
    ASSUME NEW d, NEW n, NEW h, IsDatabase(d), Constraints(d), IsDatabase(n), NEW x,
           x \notin SettlementsOf(d, h), SettlementsOf(n, h) = SettlementsOf(d, h) \cup {x}
    PROVE  Paid(n, h) = Paid(d, h) + x.amount
<1>1. IsFiniteSet(SettlementsOf(d, h)) /\ IsFiniteSet(SettlementsOf(n, h))
  <2>1. IsFiniteSet(SettlementsOf(d, h))
    BY FiniteRows, FS_Subset DEF SettlementsOf
  <2> QED  BY <2>1, FS_AddElement
<1>2. \A y \in SettlementsOf(n, h) : y \in Settlement /\ Credit[y] = y.amount /\ y.amount \in Money
  BY DEF SettlementsOf, IsDatabase, Settlement, Credit
<1>3. Whole(Credit, SettlementsOf(n, h)) /\ Credit[x] = x.amount
  BY <1>2 DEF Whole, Money
<1>4. /\ Paid(d, h) = Total(Credit, SettlementsOf(d, h))
      /\ Paid(n, h) = Total(Credit, SettlementsOf(n, h))
  BY <1>1, PaidTotal
<1>5. Total(Credit, SettlementsOf(n, h)) = x.amount + Total(Credit, SettlementsOf(d, h))
  BY <1>1, <1>3, TotalAdd
<1>6. x.amount \in Int /\ Total(Credit, SettlementsOf(d, h)) \in Int
  <2>1. Whole(Credit, SettlementsOf(d, h))
    BY <1>3 DEF Whole
  <2> QED  BY <1>1, <1>3, <2>1, TotalWhole DEF Whole
<1> QED  BY <1>4, <1>5, <1>6

-----------------------------------------------------------------------------
(***************************************************************************)
(* The invariant, and what every handler owes.                             *)
(***************************************************************************)

\* A share is not covered beyond its amount, nor both forgiven and paid for.
ShareSound(d, h) ==
    /\ d.share[h].amount > 0 /\ d.share[h].forgiven >= 0
    /\ Paid(d, h) + d.share[h].forgiven <= d.share[h].amount
    /\ d.share[h].status = "forgiven" => Paid(d, h) = 0

Sound(d) == Positive(d) /\ \A h \in DOMAIN d.share : ShareSound(d, h)

\* StatusFollowsPayments and CreditsAreKept, of a step from d to n.
Derived(n, h) ==
    n.share[h].status = DeriveStatus(n.share[h].amount, Paid(n, h), n.share[h].forgiven)

Follows(d, n) ==
    \A h \in DOMAIN n.share :
        /\ \/ h \notin DOMAIN d.share
           \/ n.share[h].forgiven # d.share[h].forgiven
           \/ SettlementsOf(n, h) # SettlementsOf(d, h)
        /\ IsLive(n.split, n.share[h].split)
        /\ DOMAIN d.txn \subseteq DOMAIN n.txn
        => Derived(n, h)

CreditsStay(d, n) ==
    \A x \in d.paid, y \in n.paid :
        x.txn = y.txn /\ d.share[x.share].split = n.share[y.share].split => x.amount = y.amount

\* How transactions are claimed: by one split that is live then, which leaves the
\* links and settlements of the others alone; not any more by one that is deleted;
\* or some no more settle a share.
SameSplit(d, n, x) == n.share[x.share].split = d.share[x.share].split

Claiming(d, n, s) ==
    /\ DOMAIN n.split = DOMAIN d.split \cup {s} /\ n.split[s] = "live"
    /\ s \in DOMAIN d.split => d.split[s] = "live"
    /\ \A z \in DOMAIN d.split \ {s} : n.split[z] = d.split[z]
    /\ \A l : l.split # s => (l \in n.links <=> l \in d.links)
    /\ \A x \in d.paid : d.share[x.share].split # s => x \in n.paid /\ SameSplit(d, n, x)
    /\ \A x \in n.paid : n.share[x.share].split # s => x \in d.paid /\ SameSplit(d, n, x)

Closing(d, n, s) ==
    /\ s \in DOMAIN d.split /\ d.split[s] = "live"
    /\ n.split = [z \in DOMAIN d.split |-> IF z = s THEN "deleted" ELSE d.split[z]]
    /\ n.links = {l \in d.links : l.split # s}
    /\ n.paid = {x \in d.paid : d.share[x.share].split # s}
    /\ \A x \in n.paid : SameSplit(d, n, x)

Forgetting(d, n) ==
    /\ n.split = d.split /\ n.links = d.links /\ n.paid \subseteq d.paid
    /\ \A x \in n.paid : SameSplit(d, n, x)

Claimed(d, n) == (\E s \in SplitIds : Claiming(d, n, s) \/ Closing(d, n, s)) \/ Forgetting(d, n)

Step(d, n, touched) ==
    /\ Sound(n) /\ Populated(n) /\ Untouched(d, n, touched)
    /\ Follows(d, n) /\ CreditsStay(d, n) /\ Claimed(d, n)

-----------------------------------------------------------------------------
(***************************************************************************)
(* Handlers on one share.                                                  *)
(***************************************************************************)

\* n is d with share h saved, and no more than one new credit, of a free income.
ShareSaved(d, n, h, touched) ==
    /\ h \in DOMAIN d.share /\ DOMAIN n.share = DOMAIN d.share
    /\ IsLive(d.split, d.share[h].split)
    /\ n.split = d.split /\ n.links = d.links
    /\ \A g \in DOMAIN d.share \ {h} : n.share[g] = d.share[g] /\ SettlementsOf(n, g) = SettlementsOf(d, g)
    /\ n.share[h].split = d.share[h].split
    /\ n.share[h].amount # d.share[h].amount => d.share[h].split \in touched
    /\ \A x \in n.paid \ d.paid : x.amount > 0 /\ CreditsOf(d, x.txn) = {}
    /\ ShareSound(n, h)
    /\ \/ n.share[h].forgiven = d.share[h].forgiven /\ SettlementsOf(n, h) = SettlementsOf(d, h)
       \/ Derived(n, h)

\* Such a save is a step.
LEMMA ShareSavedStep ==
    ASSUME NEW d, NEW n, NEW h, NEW touched,
           Good(d), Sound(d), Populated(d), Good(n), ShareSaved(d, n, h, touched)
    PROVE  Step(d, n, touched)
<1> USE DEF ShareSaved, Good
<1>1. Sound(n)
  <2>1. ASSUME NEW g \in DOMAIN d.share \ {h} PROVE ShareSound(n, g)
    <3>1. Paid(n, g) = Paid(d, g)
      BY PaidSame
    <3> QED  BY <3>1 DEF Sound, ShareSound
  <2> QED  BY <2>1 DEF Sound, Positive
<1>2. Populated(n)
  BY DEF Populated, LinksOf, SharesOf
<1>3. Untouched(d, n, touched)
  BY DEF Untouched, SharesOf, LinksOf
<1>4. Follows(d, n)
  BY DEF Follows
<1>5. CreditsStay(d, n)
  BY DEF CreditsStay, IncomeOnce, CreditsOf
<1>6. Claiming(d, n, d.share[h].split)
  <2>1. \A g \in DOMAIN d.share : n.share[g].split = d.share[g].split
    OBVIOUS
  <2>2. \A x \in d.paid : x.share \in DOMAIN d.share
    BY DEF Constraints, ForeignKeys
  <2>3. \A x \in n.paid : x.share \in DOMAIN d.share
    BY DEF Constraints, ForeignKeys
  <2>4. \A x : x.share \in DOMAIN d.share \ {h} => (x \in n.paid <=> x \in d.paid)
    BY DEF SettlementsOf
  <2> QED  BY <2>1, <2>2, <2>3, <2>4 DEF Claiming, SameSplit, IsLive
<1>7. d.share[h].split \in SplitIds
  BY DEF IsDatabase, IsTable, ShareRow
<1> QED  BY <1>1, <1>2, <1>3, <1>4, <1>5, <1>6, <1>7 DEF Step, Claimed

\* The rows of an update of a share that is as it was read.
LEMMA UpdateShareRows ==
    ASSUME NEW d, NEW e, NEW h, NEW new, IsDatabase(e), e.share = d.share, h \in DOMAIN d.share
    PROVE  LET n == UpdateShare(d, e, h, new)
           IN  /\ n.txn = e.txn /\ n.split = e.split /\ n.links = e.links /\ n.paid = e.paid
               /\ DOMAIN n.share = DOMAIN d.share
               /\ \A g \in DOMAIN d.share \ {h} : n.share[g] = d.share[g]
               /\ n.share[h].split = d.share[h].split
               /\ n.share[h].payee = new.payee /\ n.share[h].amount = new.amount
               /\ n.share[h].forgiven = new.forgiven /\ n.share[h].status = new.status
<1>1. \A old, now : Column(old, now, old) = now
  BY DEF Column
<1> QED  BY <1>1 DEF UpdateShare, MergeShare, IsDatabase

\* patch_share asks for room for what the share has got.
LEMMA PatchShareStep ==
    ASSUME NEW d, NEW h, NEW fields, NEW amount \in 1..MaxMoney, NEW payee \in PayeeRef,
           Good(d), Sound(d), Populated(d), PatchShareOk(d, h, fields, amount, payee),
           Commits(PatchShareWrite(d, d, h, fields, amount, payee))
    PROVE  LET res == PatchShareWrite(d, d, h, fields, amount, payee)
           IN  Step(d, res.db, res.touched)
<1> DEFINE new == [d.share[h] EXCEPT !.amount = IF "amount" \in fields THEN amount ELSE @,
                                     !.payee  = IF "payee" \in fields THEN payee ELSE @]
           n == UpdateShare(d, d, h, new)
           touched == {d.share[h].split}
<1>1. /\ PatchShareWrite(d, d, h, fields, amount, payee).db = n
      /\ PatchShareWrite(d, d, h, fields, amount, payee).touched = touched
  BY DEF PatchShareWrite, Result
<1>2. Good(n)
  BY <1>1, PatchShareGood
<1>3. h \in DOMAIN d.share /\ d.share[h] \in ShareRow /\ IsLive(d.split, d.share[h].split)
  BY ShareFoundFacts DEF PatchShareOk
<1>4. /\ new.amount = IF "amount" \in fields THEN amount ELSE d.share[h].amount
      /\ new.forgiven = d.share[h].forgiven /\ new.status = d.share[h].status
  BY <1>3 DEF ShareRow
<1> HIDE DEF new
<1>5. /\ n.split = d.split /\ n.links = d.links /\ n.paid = d.paid
      /\ DOMAIN n.share = DOMAIN d.share
      /\ \A g \in DOMAIN d.share \ {h} : n.share[g] = d.share[g]
      /\ n.share[h].split = d.share[h].split /\ n.share[h].amount = new.amount
      /\ n.share[h].forgiven = new.forgiven /\ n.share[h].status = new.status
  BY <1>3, UpdateShareRows DEF Good
<1> HIDE DEF n
<1>6. ShareSound(n, h)
  <2>1. Paid(n, h) = Paid(d, h) /\ Paid(d, h) \in Nat
    BY <1>2, <1>5, PaidSame, PaidType DEF Good, SettlementsOf, Sound
  <2>2. ShareSound(d, h) /\ d.share[h].amount \in Int /\ d.share[h].forgiven \in Int
    BY <1>3 DEF Sound, ShareRow, Money
  <2>3. "amount" \in fields => amount >= Paid(d, h) + d.share[h].forgiven
    BY DEF PatchShareOk
  <2> QED  BY <1>4, <1>5, <2>1, <2>2, <2>3 DEF ShareSound
<1>7. ShareSaved(d, n, h, touched)
  BY <1>3, <1>4, <1>5, <1>6 DEF ShareSaved, SettlementsOf
<1> QED  BY <1>1, <1>2, <1>7, ShareSavedStep

\* A derived status is forgiven only if nothing was received.
LEMMA DerivedSound ==
    ASSUME NEW n, NEW h, Derived(n, h)
    PROVE  n.share[h].status = "forgiven" => Paid(n, h) = 0
BY DEF Derived, DeriveStatus

\* forgive_share replaces what was forgiven, within what is not paid.
LEMMA ForgiveShareStep ==
    ASSUME NEW d, NEW h, NEW amount \in Nat, Good(d), Sound(d), Populated(d),
           ForgiveShareOk(d, h, amount), Commits(ForgiveShareWrite(d, d, h, amount))
    PROVE  LET res == ForgiveShareWrite(d, d, h, amount) IN Step(d, res.db, res.touched)
<1> DEFINE status == DeriveStatus(d.share[h].amount, Paid(d, h), amount)
           new == [d.share[h] EXCEPT !.forgiven = amount, !.status = status]
           n == UpdateShare(d, d, h, new)
           touched == ForgiveShareWrite(d, d, h, amount).touched
<1>1. ForgiveShareWrite(d, d, h, amount).db = n
  BY DEF ForgiveShareWrite, SaveShare, Result
<1>2. Good(n)
  BY <1>1, ForgiveShareGood
<1>3. h \in DOMAIN d.share /\ d.share[h] \in ShareRow /\ IsLive(d.split, d.share[h].split)
  BY ShareFoundFacts DEF ForgiveShareOk
<1>4. new.amount = d.share[h].amount /\ new.forgiven = amount /\ new.status = status
  BY <1>3 DEF ShareRow
<1> HIDE DEF new, touched
<1>5. /\ n.split = d.split /\ n.links = d.links /\ n.paid = d.paid
      /\ DOMAIN n.share = DOMAIN d.share
      /\ \A g \in DOMAIN d.share \ {h} : n.share[g] = d.share[g]
      /\ n.share[h].split = d.share[h].split /\ n.share[h].amount = new.amount
      /\ n.share[h].forgiven = new.forgiven /\ n.share[h].status = new.status
  BY <1>3, UpdateShareRows DEF Good
<1> HIDE DEF n
<1>6. Paid(n, h) = Paid(d, h)
  BY <1>2, <1>5, PaidSame DEF Good, SettlementsOf
<1>7. Derived(n, h)
  BY <1>4, <1>5, <1>6 DEF Derived
<1>8. ShareSound(n, h)
  <2>1. ShareSound(d, h)
    BY <1>3 DEF Sound
  <2> QED  BY <1>4, <1>5, <1>6, <1>7, <2>1, DerivedSound DEF ShareSound, ForgiveShareOk
<1>9. ShareSaved(d, n, h, touched)
  BY <1>3, <1>4, <1>5, <1>7, <1>8 DEF ShareSaved, SettlementsOf
<1> QED  BY <1>1, <1>2, <1>9, ShareSavedStep DEF touched

\* unlink_settlement takes a credit away and derives the status again.
LEMMA UnlinkSettlementStep ==
    ASSUME NEW d, NEW h, NEW x, Good(d), Sound(d), Populated(d), UnlinkSettlementOk(d, h, x),
           Commits(UnlinkSettlementWrite(d, d, h, x))
    PROVE  LET res == UnlinkSettlementWrite(d, d, h, x) IN Step(d, res.db, res.touched)
<1> DEFINE e == [d EXCEPT !.paid = @ \ {x}]
           status == DeriveStatus(d.share[h].amount, Paid(e, h), d.share[h].forgiven)
           new == [d.share[h] EXCEPT !.status = status]
           n == UpdateShare(d, e, h, new)
           touched == UnlinkSettlementWrite(d, d, h, x).touched
<1>1. UnlinkSettlementWrite(d, d, h, x).db = n
  BY DEF UnlinkSettlementWrite, SaveShare, Result
<1>2. Good(n)
  BY <1>1, UnlinkSettlementGood
<1>3. h \in DOMAIN d.share /\ d.share[h] \in ShareRow /\ IsLive(d.split, d.share[h].split)
  BY ShareFoundFacts DEF UnlinkSettlementOk
<1>4. /\ new.amount = d.share[h].amount /\ new.forgiven = d.share[h].forgiven
      /\ new.status = status
  BY <1>3 DEF ShareRow
<1>5. /\ IsDatabase(e) /\ e.split = d.split /\ e.share = d.share /\ e.links = d.links
      /\ e.paid = d.paid \ {x}
  BY FewerSettlements
<1> HIDE DEF new, touched, e
<1>6. /\ n.split = d.split /\ n.links = d.links /\ n.paid = d.paid \ {x}
      /\ DOMAIN n.share = DOMAIN d.share
      /\ \A g \in DOMAIN d.share \ {h} : n.share[g] = d.share[g]
      /\ n.share[h].split = d.share[h].split /\ n.share[h].amount = new.amount
      /\ n.share[h].forgiven = new.forgiven /\ n.share[h].status = new.status
  BY <1>3, <1>5, UpdateShareRows
<1> HIDE DEF n
<1>7. /\ SettlementsOf(n, h) = SettlementsOf(e, h) /\ SettlementsOf(n, h) \subseteq SettlementsOf(d, h)
      /\ \A g \in DOMAIN d.share \ {h} : SettlementsOf(n, g) = SettlementsOf(d, g)
  BY <1>5, <1>6 DEF SettlementsOf, UnlinkSettlementOk
<1>8. Paid(n, h) = Paid(e, h) /\ Paid(n, h) \in Nat /\ Paid(n, h) <= Paid(d, h)
  <2>1. Paid(e, h) = Paid(n, h)
    BY <1>2, <1>5, <1>7, PaidSame DEF Good
  <2> QED  BY <1>2, <1>7, <2>1, PaidFewer DEF Good, Sound
<1>9. Derived(n, h)
  BY <1>4, <1>6, <1>8 DEF Derived
<1>10. ShareSound(n, h)
  <2>1. ShareSound(d, h) /\ Paid(d, h) \in Nat
    BY <1>3, PaidType DEF Sound, Good
  <2>2. d.share[h].amount \in Int /\ d.share[h].forgiven \in Int
    BY <1>3 DEF ShareRow, Money
  <2> QED  BY <1>4, <1>6, <1>8, <1>9, <2>1, <2>2, DerivedSound DEF ShareSound
<1>11. ShareSaved(d, n, h, touched)
  BY <1>3, <1>4, <1>6, <1>7, <1>9, <1>10 DEF ShareSaved
<1> QED  BY <1>1, <1>2, <1>11, ShareSavedStep DEF touched

\* unsettle_share takes all away: a share without payments is pending.
LEMMA UnsettleShareStep ==
    ASSUME NEW d, NEW h, Good(d), Sound(d), Populated(d), UnsettleShareOk(d, h),
           Commits(UnsettleShareWrite(d, d, h))
    PROVE  LET res == UnsettleShareWrite(d, d, h) IN Step(d, res.db, res.touched)
<1> DEFINE e == [d EXCEPT !.paid = @ \ SettlementsOf(d, h)]
           new == [d.share[h] EXCEPT !.forgiven = 0, !.status = "pending"]
           n == UpdateShare(d, e, h, new)
           touched == UnsettleShareWrite(d, d, h).touched
<1>1. UnsettleShareWrite(d, d, h).db = n
  BY DEF UnsettleShareWrite, SaveShare, Result
<1>2. Good(n)
  BY <1>1, UnsettleShareGood
<1>3. h \in DOMAIN d.share /\ d.share[h] \in ShareRow /\ IsLive(d.split, d.share[h].split)
  BY ShareFoundFacts DEF UnsettleShareOk
<1>4. new.amount = d.share[h].amount /\ new.forgiven = 0 /\ new.status = "pending"
  BY <1>3 DEF ShareRow
<1>5. /\ IsDatabase(e) /\ e.split = d.split /\ e.share = d.share /\ e.links = d.links
      /\ e.paid = d.paid \ SettlementsOf(d, h)
  BY FewerSettlements
<1> HIDE DEF new, touched, e
<1>6. /\ n.split = d.split /\ n.links = d.links /\ n.paid = d.paid \ SettlementsOf(d, h)
      /\ DOMAIN n.share = DOMAIN d.share
      /\ \A g \in DOMAIN d.share \ {h} : n.share[g] = d.share[g]
      /\ n.share[h].split = d.share[h].split /\ n.share[h].amount = new.amount
      /\ n.share[h].forgiven = new.forgiven /\ n.share[h].status = new.status
  BY <1>3, <1>5, UpdateShareRows
<1> HIDE DEF n
<1>7. /\ SettlementsOf(n, h) = {}
      /\ \A g \in DOMAIN d.share \ {h} : SettlementsOf(n, g) = SettlementsOf(d, g)
  BY <1>6 DEF SettlementsOf
<1>8. Paid(n, h) = 0
  <2>1. Positive(n)
    BY <1>6 DEF Positive, Sound
  <2> QED  BY <1>2, <1>7, <2>1, PaidType DEF Good
<1>9. ShareSound(d, h) /\ d.share[h].amount \in Int
  BY <1>3 DEF Sound, ShareRow, Money
<1>10. Derived(n, h) /\ ShareSound(n, h)
  BY <1>4, <1>6, <1>8, <1>9 DEF Derived, DeriveStatus, ShareSound
<1>11. ShareSaved(d, n, h, touched)
  BY <1>3, <1>4, <1>6, <1>7, <1>10 DEF ShareSaved
<1> QED  BY <1>1, <1>2, <1>11, ShareSavedStep DEF touched

\* settle_share credits an income where there is room for it.
LEMMA SettleShareStep ==
    ASSUME NEW d, NEW h, NEW t \in TxnIds, NEW credit \in 1..MaxMoney,
           Good(d), Sound(d), Populated(d), SettleShareOk(d, h, t, credit),
           Commits(SettleShareWrite(d, d, h, t, credit))
    PROVE  LET res == SettleShareWrite(d, d, h, t, credit) IN Step(d, res.db, res.touched)
<1> DEFINE status == DeriveStatus(d.share[h].amount, Paid(d, h) + credit, d.share[h].forgiven)
           new == [d.share[h] EXCEPT !.status = status]
           u == UpdateShare(d, d, h, new)
           x == [share |-> h, txn |-> t, amount |-> credit]
           n == SettleShareWrite(d, d, h, t, credit).db
           touched == SettleShareWrite(d, d, h, t, credit).touched
<1>1. n = [u EXCEPT !.paid = @ \cup {x}]
  <2>1. SettleShareWrite(d, d, h, t, credit).db = [SaveShare(d, d, h, new).db EXCEPT !.paid = @ \cup {x}]
    BY DEF SettleShareWrite, Result
  <2>2. SaveShare(d, d, h, new).db = u
    BY DEF SaveShare, Result
  <2> HIDE DEF new, u, x
  <2> QED  BY <2>1, <2>2
<1>2. Good(n)
  BY SettleShareGood, TablesAssumption
<1>3. h \in DOMAIN d.share /\ d.share[h] \in ShareRow /\ IsLive(d.split, d.share[h].split)
  BY ShareFoundFacts DEF SettleShareOk
<1>4. /\ new.amount = d.share[h].amount /\ new.forgiven = d.share[h].forgiven
      /\ new.status = status
  BY <1>3 DEF ShareRow
<1> HIDE DEF new, touched, n
<1>5. /\ DOMAIN u = {"txn", "payee", "split", "share", "links", "paid"}
      /\ u.split = d.split /\ u.links = d.links /\ u.paid = d.paid
      /\ DOMAIN u.share = DOMAIN d.share
      /\ \A g \in DOMAIN d.share \ {h} : u.share[g] = d.share[g]
      /\ u.share[h].split = d.share[h].split /\ u.share[h].amount = new.amount
      /\ u.share[h].forgiven = new.forgiven /\ u.share[h].status = new.status
  <2>1. DOMAIN u = {"txn", "payee", "split", "share", "links", "paid"}
    BY DEF UpdateShare, Good, IsDatabase
  <2> HIDE DEF u
  <2> QED  BY <1>3, <2>1, UpdateShareRows DEF Good, u
<1> HIDE DEF u
<1>6. /\ n.split = u.split /\ n.links = u.links /\ n.paid = d.paid \cup {x} /\ n.share = u.share
  BY <1>1, <1>5
<1>7. /\ SettlementsOf(n, h) = SettlementsOf(d, h) \cup {x} /\ x \notin SettlementsOf(d, h)
      /\ \A g \in DOMAIN d.share \ {h} : SettlementsOf(n, g) = SettlementsOf(d, g)
  BY <1>6 DEF SettlementsOf, SettleShareOk, CreditsOf
<1>8. Paid(n, h) = Paid(d, h) + credit /\ Paid(d, h) \in Nat
  BY <1>2, <1>7, PaidMore, PaidType DEF Good, Sound
<1>9. Derived(n, h)
  BY <1>4, <1>5, <1>6, <1>8 DEF Derived
<1>10. ShareSound(n, h)
  <2>1. ShareSound(d, h)
    BY <1>3 DEF Sound
  <2>2. d.share[h].amount \in Int /\ d.share[h].forgiven \in Int /\ credit \in Int
    BY <1>3, TablesAssumption DEF ShareRow, Money
  <2>3. Paid(d, h) + d.share[h].forgiven + credit <= d.share[h].amount
    BY DEF SettleShareOk
  <2> QED  BY <1>4, <1>5, <1>6, <1>8, <1>9, <2>1, <2>2, <2>3, DerivedSound DEF ShareSound
<1>11. \A y \in n.paid \ d.paid : y.amount > 0 /\ CreditsOf(d, y.txn) = {}
  BY <1>6, TablesAssumption DEF SettleShareOk
<1>12. ShareSaved(d, n, h, touched)
  BY <1>3, <1>4, <1>5, <1>6, <1>7, <1>9, <1>10, <1>11 DEF ShareSaved
<1> QED  BY <1>2, <1>12, ShareSavedStep DEF n, touched

-----------------------------------------------------------------------------
(***************************************************************************)
(* Handlers on a whole split.                                              *)
(***************************************************************************)
\* Rows whose incomes fit them, and say so in their status.
RowsSound(rows, credit) ==
    \A k \in DOMAIN rows :
        /\ rows[k].incomes \subseteq TxnIds
        /\ \A t \in rows[k].incomes : credit[t] > 0
        /\ rows[k].amount > 0 /\ rows[k].forgiven >= 0
        /\ Total(credit, rows[k].incomes) + rows[k].forgiven <= rows[k].amount
        /\ rows[k].status =
              DeriveStatus(rows[k].amount, Total(credit, rows[k].incomes), rows[k].forgiven)

\* What a new share has received is the credit of its incomes.
LEMMA InsertedPaid ==
    ASSUME NEW d, NEW n, NEW s, NEW exps, NEW rows, NEW ids, NEW credit,
           Good(d), Good(n), Inserted(d, n, s, exps, rows, ids, credit),
           RowsSound(rows, credit), NEW k \in DOMAIN rows
    PROVE  Paid(n, ids[k]) = Total(credit, rows[k].incomes)
<1> DEFINE T == rows[k].incomes
           m == [t \in T |-> [share |-> ids[k], txn |-> t, amount |-> credit[t]]]
<1>1. IsFiniteSet(T)
  BY FiniteIds, FS_Subset DEF RowsSound
<1>2. \A x \in d.paid : x.share # ids[k]
  BY DEF Inserted, Good, Constraints, ForeignKeys
<1>3. SettlementsOf(n, ids[k]) = {m[t] : t \in T}
  <2>1. ASSUME NEW x \in NewPaid(rows, ids, credit), x.share = ids[k]
        PROVE  \E t \in T : x = m[t]
    <3>1. PICK l \in DOMAIN rows :
             x \in {[share |-> ids[l], txn |-> t, amount |-> credit[t]] : t \in rows[l].incomes}
      BY DEF NewPaid
    <3>2. l = k
      BY <2>1, <3>1 DEF Inserted
    <3> QED  BY <3>1, <3>2
  <2>2. \A t \in T : m[t] \in NewPaid(rows, ids, credit) /\ m[t].share = ids[k]
    BY DEF NewPaid
  <2>3. SettlementsOf(n, ids[k]) = {x \in NewPaid(rows, ids, credit) : x.share = ids[k]}
    BY <1>2 DEF Inserted, SettlementsOf
  <2> HIDE DEF m, T
  <2> QED  BY <2>1, <2>2, <2>3
<1>4. \A t \in T : m[t] \in Settlement /\ m[t].amount = credit[t]
  <2>1. \A t \in T : m[t] \in n.paid
    BY <1>3 DEF SettlementsOf
  <2>2. n.paid \subseteq Settlement
    BY DEF Good, IsDatabase
  <2> QED  BY <2>1, <2>2
<1>5. \A t \in T : credit[t] = Credit[m[t]] /\ credit[t] \in Int
  BY <1>4 DEF Credit, Settlement, Money
<1>6. \A t, u \in T : m[t] = m[u] => t = u
  OBVIOUS
<1> HIDE DEF m, T
<1>7. Total(credit, T) = Total(Credit, {m[t] : t \in T})
  BY <1>1, <1>5, <1>6, TotalRenamed
<1>8. IsFiniteSet(SettlementsOf(n, ids[k]))
  BY FiniteRows, FS_Subset DEF SettlementsOf, Good
<1>9. Paid(n, ids[k]) = Total(Credit, SettlementsOf(n, ids[k]))
  BY <1>8, PaidTotal DEF Good
<1> QED  BY <1>3, <1>7, <1>9 DEF T

\* Inserting sound rows is sound, and derives their statuses.
LEMMA InsertedSound ==
    ASSUME NEW d, NEW n, NEW s, NEW exps, NEW rows, NEW ids, NEW credit,
           Good(d), Good(n), Sound(d), Inserted(d, n, s, exps, rows, ids, credit),
           RowsSound(rows, credit)
    PROVE  Sound(n) /\ \A k \in DOMAIN rows : Derived(n, ids[k])
<1>1. ASSUME NEW k \in DOMAIN rows PROVE Derived(n, ids[k]) /\ ShareSound(n, ids[k])
  <2>1. Paid(n, ids[k]) = Total(credit, rows[k].incomes)
    BY InsertedPaid
  <2>2. Derived(n, ids[k])
    BY <2>1 DEF Derived, Inserted, RowsSound
  <2> QED  BY <2>1, <2>2, DerivedSound DEF ShareSound, Inserted, RowsSound
<1>2. ASSUME NEW h \in DOMAIN d.share PROVE ShareSound(n, h)
  <2>1. SettlementsOf(n, h) = SettlementsOf(d, h)
    BY DEF Inserted, NewPaid, SettlementsOf
  <2>2. Paid(n, h) = Paid(d, h)
    BY <2>1, PaidSame DEF Good
  <2> QED  BY <2>2 DEF Inserted, Sound, ShareSound
<1>3. Positive(n)
  BY DEF Inserted, NewPaid, RowsSound, Sound, Positive
<1> QED  BY <1>1, <1>2, <1>3 DEF Sound, Inserted

\* A credit of split s that a row names again is what it was.
CreditsKept(d, s, rows, credit) ==
    \A x \in d.paid, k \in DOMAIN rows :
        d.share[x.share].split = s /\ x.txn \in rows[k].incomes => credit[x.txn] = x.amount

\* What the writing of a split owes.
LEMMA InsertedStep ==
    ASSUME NEW d, NEW e, NEW n, NEW s, NEW exps, NEW rows, NEW ids, NEW credit,
           Good(d), Populated(d), Good(e), Sound(e), Good(n), Emptied(d, e, s),
           Inserted(e, n, s, exps, rows, ids, credit), RowsSound(rows, credit),
           \A k \in DOMAIN rows : ids[k] \notin DOMAIN d.share,
           CreditsKept(d, s, rows, credit), LinksOf(n, s) # {}, SharesOf(n, s) # {},
           s \in SplitIds, n.split[s] = "live", s \in DOMAIN d.split => d.split[s] = "live"
    PROVE  Step(d, n, {s})
<1>1. Sound(n) /\ \A k \in DOMAIN rows : Derived(n, ids[k])
  BY InsertedSound
<1>2. \A z \in DOMAIN n.split \ {s} :
         /\ z \in DOMAIN d.split /\ n.split[z] = d.split[z]
         /\ SharesOf(n, z) = SharesOf(d, z) /\ LinksOf(n, z) = LinksOf(d, z)
  BY OthersStay
<1>3. \A h \in DOMAIN n.share :
         \/ h \in DOMAIN d.share /\ n.share[h] = d.share[h] /\ SettlementsOf(n, h) = SettlementsOf(d, h)
         \/ h \notin DOMAIN d.share /\ Derived(n, h)
  <2> TAKE h \in DOMAIN n.share
  <2>1. CASE h \in DOMAIN e.share
    <3>1. SettlementsOf(n, h) = SettlementsOf(e, h)
      BY <2>1 DEF Inserted, NewPaid, SettlementsOf
    <3> QED  BY <2>1, <3>1 DEF Inserted, Emptied
  <2>2. CASE h \notin DOMAIN e.share
    BY <1>1, <2>2 DEF Inserted
  <2> QED  BY <2>1, <2>2
<1>4. Populated(n)
  BY <1>2 DEF Populated, Inserted, Emptied
<1>5. Untouched(d, n, {s})
  BY <1>2, <1>3 DEF Untouched, SharesOf
<1>6. Follows(d, n)
  BY <1>3 DEF Follows
<1>7. CreditsStay(d, n)
  <2> SUFFICES ASSUME NEW x \in d.paid, NEW y \in n.paid, x.txn = y.txn,
                      d.share[x.share].split = n.share[y.share].split
               PROVE  x.amount = y.amount
    BY DEF CreditsStay
  <2>1. CASE y \in e.paid
    BY <2>1 DEF Emptied, Good, IncomeOnce
  <2>2. CASE y \in NewPaid(rows, ids, credit)
    <3>1. PICK k \in DOMAIN rows : \E t \in rows[k].incomes :
             y = [share |-> ids[k], txn |-> t, amount |-> credit[t]]
      BY <2>2 DEF NewPaid
    <3>2. y.share = ids[k] /\ y.txn \in rows[k].incomes /\ y.amount = credit[y.txn]
      BY <3>1
    <3>3. n.share[y.share].split = s
      BY <3>2 DEF Inserted
    <3> QED  BY <3>2, <3>3 DEF CreditsKept
  <2> QED  BY <2>1, <2>2 DEF Inserted
<1>8. Claiming(d, n, s)
  <2>1. ASSUME NEW x \in d.paid, d.share[x.share].split # s
        PROVE  x \in n.paid /\ SameSplit(d, n, x)
    <3>1. x.share \in DOMAIN e.share
      BY <2>1 DEF Emptied, Good, Constraints, ForeignKeys
    <3>2. x \in SettlementsOf(e, x.share)
      BY <3>1 DEF Emptied, SettlementsOf
    <3> QED  BY <3>1, <3>2 DEF Emptied, Inserted, SettlementsOf, SameSplit
  <2>2. ASSUME NEW x \in n.paid, n.share[x.share].split # s
        PROVE  x \in d.paid /\ SameSplit(d, n, x)
    <3>1. x \in e.paid
      BY <2>2 DEF Inserted, NewPaid
    <3>2. x.share \in DOMAIN e.share
      BY <3>1 DEF Good, Constraints, ForeignKeys
    <3> QED  BY <3>1, <3>2 DEF Emptied, Inserted, SameSplit
  <2>3. \A l : l.split # s => (l \in n.links <=> l \in d.links)
    BY DEF Emptied, Inserted
  <2> QED  BY <1>2, <2>1, <2>2, <2>3 DEF Claiming, Emptied, Inserted
<1> QED  BY <1>1, <1>4, <1>5, <1>6, <1>7, <1>8 DEF Step, Claimed

\* The same of SaveSplit, which also finds a parent.
LEMMA SaveSplitStep ==
    ASSUME NEW d, NEW e, NEW s \in SplitIds, NEW exps \in SUBSET TxnIds,
           NEW rows, NEW taken, NEW credit,
           Good(d), Populated(d), Good(e), Sound(e), Emptied(d, e, s),
           s \in DOMAIN e.split => e.split[s] = "live",
           DOMAIN d.share \subseteq taken, HasShareIds(taken, rows), RowsFit(e, rows),
           RowsSound(rows, credit), CreditsKept(d, s, rows, credit),
           Commits(SaveSplit(e, taken, s, exps, rows, credit))
    PROVE  LET res == SaveSplit(e, taken, s, exps, rows, credit) IN Step(d, res.db, res.touched)
<1> DEFINE ids == NewShareIds(taken, rows)
           n == InsertRows(e, s, exps, rows, ids, credit)
<1>1. /\ SaveSplit(e, taken, s, exps, rows, credit).db = n
      /\ SaveSplit(e, taken, s, exps, rows, credit).touched = {s}
      /\ ValidSplit(n, s)
  BY DEF SaveSplit, Commits, Result
<1>2. DOMAIN e.share \subseteq taken
  BY DEF Emptied
<1>3. Good(n)
  BY <1>1, <1>2, SaveSplitGood
<1>4. ids \in [DOMAIN rows -> ShareIds \ taken] /\ IsInjective(ids)
  BY NewShareIdsFacts
<1> HIDE DEF ids
<1>5. Inserted(e, n, s, exps, rows, ids, credit)
  BY <1>2, <1>4, InsertRowsFacts DEF Good
<1>6. \A k \in DOMAIN rows : ids[k] \notin DOMAIN d.share
  BY <1>4
<1>7. LinksOf(n, s) # {} /\ SharesOf(n, s) # {}
  BY <1>1, <1>3, ValidSplitPopulated DEF Good
<1>8. n.split[s] = "live" /\ (s \in DOMAIN d.split => d.split[s] = "live")
  <2>1. n.split[s] = IF s \in DOMAIN e.split THEN e.split[s] ELSE "live"
    BY DEF InsertRows, Good, IsDatabase
  <2> QED  BY <2>1 DEF Emptied
<1> HIDE DEF n
<1>9. Step(d, n, {s})
  BY <1>3, <1>5, <1>6, <1>7, <1>8, InsertedStep
<1> QED  BY <1>1, <1>9

\* The rows of a body that fits are sound.
LEMMA BodyRowsSound ==
    ASSUME NEW v, NEW exps, NEW body, NEW credit, ValidBody(body), BodyFits(v, exps, body, credit),
           \A p \in DOMAIN body : \A t \in body[p].incomes : credit[t] > 0
    PROVE  RowsSound(BodyRows(body, credit), credit)
<1> DEFINE rows == BodyRows(body, credit)
<1>1. /\ DOMAIN rows = DOMAIN body
      /\ \A p \in DOMAIN body :
            /\ rows[p].amount = body[p].amount /\ rows[p].forgiven = body[p].forgiven
            /\ rows[p].incomes = body[p].incomes
            /\ rows[p].status = DeriveStatus(body[p].amount, Total(credit, body[p].incomes),
                                             body[p].forgiven)
  BY DEF BodyRows, CreditTotal, Total
<1> HIDE DEF rows
<1>2. \A p \in DOMAIN body :
         body[p].amount > 0 /\ body[p].forgiven >= 0 /\ body[p].incomes \subseteq TxnIds
  BY TablesAssumption DEF ValidBody, Draft
<1>3. \A p \in DOMAIN body :
         Total(credit, body[p].incomes) + body[p].forgiven <= body[p].amount
  BY DEF BodyFits, CreditTotal, Total
<1>4. RowsSound(rows, credit)
  BY <1>1, <1>2, <1>3 DEF RowsSound
<1> QED  BY <1>4 DEF rows

\* A new split has no rows to empty.
LEMMA NewSplitEmpty ==
    ASSUME NEW d, NEW s, Good(d), s \notin DOMAIN d.split
    PROVE  Emptied(d, d, s) /\ \A x \in d.paid : d.share[x.share].split # s
BY DEF Emptied, Good, Constraints, ForeignKeys

\* create_split credits free incomes in full, and checks that they fit.
LEMMA CreateSplitStep ==
    ASSUME NEW d, NEW exps \in SUBSET TxnIds, NEW body, ValidBody(body),
           Good(d), Sound(d), Populated(d), CreateSplitOk(d, exps, body),
           HasSplitId(d), HasShareIds(DOMAIN d.share, body),
           Commits(CreateSplitWrite(d, d, DOMAIN d.share, exps, body))
    PROVE  LET res == CreateSplitWrite(d, d, DOMAIN d.share, exps, body)
           IN  Step(d, res.db, res.touched)
<1> DEFINE credit == FullCredit(d)
           rows == BodyRows(body, credit)
           s == NewSplitId(d)
<1>1. RowsFit(d, rows) /\ DOMAIN rows = DOMAIN body
  BY BodyRowsFit DEF CreateSplitOk
<1>2. HasShareIds(DOMAIN d.share, rows)
  BY <1>1 DEF HasShareIds
<1>3. s \in SplitIds /\ s \notin DOMAIN d.split
  BY NewSplitIdFacts
<1>4. CreateSplitWrite(d, d, DOMAIN d.share, exps, body)
      = SaveSplit(d, DOMAIN d.share, s, exps, rows, credit)
  BY DEF CreateSplitWrite
<1>5. RowsSound(rows, credit)
  <2>1. \A p \in DOMAIN body : \A t \in body[p].incomes : credit[t] > 0
    BY FullCreditPositive DEF CreateSplitOk, IsIncome, LiveTxn, Good
  <2> QED  BY <2>1, BodyRowsSound DEF CreateSplitOk
<1> HIDE DEF rows, s, credit
<1>6. Emptied(d, d, s) /\ CreditsKept(d, s, rows, credit)
  BY <1>3, NewSplitEmpty DEF CreditsKept
<1> QED  BY <1>1, <1>2, <1>3, <1>4, <1>5, <1>6, SaveSplitStep

\* What an update first takes away leaves the other splits sound.
LEMMA ClearSplitStep ==
    ASSUME NEW d, NEW s, Good(d), Sound(d)
    PROVE  LET e == ClearSplit(d, s) IN Good(e) /\ Sound(e) /\ Emptied(d, e, s)
<1> DEFINE e == ClearSplit(d, s)
<1>1. Good(e) /\ Emptied(d, e, s)
  BY ClearSplitGood
<1> HIDE DEF e
<1>2. Sound(e)
  <2>1. Positive(e)
    BY <1>1 DEF Positive, Sound, Emptied
  <2>2. ASSUME NEW h \in DOMAIN e.share PROVE ShareSound(e, h)
    <3>1. Paid(e, h) = Paid(d, h)
      BY <1>1, PaidSame DEF Good, Emptied
    <3> QED  BY <1>1, <3>1 DEF Sound, ShareSound, Emptied
  <2> QED  BY <2>1, <2>2 DEF Sound
<1> QED  BY <1>1, <1>2 DEF e

\* An update credits what it credited before.
LEMMA KeptCreditFacts ==
    ASSUME NEW d, NEW s, Good(d), Sound(d), NEW t \in DOMAIN d.txn
    PROVE  /\ KeptCredit(d, s)[t] > 0
           /\ \A x \in CreditsOf(d, t) : x.share \in SharesOf(d, s) => KeptCredit(d, s)[t] = x.amount
<1> DEFINE kept == {x \in CreditsOf(d, t) : x.share \in SharesOf(d, s)}
<1>1. KeptCredit(d, s)[t] = IF kept # {} THEN (CHOOSE x \in kept : TRUE).amount ELSE d.txn[t].amount
  BY DEF KeptCredit
<1>2. \A x \in kept : x.amount > 0
  BY DEF CreditsOf, Sound, Positive
<1>3. d.txn[t].amount > 0
  BY FullCreditPositive DEF Good
<1>4. \A x, y \in kept : x = y
  BY DEF CreditsOf, Good, IncomeOnce
<1>5. \A x \in CreditsOf(d, t) : x.share \in SharesOf(d, s) => x \in kept
  OBVIOUS
<1> HIDE DEF kept
<1> QED  BY <1>1, <1>2, <1>3, <1>4, <1>5

\* update_split deletes the rows of the split and inserts the new ones.
LEMMA UpdateSplitStep ==
    ASSUME NEW d, NEW s \in SplitIds, NEW exps \in SUBSET TxnIds, NEW body, ValidBody(body),
           Good(d), Sound(d), Populated(d), UpdateSplitOk(d, s, exps, body),
           HasShareIds(DOMAIN d.share, body),
           Commits(UpdateSplitWrite(d, d, DOMAIN d.share, s, exps, body))
    PROVE  LET res == UpdateSplitWrite(d, d, DOMAIN d.share, s, exps, body)
           IN  Step(d, res.db, res.touched)
<1> DEFINE e == ClearSplit(d, s)
           credit == KeptCredit(d, s)
           rows == BodyRows(body, credit)
<1>1. Good(e) /\ Sound(e) /\ Emptied(d, e, s)
  BY ClearSplitStep
<1>2. e.split[s] = "live"
  BY <1>1 DEF UpdateSplitOk, IsLive, Emptied
<1>3. \A p \in DOMAIN body : \A t \in body[p].incomes : CreditsOf(e, t) = {}
  BY ClearSplitGood DEF UpdateSplitOk, CreditsOf
<1>4. RowsFit(e, rows) /\ DOMAIN rows = DOMAIN body
  BY <1>3, BodyRowsFit
<1>5. HasShareIds(DOMAIN d.share, rows)
  BY <1>4 DEF HasShareIds
<1>6. UpdateSplitWrite(d, d, DOMAIN d.share, s, exps, body)
      = SaveSplit(e, DOMAIN d.share, s, exps, rows, credit)
  BY DEF UpdateSplitWrite
<1> HIDE DEF e
<1>7. \A p \in DOMAIN body : body[p].incomes \subseteq DOMAIN d.txn /\ rows[p].incomes = body[p].incomes
  BY DEF UpdateSplitOk, IsIncome, LiveTxn, BodyRows
<1> HIDE DEF rows, credit
<1>8. RowsSound(rows, credit)
  <2>1. \A p \in DOMAIN body : \A t \in body[p].incomes : credit[t] > 0
    BY <1>7, KeptCreditFacts DEF credit
  <2> QED  BY <2>1, BodyRowsSound DEF UpdateSplitOk, rows, credit
<1>9. CreditsKept(d, s, rows, credit)
  <2> SUFFICES ASSUME NEW x \in d.paid, NEW k \in DOMAIN rows, d.share[x.share].split = s,
                      x.txn \in rows[k].incomes
               PROVE  credit[x.txn] = x.amount
    BY DEF CreditsKept
  <2>1. x \in CreditsOf(d, x.txn) /\ x.share \in SharesOf(d, s)
    BY DEF CreditsOf, SharesOf, Good, Constraints, ForeignKeys
  <2>2. x.txn \in DOMAIN d.txn
    BY <1>4, <1>7
  <2> QED  BY <2>1, <2>2, KeptCreditFacts DEF credit
<1> QED  BY <1>1, <1>2, <1>4, <1>5, <1>6, <1>8, <1>9, SaveSplitStep

\* A bundle's shares: the incomes of one payer, a write-off, or the rest.
LEMMA BundleRowsSound ==
    ASSUME NEW d, NEW exps, NEW incs \in SUBSET TxnIds, NEW offs, Good(d),
           BundleSplitOk(d, exps, incs, offs), offs \in [DOMAIN offs -> 1..MaxMoney],
           BundleRest(d, exps, incs, offs) \in Int
    PROVE  RowsSound(BundleRows(d, exps, incs, offs), FullCredit(d))
<1> DEFINE credit == FullCredit(d)
           rows == BundleRows(d, exps, incs, offs)
           Group(p) == {t \in incs : PayerOf(d, t) = p}
           groups == {"income"} \X {PayerOf(d, t) : t \in incs}
           writeOff == {"forgiven"} \X DOMAIN offs
           rest == BundleRest(d, exps, incs, offs)
           Sum(k) == TxnTotal(d, Group(k[2]))
           off(k) == offs[k[2]]
<1>1. \A k \in DOMAIN rows :
         \/ k \in groups /\ rows[k] = BundleRow(k[2], Sum(k), 0, "settled", Group(k[2]))
         \/ k \in writeOff /\ rows[k] = BundleRow(k[2], off(k), off(k), "forgiven", {})
         \/ rest > 0 /\ rows[k] = BundleRow(NoPayee, rest, 0, "pending", {})
  BY DEF BundleRows
<1>2. \A t \in incs : t \in DOMAIN d.txn /\ credit[t] \in Nat /\ credit[t] > 0
  BY FullCreditPositive DEF BundleSplitOk, IsIncome, LiveTxn, Good
<1>3. ASSUME NEW k \in groups
      PROVE  Sum(k) = Total(credit, Group(k[2])) /\ Sum(k) \in Nat /\ Sum(k) > 0
  <2>1. PICK t \in incs : PayerOf(d, t) = k[2]
    OBVIOUS
  <2>2. t \in Group(k[2])
    BY <2>1
  <2>3. IsFiniteSet(Group(k[2])) /\ Group(k[2]) \subseteq DOMAIN d.txn
    BY <1>2, FiniteIds, FS_Subset
  <2>4. \A u \in Group(k[2]) : credit[u] \in Nat
    BY <1>2
  <2>5. Sum(k) = Total(credit, Group(k[2]))
    BY <2>3, TxnTotalTotal
  <2> HIDE DEF credit, Group, Sum
  <2> QED  BY <1>2, <2>1, <2>2, <2>3, <2>4, <2>5, TotalPositive, TotalNat
<1>4. \A k \in writeOff : off(k) \in Nat /\ off(k) > 0
  <2>1. \A p \in DOMAIN offs : offs[p] \in 1..MaxMoney
    OBVIOUS
  <2> QED  BY <2>1, TablesAssumption
<1>5. Total(credit, {}) = 0
  BY TotalEmpty
<1> HIDE DEF credit, rows, groups, writeOff, rest, Sum, off
<1>6. ASSUME NEW k \in DOMAIN rows
      PROVE  /\ rows[k].incomes \subseteq incs
             /\ rows[k].amount > 0 /\ rows[k].forgiven >= 0
             /\ Total(credit, rows[k].incomes) + rows[k].forgiven <= rows[k].amount
             /\ rows[k].status =
                   DeriveStatus(rows[k].amount, Total(credit, rows[k].incomes), rows[k].forgiven)
  <2>1. CASE k \in groups /\ rows[k] = BundleRow(k[2], Sum(k), 0, "settled", Group(k[2]))
    BY <1>3, <2>1 DEF BundleRow, DeriveStatus
  <2>2. CASE k \in writeOff /\ rows[k] = BundleRow(k[2], off(k), off(k), "forgiven", {})
    BY <1>4, <1>5, <2>2 DEF BundleRow, DeriveStatus
  <2>3. CASE rest > 0 /\ rows[k] = BundleRow(NoPayee, rest, 0, "pending", {})
    <3>1. rest \in Int
      BY DEF rest
    <3> QED  BY <1>5, <2>3, <3>1 DEF BundleRow, DeriveStatus
  <2> QED  BY <1>1, <2>1, <2>2, <2>3
<1>7. RowsSound(rows, credit)
  BY <1>2, <1>6 DEF RowsSound
<1> QED  BY <1>7 DEF rows, credit

\* What a bundle leaves to the user is a number.
LEMMA BundleRestWhole ==
    ASSUME NEW d, NEW exps \in SUBSET TxnIds, NEW incs \in SUBSET TxnIds, NEW offs, Good(d),
           BundleSplitOk(d, exps, incs, offs),
           DOMAIN offs \subseteq PayeeRef, offs \in [DOMAIN offs -> 1..MaxMoney]
    PROVE  BundleRest(d, exps, incs, offs) \in Int
<1>1. \A T \in SUBSET DOMAIN d.txn : TxnTotal(d, T) \in Int
  <2> TAKE T \in SUBSET DOMAIN d.txn
  <2>1. IsFiniteSet(T)
    BY FiniteRows, FS_Subset DEF Good
  <2>2. Whole(FullCredit(d), T)
    BY FullCreditPositive DEF Whole, Good
  <2> QED  BY <2>1, <2>2, TxnTotalTotal, TotalWhole
<1>2. exps \subseteq DOMAIN d.txn /\ incs \subseteq DOMAIN d.txn
  BY DEF BundleSplitOk, SplitParent, IsExpense, IsIncome, LiveTxn
<1>3. WriteOffTotal(offs) \in Int
  <2>1. IsFiniteSet(PayeeRef)
    BY FiniteIds, FS_AddElement DEF PayeeRef
  <2>2. IsFiniteSet(DOMAIN offs)
    BY <2>1, FS_Subset
  <2>3. Whole(offs, DOMAIN offs)
    <3>1. \A p \in DOMAIN offs : offs[p] \in 1..MaxMoney
      OBVIOUS
    <3> QED  BY <3>1 DEF Whole
  <2>4. WriteOffTotal(offs) = Total(offs, DOMAIN offs)
    BY DEF WriteOffTotal, Total
  <2> QED  BY <2>2, <2>3, <2>4, TotalWhole
<1> QED  BY <1>1, <1>2, <1>3 DEF BundleRest

\* bundle_split inserts the shares of the incomes, the write-offs and the rest.
LEMMA BundleSplitStep ==
    ASSUME NEW d, NEW exps \in SUBSET TxnIds, NEW incs \in SUBSET TxnIds, NEW offs,
           DOMAIN offs \subseteq PayeeRef, offs \in [DOMAIN offs -> 1..MaxMoney],
           Good(d), Sound(d), Populated(d), BundleSplitOk(d, exps, incs, offs),
           HasSplitId(d), HasShareIds(DOMAIN d.share, BundleRows(d, exps, incs, offs)),
           Commits(BundleSplitWrite(d, d, DOMAIN d.share, exps, incs, offs))
    PROVE  LET res == BundleSplitWrite(d, d, DOMAIN d.share, exps, incs, offs)
           IN  Step(d, res.db, res.touched)
<1> DEFINE credit == FullCredit(d)
           rows == BundleRows(d, exps, incs, offs)
           s == NewSplitId(d)
<1>1. RowsFit(d, rows)
  BY BundleRowsFit DEF BundleSplitOk, Good
<1>2. s \in SplitIds /\ s \notin DOMAIN d.split
  BY NewSplitIdFacts
<1>3. BundleSplitWrite(d, d, DOMAIN d.share, exps, incs, offs)
      = SaveSplit(d, DOMAIN d.share, s, exps, rows, credit)
  BY DEF BundleSplitWrite
<1>4. RowsSound(rows, credit)
  BY BundleRestWhole, BundleRowsSound
<1> HIDE DEF s, credit
<1>5. Emptied(d, d, s) /\ CreditsKept(d, s, rows, credit)
  BY <1>2, NewSplitEmpty DEF CreditsKept
<1> HIDE DEF rows
<1> QED  BY <1>1, <1>2, <1>3, <1>4, <1>5, SaveSplitStep DEF rows

\* delete_split closes the split, and takes what it held.
LEMMA DeleteSplitStep ==
    ASSUME NEW d, NEW s \in SplitIds, Good(d), Sound(d), Populated(d),
           DeleteSplitOk(d, s), Commits(DeleteSplitWrite(d, d, s))
    PROVE  LET res == DeleteSplitWrite(d, d, s) IN Step(d, res.db, res.touched)
<1> DEFINE n == DeleteSplitWrite(d, d, s).db
           touched == DeleteSplitWrite(d, d, s).touched
<1>1. /\ n.txn = d.txn /\ n.share = d.share
      /\ n.links = d.links \ LinksOf(d, s)
      /\ n.paid = {x \in d.paid : x.share \notin SharesOf(d, s)}
      /\ n.split = [z \in DOMAIN d.split |-> IF z = s THEN "deleted" ELSE d.split[z]]
  BY DEF DeleteSplitWrite, Result, Good, IsDatabase
<1>2. Good(n)
  BY DeleteSplitGood
<1> HIDE DEF n, touched
<1>3. \A h \in DOMAIN d.share : /\ SettlementsOf(n, h) \subseteq SettlementsOf(d, h)
                                /\ d.share[h].split # s => SettlementsOf(n, h) = SettlementsOf(d, h)
  BY <1>1 DEF SettlementsOf, SharesOf
<1>4. Sound(n)
  <2>1. ASSUME NEW h \in DOMAIN d.share PROVE ShareSound(n, h)
    <3>1. Paid(n, h) \in Nat /\ Paid(n, h) <= Paid(d, h) /\ Paid(d, h) \in Nat
      BY <1>2, <1>3, PaidFewer, PaidType DEF Good, Sound
    <3>2. d.share[h].amount \in Int /\ d.share[h].forgiven \in Int
      BY DEF Good, IsDatabase, IsTable, ShareRow, Money
    <3> QED  BY <1>1, <3>1, <3>2 DEF Sound, ShareSound
  <2> QED  BY <1>1, <2>1 DEF Sound, Positive
<1>5. Populated(n)
  BY <1>1 DEF Populated, LinksOf, SharesOf
<1>6. Untouched(d, n, touched)
  BY <1>1 DEF Untouched, SharesOf, LinksOf
<1>7. Follows(d, n)
  BY <1>1, <1>3 DEF Follows, IsLive
<1>8. CreditsStay(d, n)
  BY <1>1 DEF CreditsStay, Good, IncomeOnce
<1>9. Closing(d, n, s)
  <2>1. \A x \in d.paid : x.share \in DOMAIN d.share
    BY DEF Good, Constraints, ForeignKeys
  <2>2. n.paid = {x \in d.paid : d.share[x.share].split # s}
    BY <1>1, <2>1 DEF SharesOf
  <2> QED  BY <1>1, <2>2 DEF Closing, LinksOf, SameSplit, DeleteSplitOk, IsLive
<1> QED  BY <1>4, <1>5, <1>6, <1>7, <1>8, <1>9 DEF Step, Claimed, n, touched

-----------------------------------------------------------------------------
(***************************************************************************)
(* Handlers on transactions and payees.                                    *)
(***************************************************************************)

\* Those that change no table of splits owe nothing.
LEMMA LedgerStep ==
    ASSUME NEW d, NEW n, NEW touched, Good(d), Sound(d), Populated(d), Good(n),
           n.split = d.split, n.share = d.share, n.links = d.links, n.paid = d.paid
    PROVE  Step(d, n, touched)
<1>1. \A h : SettlementsOf(n, h) = SettlementsOf(d, h)
  BY DEF SettlementsOf
<1>2. \A h : Paid(n, h) = Paid(d, h)
  BY <1>1, PaidSame DEF Good
<1>3. Sound(n)
  BY <1>2 DEF Sound, Positive, ShareSound
<1>4. Populated(n) /\ Untouched(d, n, touched)
  BY DEF Populated, Untouched, SharesOf, LinksOf
<1>5. Follows(d, n)
  BY <1>1 DEF Follows
<1>6. CreditsStay(d, n)
  BY DEF CreditsStay, Good, IncomeOnce
<1>7. Claimed(d, n)
  BY DEF Claimed, Forgetting, SameSplit
<1> QED  BY <1>3, <1>4, <1>5, <1>6, <1>7 DEF Step

\* The purge may take payments away, with their incomes.
LEMMA PurgeMoneyStep ==
    ASSUME NEW d, Good(d), Sound(d), Populated(d), Commits(PurgeWrite(d))
    PROVE  Step(d, PurgeWrite(d).db, PurgeWrite(d).touched)
<1> DEFINE n == PurgeWrite(d).db
           touched == PurgeWrite(d).touched
<1>1. Good(n)
  BY PurgeGood
<1>2. /\ n.split = d.split /\ n.links = d.links
      /\ DOMAIN n.txn = DOMAIN d.txn \ ExpiredTxns(d)
      /\ n.paid = {x \in d.paid : x.txn \notin ExpiredTxns(d)}
  BY PurgeRows DEF Good
<1>3. /\ DOMAIN n.share = DOMAIN d.share
      /\ \A h \in DOMAIN d.share :
            /\ n.share[h].split = d.share[h].split /\ n.share[h].amount = d.share[h].amount
            /\ n.share[h].forgiven = d.share[h].forgiven /\ n.share[h].status = d.share[h].status
  BY PurgeRows DEF Good
<1> HIDE DEF n, touched
<1>4. \A h : SettlementsOf(n, h) \subseteq SettlementsOf(d, h)
  BY <1>2 DEF SettlementsOf
<1>5. Sound(n)
  <2>1. ASSUME NEW h \in DOMAIN d.share PROVE ShareSound(n, h)
    <3>1. Paid(n, h) \in Nat /\ Paid(n, h) <= Paid(d, h) /\ Paid(d, h) \in Nat
      BY <1>1, <1>4, PaidFewer, PaidType DEF Good, Sound
    <3>2. d.share[h].amount \in Int /\ d.share[h].forgiven \in Int
      BY DEF Good, IsDatabase, IsTable, ShareRow, Money
    <3> QED  BY <1>3, <3>1, <3>2 DEF Sound, ShareSound
  <2> QED  BY <1>2, <1>3, <2>1 DEF Sound, Positive
<1>6. Populated(n)
  BY <1>2, <1>3 DEF Populated, LinksOf, SharesOf
<1>7. Untouched(d, n, touched)
  <2>1. \A s : SharesOf(n, s) = SharesOf(d, s) /\ LinksOf(n, s) = LinksOf(d, s)
    BY <1>2, <1>3 DEF SharesOf, LinksOf
  <2> QED  BY <1>2, <1>3, <2>1 DEF Untouched, SharesOf
<1>8. Follows(d, n)
  <2>1. ASSUME DOMAIN d.txn \subseteq DOMAIN n.txn
        PROVE  \A h : SettlementsOf(n, h) = SettlementsOf(d, h)
    <3>1. n.paid = d.paid
      BY <1>2, <2>1 DEF ExpiredTxns
    <3> QED  BY <3>1 DEF SettlementsOf
  <2> QED  BY <1>3, <2>1 DEF Follows
<1>9. CreditsStay(d, n)
  BY <1>2 DEF CreditsStay, Good, IncomeOnce
<1>10. Claimed(d, n)
  <2>1. \A x \in n.paid : x \in d.paid /\ x.share \in DOMAIN d.share
    BY <1>2 DEF Good, Constraints, ForeignKeys
  <2> QED  BY <1>2, <1>3, <2>1 DEF Claimed, Forgetting, SameSplit
<1> QED  BY <1>5, <1>6, <1>7, <1>8, <1>9, <1>10 DEF Step, n, touched

-----------------------------------------------------------------------------
(***************************************************************************)
(* The invariant, and every step of the specification.                     *)
(***************************************************************************)
MoneyInv == IInv /\ Sound(db) /\ Populated(db)

\* A step of the tables whose touched splits the trigger accepts.
Moves == \E touched : Step(db, db', touched) /\ TriggerAccepts(db', touched)

\* A handler that committed moves the database.
LEMMA CommitMoves ==
    ASSUME NEW res, Step(db, res.db, res.touched), Handle(res) \/ Edit(res)
    PROVE  Moves
BY DEF Handle, Edit, Commits, CommitAccepts, Moves

\* Requests on whole splits,
LEMMA SplitRequestMoves == MoneyInv /\ SplitRequest => Moves
<1> SUFFICES ASSUME MoneyInv, SplitRequest PROVE Moves
  OBVIOUS
<1> USE DEF MoneyInv, IInv
<1>1. ASSUME NEW exps \in Expenses, NEW body \in Bodies, CreateSplit(exps, body) PROVE Moves
  <2>1. exps \in SUBSET TxnIds /\ ValidBody(body)
    BY SplitsAssumption DEF Expenses
  <2> QED  BY <1>1, <2>1, CreateSplitStep, CommitMoves DEF CreateSplit, Handle
<1>2. ASSUME NEW s \in SplitIds, NEW exps \in Expenses, NEW body \in Bodies,
             UpdateSplit(s, exps, body)
      PROVE  Moves
  <2>1. exps \in SUBSET TxnIds /\ ValidBody(body)
    BY SplitsAssumption DEF Expenses
  <2> QED  BY <1>2, <2>1, UpdateSplitStep, CommitMoves DEF UpdateSplit, Handle
<1>3. ASSUME NEW exps \in Expenses, NEW incs \in Incomes, NEW offs \in WriteOffs,
             BundleSplit(exps, incs, offs)
      PROVE  Moves
  <2>1. /\ exps \in SUBSET TxnIds /\ incs \in SUBSET TxnIds
        /\ DOMAIN offs \subseteq PayeeRef /\ offs \in [DOMAIN offs -> 1..MaxMoney]
    BY SplitsAssumption DEF Expenses, Incomes
  <2> QED  BY <1>3, <2>1, BundleSplitStep, CommitMoves DEF BundleSplit, Handle
<1>4. ASSUME NEW s \in SplitIds, DeleteSplit(s) PROVE Moves
  BY <1>4, DeleteSplitStep, CommitMoves DEF DeleteSplit, Handle
<1> QED  BY <1>1, <1>2, <1>3, <1>4 DEF SplitRequest

\* requests on shares,
LEMMA ShareRequestMoves == MoneyInv /\ ShareRequest => Moves
<1> SUFFICES ASSUME MoneyInv, NEW h \in ShareIds,
                    \/ \E fields \in SUBSET {"amount", "payee"}, amount \in Amounts,
                          payee \in PayeeRef : PatchShare(h, fields, amount, payee)
                    \/ \E t \in TxnIds, credit \in Amounts : SettleShare(h, t, credit)
                    \/ \E x \in db.paid : UnlinkSettlement(h, x)
                    \/ \E amount \in Amounts \cup {0} : ForgiveShare(h, amount)
                    \/ UnsettleShare(h)
             PROVE  Moves
  BY DEF ShareRequest, Given
<1> USE DEF MoneyInv, IInv
<1>1. ASSUME NEW fields, NEW amount \in Amounts, NEW payee \in PayeeRef,
             PatchShare(h, fields, amount, payee)
      PROVE  Moves
  BY <1>1, SplitsAssumption, PatchShareStep, CommitMoves DEF PatchShare, Handle
<1>2. ASSUME NEW t \in TxnIds, NEW credit \in Amounts, SettleShare(h, t, credit) PROVE Moves
  BY <1>2, SplitsAssumption, SettleShareStep, CommitMoves DEF SettleShare, Handle
<1>3. ASSUME NEW x, UnlinkSettlement(h, x) PROVE Moves
  BY <1>3, UnlinkSettlementStep, CommitMoves DEF UnlinkSettlement, Handle
<1>4. ASSUME NEW amount \in Amounts \cup {0}, ForgiveShare(h, amount) PROVE Moves
  <2>1. amount \in Nat
    BY SplitsAssumption, TablesAssumption
  <2> QED  BY <1>4, <2>1, ForgiveShareStep, CommitMoves DEF ForgiveShare, Handle
<1>5. ASSUME UnsettleShare(h) PROVE Moves
  BY <1>5, UnsettleShareStep, CommitMoves DEF UnsettleShare, Handle
<1> QED  BY <1>1, <1>2, <1>3, <1>4, <1>5

\* requests on transactions and payees and the passing of 30 days,
LEMMA LedgerMoves == MoneyInv /\ (LedgerRequest \/ Expire) => Moves
<1> SUFFICES ASSUME MoneyInv, LedgerRequest \/ Expire PROVE Moves
  OBVIOUS
<1> DEFINE Same == /\ db'.split = db.split /\ db'.share = db.share
                   /\ db'.links = db.links /\ db'.paid = db.paid
<1>1. DOMAIN db = {"txn", "payee", "split", "share", "links", "paid"}
  BY DEF MoneyInv, IInv, Good, IsDatabase
<1>2. LedgerRequest => Same
  <2>1. ASSUME NEW t, NEW type, NEW amount, CreateTxn(t, type, amount) PROVE Same
    BY <1>1, <2>1 DEF CreateTxn, Edit, CreateTxnWrite, Result
  <2>2. ASSUME NEW t, NEW type, NEW amount, PatchTxn(t, type, amount) PROVE Same
    BY <1>1, <2>2 DEF PatchTxn, Edit, PatchTxnWrite, Result
  <2>3. ASSUME NEW olds, NEW t, NEW type, NEW amount, ReplaceTxns(olds, t, type, amount) PROVE Same
    BY <1>1, <2>3 DEF ReplaceTxns, Edit, ReplaceTxnsWrite, Result
  <2>4. ASSUME NEW t, DeleteTxn(t) \/ RestoreTxn(t) PROVE Same
    BY <1>1, <2>4 DEF DeleteTxn, RestoreTxn, Edit, Handle, DeleteTxnWrite, RestoreTxnWrite, Result
  <2>5. ASSUME NEW p, DeletePayee(p) \/ RestorePayee(p) PROVE Same
    BY <1>1, <2>5 DEF DeletePayee, RestorePayee, Edit, Handle, DeletePayeeWrite, RestorePayeeWrite, Result
  <2> HIDE DEF Same
  <2> QED  BY <2>1, <2>2, <2>3, <2>4, <2>5 DEF LedgerRequest
<1>3. Expire => Same
  BY <1>1 DEF Expire, ExpireTxn, ExpirePayee, Handle, Result
<1>4. Good(db')
  BY LedgerRequestStep, ExpireStep DEF MoneyInv, IInv
<1>5. Step(db, db', {})
  BY <1>2, <1>3, <1>4, LedgerStep DEF MoneyInv, IInv
<1> QED  BY <1>5 DEF Moves, TriggerAccepts

\* and the purge.
LEMMA PurgeMoves == MoneyInv /\ Purge => Moves
BY PurgeMoneyStep, CommitMoves DEF MoneyInv, IInv, Purge, Handle

\* Every step does, and keeps the invariant.
LEMMA NextMoves == MoneyInv /\ Next => MoneyInv' /\ Moves
<1> SUFFICES ASSUME MoneyInv, Next PROVE MoneyInv' /\ Moves
  OBVIOUS
<1>1. IInv'
  BY SplitRequestStep, ShareRequestStep, LedgerRequestStep, ExpireStep, PurgeStep DEF Next, MoneyInv
<1>2. Moves
  BY SplitRequestMoves, ShareRequestMoves, LedgerMoves, PurgeMoves DEF Next
<1>3. Sound(db') /\ Populated(db')
  BY <1>2 DEF Moves, Step
<1> QED  BY <1>1, <1>2, <1>3 DEF MoneyInv

\* The amounts are sound in every reachable state, whatever their values.
THEOREM MoneyInvariance == Spec => []MoneyInv
<1>1. Init => MoneyInv
  BY InitInv DEF Init, MoneyInv, Sound, Positive, Populated
<1>2. MoneyInv /\ [Next]_vars => MoneyInv'
  <2>1. MoneyInv /\ UNCHANGED vars => MoneyInv'
    BY DEF MoneyInv, IInv, vars
  <2> QED  BY <2>1, NextMoves
<1> QED  BY <1>1, <1>2, PTL DEF Spec

\* A share is never credited and forgiven beyond its amount.
THEOREM CoveredHolds == Spec => []CoveredWithinShare
<1>1. MoneyInv => CoveredWithinShare
  BY DEF MoneyInv, Sound, ShareSound, CoveredWithinShare
<1> QED  BY <1>1, MoneyInvariance, PTL

\* Status follows what a request changed.
THEOREM StatusHolds == Spec => StatusFollowsPayments
<1> DEFINE Act == \A h \in DOMAIN db'.share :
          /\ \/ h \notin DOMAIN db.share
             \/ db'.share[h].forgiven # db.share[h].forgiven
             \/ SettlementsOf(db', h) # SettlementsOf(db, h)
          /\ IsLive(db'.split, db'.share[h].split)
          /\ DOMAIN db.txn \subseteq DOMAIN db'.txn
          => db'.share[h].status =
                DeriveStatus(db'.share[h].amount, Paid(db', h), db'.share[h].forgiven)
<1>1. MoneyInv /\ [Next]_vars => [Act]_vars
  BY NextMoves DEF Moves, Step, Follows, Derived
<1> HIDE DEF Act
<1>2. Spec => [][Act]_vars
  BY <1>1, MoneyInvariance, PTL DEF Spec
<1> QED  BY <1>2 DEF StatusFollowsPayments, Act

\* An income's credit stays what it is while the income stays in its split.
THEOREM CreditsHold == Spec => CreditsAreKept
<1> DEFINE Act == \A x \in db.paid, y \in db'.paid :
          x.txn = y.txn /\ db.share[x.share].split = db'.share[y.share].split
          => x.amount = y.amount
<1>1. MoneyInv /\ [Next]_vars => [Act]_vars
  BY NextMoves DEF Moves, Step, CreditsStay
<1> HIDE DEF Act
<1>2. Spec => [][Act]_vars
  BY <1>1, MoneyInvariance, PTL DEF Spec
<1> QED  BY <1>2 DEF CreditsAreKept, Act

-----------------------------------------------------------------------------
(***************************************************************************)
(* Cost and payments.                                                      *)
(***************************************************************************)
\* A share with a payee counts as the user's cost with what was forgiven of it,
\* and in full only if nothing was received.
LEMMA CostPlusPaid ==
    ASSUME NEW d, NEW h \in DOMAIN d.share, Good(d), Sound(d), d.share[h].payee # NoPayee
    PROVE  OwnCost(d.share[h]) + Paid(d, h) <= d.share[h].amount
<1>1. d.share[h].amount \in Int /\ d.share[h].forgiven \in Int
  BY DEF Good, IsDatabase, IsTable, ShareRow, Money
<1>2. Paid(d, h) \in Nat
  BY PaidType DEF Good, Sound
<1>3. ShareSound(d, h)
  BY DEF Sound
<1> QED  BY <1>1, <1>2, <1>3 DEF OwnCost, ShareSound

\* No amount a payee paid is reported as the user's cost.
THEOREM CostHolds == Spec => []CostPlusPaidWithinShare
<1>1. MoneyInv => CostPlusPaidWithinShare
  BY CostPlusPaid DEF MoneyInv, IInv, CostPlusPaidWithinShare
<1> QED  BY <1>1, MoneyInvariance, PTL

-----------------------------------------------------------------------------
(***************************************************************************)
(* Balance.                                                                *)
(***************************************************************************)

\* No step unbalances a split but one that edits the amount of its expense.
THEOREM BalanceHolds == Spec => StepsKeepBalance
<1> DEFINE Act == \A s \in DOMAIN db'.split :
          /\ db'.split[s] = "live"
          /\ s \in DOMAIN db.split => Balanced(db, s) /\ SameParents(s)
          => Balanced(db', s)
<1>1. ASSUME MoneyInv, MoneyInv', Moves PROVE Act
  <2> SUFFICES ASSUME NEW s \in DOMAIN db'.split, db'.split[s] = "live",
                      s \in DOMAIN db.split => Balanced(db, s) /\ SameParents(s)
               PROVE  Balanced(db', s)
    OBVIOUS
  <2>1. PICK touched : Step(db, db', touched) /\ TriggerAccepts(db', touched)
    BY <1>1 DEF Moves
  <2>2. Good(db) /\ Good(db')
    BY <1>1 DEF MoneyInv, IInv
  <2>3. CASE s \in touched
    <3>1. LinksOf(db', s) # {}
      BY <2>1 DEF Step, Populated
    <3> QED  BY <2>1, <2>2, <2>3, <3>1, LinkedTotalPositive DEF TriggerAccepts, Good
  <2>4. CASE s \notin touched
    BY <2>1, <2>2, <2>4, UntouchedBalanced DEF Step, Untouched, SameParents, Good
  <2> QED  BY <2>3, <2>4
<1> HIDE DEF Act
<1>2. MoneyInv /\ [Next]_vars => [Act]_vars
  BY <1>1, NextMoves
<1>3. Spec => [][Act]_vars
  BY <1>2, MoneyInvariance, PTL DEF Spec
<1> QED  BY <1>3 DEF StepsKeepBalance, Act

-----------------------------------------------------------------------------
(***************************************************************************)
(* Splits implement SplitClaims: every step of the handlers, seen through  *)
(* the refinement mapping, is a Claim, Close or Forget of the abstract     *)
(* specification, or changes none of its variables.                        *)
(***************************************************************************)

\* The refinement mapping, of a database d: ClaimStatus is StatusIn(db), and so on.
StatusIn(d) ==
    [s \in SplitIds |-> IF s \notin DOMAIN d.split THEN "unused"
                        ELSE IF d.split[s] = "live" THEN "open" ELSE "closed"]

ParentIn(d) ==
    [t \in TxnIds |-> IF IsLinked(d, t) THEN (CHOOSE l \in d.links : l.txn = t).split
                      ELSE Unclaimed]

PaymentIn(d) ==
    [t \in TxnIds |-> IF CreditsOf(d, t) = {} THEN Unclaimed
                      ELSE d.share[(CHOOSE x \in CreditsOf(d, t) : TRUE).share].split]

\* A transaction is claimed as a parent by the split of its only link,
LEMMA ParentFacts ==
    ASSUME NEW d, Good(d), NEW t \in TxnIds
    PROVE  /\ \A l \in d.links : l.txn = t => ParentIn(d)[t] = l.split
           /\ ParentIn(d)[t] # Unclaimed => \E l \in d.links : l.txn = t /\ l.split = ParentIn(d)[t]
           /\ ParentIn(d)[t] \in SplitIds \cup {Unclaimed}
<1>1. ParentIn(d)[t] = IF IsLinked(d, t) THEN (CHOOSE l \in d.links : l.txn = t).split ELSE Unclaimed
  BY DEF ParentIn
<1>2. \A k, l \in d.links : k.txn = l.txn => k = l
  BY DEF Good, Constraints, OneParentPerExpense
<1>3. \A l \in d.links : l.split \in SplitIds
  BY DEF Good, IsDatabase, Link
<1>4. CASE IsLinked(d, t)
  <2> DEFINE c == CHOOSE l \in d.links : l.txn = t
  <2>1. c \in d.links /\ c.txn = t
    BY <1>4 DEF IsLinked
  <2> HIDE DEF c
  <2>2. ParentIn(d)[t] = c.split
    BY <1>1, <1>4 DEF c
  <2> QED  BY <1>2, <1>3, <2>1, <2>2
<1>5. CASE ~IsLinked(d, t)
  BY <1>1, <1>5 DEF IsLinked
<1> QED  BY <1>4, <1>5

\* and as a payment by the split of its only settlement.
LEMMA PaymentFacts ==
    ASSUME NEW d, Good(d), NEW t \in TxnIds
    PROVE  /\ \A x \in d.paid : x.txn = t => PaymentIn(d)[t] = d.share[x.share].split
           /\ PaymentIn(d)[t] # Unclaimed =>
                 \E x \in d.paid : x.txn = t /\ d.share[x.share].split = PaymentIn(d)[t]
           /\ PaymentIn(d)[t] \in SplitIds \cup {Unclaimed}
<1>1. PaymentIn(d)[t] = IF CreditsOf(d, t) = {} THEN Unclaimed
                        ELSE d.share[(CHOOSE x \in CreditsOf(d, t) : TRUE).share].split
  BY DEF PaymentIn
<1>2. \A x \in d.paid : d.share[x.share].split \in SplitIds
  BY DEF Good, IsDatabase, IsTable, ShareRow, Constraints, ForeignKeys
<1>3. CASE CreditsOf(d, t) # {}
  <2> DEFINE c == CHOOSE x \in CreditsOf(d, t) : TRUE
  <2>1. c \in d.paid /\ c.txn = t
    BY <1>3 DEF CreditsOf
  <2> HIDE DEF c
  <2>2. PaymentIn(d)[t] = d.share[c.share].split
    BY <1>1, <1>3 DEF c
  <2>3. \A x \in d.paid : x.txn = t => x = c
    BY <2>1 DEF Good, IncomeOnce
  <2> QED  BY <1>2, <2>1, <2>2, <2>3
<1>4. CASE CreditsOf(d, t) = {}
  BY <1>1, <1>4 DEF CreditsOf
<1> QED  BY <1>3, <1>4

\* No split is called Unclaimed.
LEMMA Claimants == Unclaimed \notin SplitIds /\ \A d : Good(d) => \A l \in d.links : l.txn \in TxnIds
BY SplitsAssumption DEF Good, IsDatabase, Link

\* The abstract steps, of databases d and n.
ClaimIn(d, n, s) ==
    /\ StatusIn(d)[s] # "closed"
    /\ StatusIn(n) = [StatusIn(d) EXCEPT ![s] = "open"]
    /\ ParentIn(n) \in Claims!Holders /\ Claims!OnlyMoves(s, ParentIn(d), ParentIn(n))
    /\ \E t \in TxnIds : ParentIn(n)[t] = s
    /\ PaymentIn(n) \in Claims!Holders /\ Claims!OnlyMoves(s, PaymentIn(d), PaymentIn(n))

CloseIn(d, n, s) ==
    /\ StatusIn(d)[s] = "open"
    /\ StatusIn(n) = [StatusIn(d) EXCEPT ![s] = "closed"]
    /\ ParentIn(n) = Claims!Freed(s, ParentIn(d))
    /\ PaymentIn(n) = Claims!Freed(s, PaymentIn(d))

ForgetIn(d, n) ==
    /\ PaymentIn(n) \in Claims!Holders
    /\ \A t \in TxnIds : PaymentIn(n)[t] \in {PaymentIn(d)[t], Unclaimed}
    /\ StatusIn(n) = StatusIn(d) /\ ParentIn(n) = ParentIn(d)

\* The mapping yields holders.
LEMMA HoldersType ==
    ASSUME NEW d, Good(d)
    PROVE  ParentIn(d) \in Claims!Holders /\ PaymentIn(d) \in Claims!Holders
<1>1. \A t \in TxnIds : ParentIn(d)[t] \in SplitIds \cup {Unclaimed}
  BY ParentFacts
<1>2. \A t \in TxnIds : PaymentIn(d)[t] \in SplitIds \cup {Unclaimed}
  BY PaymentFacts
<1>3. ParentIn(d) = [t \in TxnIds |-> ParentIn(d)[t]] /\ PaymentIn(d) = [t \in TxnIds |-> PaymentIn(d)[t]]
  BY DEF ParentIn, PaymentIn
<1> QED  BY <1>1, <1>2, <1>3 DEF Claims!Holders

\* A split that writes its own rows moves only its own claims, and has a parent.
LEMMA ClaimingClaims ==
    ASSUME NEW d, NEW n, NEW s \in SplitIds, Good(d), Good(n), Populated(n), Claiming(d, n, s)
    PROVE  ClaimIn(d, n, s)
<1>1. StatusIn(d)[s] # "closed" /\ StatusIn(n) = [StatusIn(d) EXCEPT ![s] = "open"]
  <2>1. \A z \in SplitIds : StatusIn(n)[z] = IF z = s THEN "open" ELSE StatusIn(d)[z]
    BY DEF StatusIn, Claiming
  <2>2. StatusIn(d)[s] # "closed"
    BY DEF StatusIn, Claiming
  <2> QED  BY <2>1, <2>2 DEF StatusIn
<1>2. Claims!OnlyMoves(s, ParentIn(d), ParentIn(n))
  <2>1. ASSUME NEW t \in TxnIds
        PROVE  ParentIn(n)[t] = ParentIn(d)[t] \/ {ParentIn(d)[t], ParentIn(n)[t]} = {s, Unclaimed}
    <3>1. ASSUME ParentIn(n)[t] \notin {s, Unclaimed} PROVE ParentIn(d)[t] = ParentIn(n)[t]
      BY <3>1, ParentFacts DEF Claiming
    <3>2. ASSUME ParentIn(d)[t] \notin {s, Unclaimed} PROVE ParentIn(d)[t] = ParentIn(n)[t]
      BY <3>2, ParentFacts DEF Claiming
    <3> QED  BY <3>1, <3>2
  <2> QED  BY <2>1 DEF Claims!OnlyMoves
<1>3. Claims!OnlyMoves(s, PaymentIn(d), PaymentIn(n))
  <2>1. ASSUME NEW t \in TxnIds
        PROVE  PaymentIn(n)[t] = PaymentIn(d)[t] \/ {PaymentIn(d)[t], PaymentIn(n)[t]} = {s, Unclaimed}
    <3>1. ASSUME PaymentIn(n)[t] \notin {s, Unclaimed} PROVE PaymentIn(d)[t] = PaymentIn(n)[t]
      BY <3>1, PaymentFacts DEF Claiming, SameSplit
    <3>2. ASSUME PaymentIn(d)[t] \notin {s, Unclaimed} PROVE PaymentIn(d)[t] = PaymentIn(n)[t]
      BY <3>2, PaymentFacts DEF Claiming, SameSplit
    <3> QED  BY <3>1, <3>2
  <2> QED  BY <2>1 DEF Claims!OnlyMoves
<1>4. \E t \in TxnIds : ParentIn(n)[t] = s
  <2>1. PICK l \in n.links : l.split = s
    BY DEF Populated, LinksOf, Claiming
  <2>2. l.txn \in TxnIds
    BY Claimants
  <2> QED  BY <2>1, <2>2, ParentFacts
<1> QED  BY <1>1, <1>2, <1>3, <1>4, HoldersType DEF ClaimIn

\* A split that is deleted holds nothing any more.
LEMMA ClosingCloses ==
    ASSUME NEW d, NEW n, NEW s \in SplitIds, Good(d), Good(n), Closing(d, n, s)
    PROVE  CloseIn(d, n, s)
<1>1. StatusIn(d)[s] = "open" /\ StatusIn(n) = [StatusIn(d) EXCEPT ![s] = "closed"]
  <2>1. \A z \in SplitIds : StatusIn(n)[z] = IF z = s THEN "closed" ELSE StatusIn(d)[z]
    BY DEF StatusIn, Closing
  <2>2. StatusIn(d)[s] = "open"
    BY DEF StatusIn, Closing
  <2> QED  BY <2>1, <2>2 DEF StatusIn
<1>2. ParentIn(n) = Claims!Freed(s, ParentIn(d))
  <2>1. ASSUME NEW t \in TxnIds
        PROVE  ParentIn(n)[t] = IF ParentIn(d)[t] = s THEN Unclaimed ELSE ParentIn(d)[t]
    BY ParentFacts DEF Closing
  <2> QED  BY <2>1 DEF Claims!Freed, ParentIn
<1>3. PaymentIn(n) = Claims!Freed(s, PaymentIn(d))
  <2>1. ASSUME NEW t \in TxnIds
        PROVE  PaymentIn(n)[t] = IF PaymentIn(d)[t] = s THEN Unclaimed ELSE PaymentIn(d)[t]
    BY PaymentFacts DEF Closing, SameSplit
  <2> QED  BY <2>1 DEF Claims!Freed, PaymentIn
<1> QED  BY <1>1, <1>2, <1>3 DEF CloseIn

\* Losing settlements forgets payments.
LEMMA ForgettingForgets ==
    ASSUME NEW d, NEW n, Good(d), Good(n), Forgetting(d, n)
    PROVE  ForgetIn(d, n)
<1>1. StatusIn(n) = StatusIn(d) /\ ParentIn(n) = ParentIn(d)
  BY DEF Forgetting, StatusIn, ParentIn, IsLinked
<1>2. ASSUME NEW t \in TxnIds PROVE PaymentIn(n)[t] \in {PaymentIn(d)[t], Unclaimed}
  BY PaymentFacts DEF Forgetting, SameSplit
<1> QED  BY <1>1, <1>2, HoldersType DEF ForgetIn

\* Every request moves the claims of one split by what is free, deleting a split
\* frees all it held, and a live split is never without a parent expense.
THEOREM ClaimsImplemented == Spec => ImplementsClaims
<1> USE DEF Claims!claims
<1>1. ClaimStatus = StatusIn(db) /\ ParentOf = ParentIn(db) /\ PaymentOf = PaymentIn(db)
  BY DEF ClaimStatus, ParentOf, PaymentOf, StatusIn, ParentIn, PaymentIn
<1>2. /\ ClaimStatus' = StatusIn(db') /\ ParentOf' = ParentIn(db') /\ PaymentOf' = PaymentIn(db')
  BY DEF ClaimStatus, ParentOf, PaymentOf, StatusIn, ParentIn, PaymentIn
<1>3. Init => Claims!ClaimsInit
  <2> SUFFICES ASSUME Init PROVE Claims!ClaimsInit
    OBVIOUS
  <2>1. DOMAIN db.split = {} /\ db.links = {} /\ db.paid = {}
    BY DEF Init
  <2> QED  BY <2>1 DEF Claims!ClaimsInit, ClaimStatus, ParentOf, PaymentOf, IsLinked, CreditsOf
<1>4. MoneyInv /\ MoneyInv' /\ Moves => Claims!ClaimsNext
  <2> SUFFICES ASSUME MoneyInv, MoneyInv', Moves PROVE Claims!ClaimsNext
    OBVIOUS
  <2>1. Good(db) /\ Good(db') /\ Populated(db') /\ Claimed(db, db')
    BY DEF MoneyInv, IInv, Moves, Step
  <2>2. ASSUME NEW s \in SplitIds, Claiming(db, db', s) PROVE Claims!Claim(s)
    BY <1>1, <1>2, <2>1, <2>2, ClaimingClaims DEF ClaimIn, Claims!Claim
  <2>3. ASSUME NEW s \in SplitIds, Closing(db, db', s) PROVE Claims!Close(s)
    BY <1>1, <1>2, <2>1, <2>3, ClosingCloses DEF CloseIn, Claims!Close
  <2>4. Forgetting(db, db') => Claims!Forget
    BY <1>1, <1>2, <2>1, ForgettingForgets DEF ForgetIn, Claims!Forget
  <2> QED  BY <2>1, <2>2, <2>3, <2>4 DEF Claimed, Claims!ClaimsNext
<1>5. UNCHANGED vars => UNCHANGED Claims!claims
  BY DEF vars, ClaimStatus, ParentOf, PaymentOf, IsLinked, CreditsOf
<1>6. MoneyInv /\ [Next]_vars => [Claims!ClaimsNext]_(Claims!claims)
  BY <1>4, <1>5, NextMoves
<1> QED  BY <1>3, <1>6, MoneyInvariance, PTL DEF Spec, ImplementsClaims, Claims!ClaimsSpec
=============================================================================
