----------------------------- MODULE SplitRaces -----------------------------
(***************************************************************************)
(* Expense splits used by several requests at once.  The API server runs   *)
(* requests concurrently, each in a database session of its own, at        *)
(* PostgreSQL's READ COMMITTED and without row locks.  A request first     *)
(* reads and checks; later it writes and commits, on whatever other        *)
(* requests have committed by then.  The purge job is a writer of its own. *)
(***************************************************************************)
EXTENDS LedgerHandlers

CONSTANTS Workers,      \* request slots of the server
          Amounts,      \* positive amounts a request may carry
          Bodies,       \* bodies of POST /splits and PUT /splits/{id}
          TxnValues,    \* <<type, amount>> pairs an edited transaction gets
          InitialDbs,   \* the databases the requests may start from
          Idle,         \* a slot without a request
          MaxRequests   \* bound: how many requests are made

ASSUME RacesAssumption ==
    /\ Amounts \subseteq 1..MaxMoney
    /\ TxnValues \subseteq TxnTypes \X (1..MaxMoney)
    /\ \A body \in Bodies : ValidBody(body)
    /\ \A d \in InitialDbs :
          /\ IsDatabase(d) /\ Constraints(d)
          /\ \A s \in DOMAIN d.split : IsLive(d.split, s) => LinksOf(d, s) # {} /\ SharesOf(d, s) # {}
    /\ MaxRequests \in Nat

VARIABLES db,        \* the database, as committed
          slot,      \* per worker: Idle, or its request and the database it read
          requests   \* how many requests have been made

vars == <<db, slot, requests>>

-----------------------------------------------------------------------------
(***************************************************************************)
(* Requests: what a client asks for, by handler.                           *)
(***************************************************************************)
SplitRequests(d) ==
    LET expenses == SUBSET {t \in TxnIds : IsExpense(d, t)} \ {{}}
    IN  [op : {"create"}, exps : expenses, body : Bodies]
        \cup [op : {"update"}, split : SplitIds, exps : expenses, body : Bodies]
        \cup [op : {"delete"}, split : SplitIds]

ShareRequests(d) ==
    LET shares == DOMAIN d.share
    IN  [op : {"patch"}, share : shares, amount : Amounts]
        \cup [op : {"assign"}, share : shares, payee : PayeeRef]
        \cup [op : {"settle"}, share : shares, txn : DOMAIN d.txn, amount : Amounts]
        \cup [op : {"unlink"}, share : shares, settlement : d.paid]
        \cup [op : {"forgive"}, share : shares, amount : Amounts \cup {0}]
        \cup [op : {"unsettle"}, share : shares]

TxnRequests(d) ==
    [op : {"patchTxn"}, txn : DOMAIN d.txn, value : TxnValues]
    \cup [op : {"deleteTxn", "restoreTxn"}, txn : DOMAIN d.txn]

Accepts(v, r) ==
    CASE r.op = "create"     -> CreateSplitOk(v, r.exps, r.body)
      [] r.op = "update"     -> UpdateSplitOk(v, r.split, r.exps, r.body)
      [] r.op = "delete"     -> DeleteSplitOk(v, r.split)
      [] r.op = "patch"      -> PatchShareOk(v, r.share, {"amount"}, r.amount, NoPayee)
      [] r.op = "assign"     -> PatchShareOk(v, r.share, {"payee"}, 0, r.payee)
      [] r.op = "settle"     -> SettleShareOk(v, r.share, r.txn, r.amount)
      [] r.op = "unlink"     -> UnlinkSettlementOk(v, r.share, r.settlement)
      [] r.op = "forgive"    -> ForgiveShareOk(v, r.share, r.amount)
      [] r.op = "unsettle"   -> UnsettleShareOk(v, r.share)
      [] r.op = "patchTxn"   -> PatchTxnOk(v, r.txn)
      [] r.op = "deleteTxn"  -> DeleteTxnOk(v, r.txn)
      [] r.op = "restoreTxn" -> RestoreTxnOk(v, r.txn)

Writes(v, d, taken, r) ==
    CASE r.op = "create"     -> CreateSplitWrite(v, d, taken, r.exps, r.body)
      [] r.op = "update"     -> UpdateSplitWrite(v, d, taken, r.split, r.exps, r.body)
      [] r.op = "delete"     -> DeleteSplitWrite(v, d, r.split)
      [] r.op = "patch"      -> PatchShareWrite(v, d, r.share, {"amount"}, r.amount, NoPayee)
      [] r.op = "assign"     -> PatchShareWrite(v, d, r.share, {"payee"}, 0, r.payee)
      [] r.op = "settle"     -> SettleShareWrite(v, d, r.share, r.txn, r.amount)
      [] r.op = "unlink"     -> UnlinkSettlementWrite(v, d, r.share, r.settlement)
      [] r.op = "forgive"    -> ForgiveShareWrite(v, d, r.share, r.amount)
      [] r.op = "unsettle"   -> UnsettleShareWrite(v, d, r.share)
      [] r.op = "patchTxn"   -> PatchTxnWrite(v, d, r.txn, r.value[1], r.value[2])
      [] r.op = "deleteTxn"  -> DeleteTxnWrite(d, r.txn)
      [] r.op = "restoreTxn" -> RestoreTxnWrite(d, r.txn)

\* Share ids some row has or some request in flight has read.
TakenIds ==
    DOMAIN db.share \cup UNION {DOMAIN slot[w].view.share : w \in {u \in Workers : slot[u] # Idle}}

HasIds(r) ==
    /\ r.op = "create" => HasSplitId(db)
    /\ r.op \in {"create", "update"} => HasShareIds(TakenIds, r.body)

-----------------------------------------------------------------------------
Init ==
    /\ db \in InitialDbs
    /\ slot = [w \in Workers |-> Idle]
    /\ requests = 0

\* A request arrives, reads the database and passes its checks.
Begin(w, r) ==
    /\ slot[w] = Idle
    /\ requests < MaxRequests
    /\ Accepts(db, r)
    /\ slot' = [slot EXCEPT ![w] = [request |-> r, view |-> db]]
    /\ requests' = requests + 1
    /\ UNCHANGED db

Outcome(w) == Writes(slot[w].view, db, TakenIds, slot[w].request)

\* It writes and commits ...
Commit(w) ==
    /\ slot[w] # Idle
    /\ HasIds(slot[w].request)
    /\ Commits(Outcome(w))
    /\ db' = Outcome(w).db
    /\ slot' = [slot EXCEPT ![w] = Idle]
    /\ UNCHANGED requests

\* ... or is rolled back: a row it updates is gone, or the database refuses.
Abort(w) ==
    /\ slot[w] # Idle
    /\ HasIds(slot[w].request)
    /\ ~Commits(Outcome(w))
    /\ slot' = [slot EXCEPT ![w] = Idle]
    /\ UNCHANGED <<db, requests>>

Expire(t) ==
    /\ ExpireTxn(db, t).reached
    /\ db' = ExpireTxn(db, t).db
    /\ UNCHANGED <<slot, requests>>

Purge ==
    /\ ExpiredTxns(db) # {}
    /\ Commits(PurgeWrite(db))
    /\ db' = PurgeWrite(db).db
    /\ UNCHANGED <<slot, requests>>

Next ==
    \/ \E w \in Workers, r \in SplitRequests(db) \cup ShareRequests(db) \cup TxnRequests(db) :
          Begin(w, r)
    \/ \E w \in Workers : Commit(w) \/ Abort(w)
    \/ \E t \in TxnIds : Expire(t)
    \/ Purge

Spec == Init /\ [][Next]_vars

-----------------------------------------------------------------------------
(***************************************************************************)
(* Properties.                                                             *)
(***************************************************************************)
Live(s) == IsLive(db.split, s)

TypeOK ==
    /\ IsDatabase(db)
    /\ \A w \in Workers : slot[w] # Idle => IsDatabase(slot[w].view)
    /\ requests \in 0..MaxRequests

\* A live split is never left without a parent expense, nor without shares, so
\* the trigger's exemption for splits without expenses never applies to it.
LiveSplitsAreWhole ==
    \A s \in DOMAIN db.split : Live(s) => LinksOf(db, s) # {} /\ SharesOf(db, s) # {}

SameParents(s) ==
    \A t \in ExpensesOf(db, s) :
        t \in DOMAIN db'.txn /\ db'.txn[t].amount = db.txn[t].amount

\* A request that checked its shares against amounts edited since does not
\* commit shares that miss the new total; nor do two requests on one split.
StepsKeepBalance ==
    [][\A s \in DOMAIN db'.split :
          /\ db'.split[s] = "live"
          /\ s \in DOMAIN db.split => Balanced(db, s) /\ SameParents(s)
          => Balanced(db', s)]_vars

\* Committing changes a share's amount only for the request that set the amount,
\* its payee only for the one that assigned it, and what was forgiven and the
\* status only for a payment request: no request writes back a column it read
\* before another request changed it.
NoLostUpdates ==
    [][\A w \in Workers : slot[w] # Idle /\ slot'[w] = Idle =>
          \A h \in DOMAIN db.share \cap DOMAIN db'.share :
              LET Changed(column) == db'.share[h][column] # db.share[h][column]
                  op == slot[w].request.op
              IN  /\ Changed("amount") => op = "patch"
                  /\ Changed("payee") => op = "assign"
                  /\ Changed("forgiven") => op \in {"forgive", "unsettle"}
                  /\ Changed("status") => op \in {"settle", "unlink", "forgive", "unsettle"}]_vars

\* A deleted split is never revived.
DeletedSplitsStayDeleted ==
    [][\A s \in DOMAIN db.split : db.split[s] = "deleted" =>
          s \in DOMAIN db'.split /\ db'.split[s] = "deleted"]_vars

-----------------------------------------------------------------------------
\* Deleting a split frees the transactions it held, for good: no transaction is
\* linked to a deleted split.
DeletedSplitsHoldNothing ==
    /\ \A l \in db.links : Live(l.split)
    /\ \A x \in db.paid : Live(db.share[x.share].split)

\* An income settles at most one share.
IncomeLinkedOnce == \A x, y \in db.paid : x.txn = y.txn => x = y
=============================================================================
