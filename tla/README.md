# Kanakku: verification project

TLA+ models of [Kanakku](../src), a self-hosted finance tracker, with TLC
configurations that check them on small instances and TLAPS proofs about the
core. Kanakku is a FastAPI server over PostgreSQL (SQLAlchemy async sessions), an
ARQ worker on Redis for background jobs, and a React client. The models come in
two halves: the server and the worker, with what protects the shared tables, and
the client, with what it keeps between the user, its cached queries and the
requests it sends.

## 1. The system

Every handler runs in a database session of its own, at PostgreSQL's default
READ COMMITTED, without `SELECT ... FOR UPDATE`: it reads, checks what it has
read, writes, and commits once. Requests overlap freely. What protects the data
is therefore (a) the handlers' checks, good against whatever was committed when
they read; (b) unique and foreign keys; (c) one deferred constraint trigger on
`split_shares`, which compares a split's shares with its expenses at commit; (d)
the ORM's habit of sending only the columns a request changed.

The client is a set of pages over cached queries (TanStack Query). A page shows
what its queries last heard, keeps drafts of its own, sends mutations whose
answers come in any order or not at all, and afterwards invalidates the queries it
believes to be changed. Effects copy query results into forms. All requests carry an
access token from memory and are repeated once after a refresh; the refresh
token lies in the browser's storage, shared by all tabs.

| Component | State | Operations | Interacts with | What makes it correct |
|---|---|---|---|---|
| Expense splits (`routers/splits.py`) | `splits`, `split_shares`, `split_expenses`, `split_share_settlements` | create, replace, bundle, delete; patch, settle, unlink, forgive, unsettle a share | transactions (parents and incomes), payees, trigger | shares sum to the expenses; no share is covered beyond its amount; an income is credited once; a status tells what was paid; deleting releases everything |
| Net expense (`expense_calculator.py`, view of migration 0027) | none | own cost of a split, net amount of an expense | dashboard, reports | what the user is shown as spent is what was spent |
| Transactions (`routers/transactions.py`) | `transactions` | create, patch, delete, restore, bulk forms | splits, accounts, piggy banks, imports | a linked transaction cannot be deleted; edits keep splits balanced |
| Payees (`routers/payees.py`) | `payees` | create, rename, delete, restore | shares, transactions | a share never names a deleted payee for lack of a check |
| Purge (`workers/purge_worker.py`) | soft-deleted rows of eight tables | a daily job, one database transaction | foreign keys of everything | every expired row leaves |
| Statement imports (`routers/imports.py`) | `import_batches`, `raw_import_records` | upload, edit, confirm, reject, replace, set account | worker, transactions | no line dropped, none imported twice, counters agree |
| Import worker (`workers/import_worker.py`) | the ARQ job | take, parse, look for duplicates, store | Redis, imports | batches end; crashes leave all records or none |
| Duplicate detection (`services/dedup.py`) | none | find_duplicates | worker | a line imported before is flagged |
| Parsers, balance verifier | none | text to lines; header against lines | worker | pure |
| Accounts, balances | `accounts` | create, delete, restore, balance | transactions | balance = opening + incomes − expenses ± transfers; one opening balance |
| Piggy banks, earmarks | `piggy_banks`, contributions, `earmarks` | contribute, complete; reserve, release | transactions, available cash | the total never exceeds the cash; completed means reached |
| Budgets, subscriptions | their tables | expand into periods, next due date | dashboard | pure date algorithms |
| Sessions, invites (`routers/auth.py`) | `user_sessions`, `invites`, `users` | set-up, login, refresh, logout, accept | none | a refresh token works once; an invite works once; one set-up |
| Archive (`workers/export_worker.py`, `cli.py`) | none | export, import | every table | an archive can be read back |
| Client session (`lib/api-client.ts`, `api/auth.ts`, `main.tsx`) | tokens in storage and in memory, the refresh under way | sign-in forms, refresh, retry, logout, idle logout, reload | auth router, all tabs | a call is done once; one tab exchanges a token once; what is stored can be used |
| Client queries (`api/*.ts`) | cached answers | fetch, invalidate, mutate | every page | once all is quiet the screen shows what the server has |
| Import review page | tab, selection, row drafts, dialog | edit, suggest, confirm, reject, resolve a duplicate | imports | a transfer has a destination |
| Split form | expenses, payee cards, payments, own share | pick, type, distribute, create a payee, submit | splits, transactions, payees | amounts follow payments; what is sent is accepted; an untouched edit changes nothing |
| Split drawer and page | the form open, its amount | settle, unlink, forgive, undo, edit, delete | splits | amounts fit the share |
| Transaction list | URL, cursors, filters, dialogs | page, filter, sort, delete | transactions, periods | pages show each row once |
| Transaction form | fields, drafts created in place | edit, submit | transactions, payees, categories, tags | one row per visit; the form follows its row |
| Periods (`lib/period.ts`, `PeriodPicker`) | the selection | week, month, quarter, year, range | lists, dashboard | whole periods, to the day |
| Earmarks, budgets, accounts, goals pages | lists, drawers, dialogs, forms | create, edit, toggle, delete | their routers | one row per submission; forms follow rows; confirmed is submitted; completed means reached |

Hard behaviours: overlapping requests that check and then write; soft deletes
whose consequences appear thirty days later in the purge; the trigger, which sees
only writes to shares; long sequences through nine operations that each derive a
share's status; a job enqueued before its batch is committed; a worker that dies;
dates that cross a day boundary on their way to UTC; in the client, answers that
arrive after the screen has moved on, forms overwritten by late answers, requests
repeated after a refresh, tokens replaced by an answer nobody heard.
`PROJECT.json` lists them as hazards, each at its line, with the properties aimed
at it.

## 2. Plan

1. Splits, serial and overlapping, and their abstract register of claims (**done**);
   theorems: every property the runs check of both systems, and that `Splits`
   implements `SplitClaims` (**done**).
2. Imports: upload, job, review (**done**); theorems: its four invariants, and
   `ReimportIsFlagged` for users who are not ahead of UTC (**done**).
3. The client: its session, its queries, and the pages that keep drafts of money
   (**done**: checked), with the theorems about the session (**done**).
4. Theorems about the pages: `TransfersHaveDestinations`, `OneRowPerVisit`,
   `FormsFollowTheirRows`, `ConfirmedIsSubmitted`, `CompletedMeansReached` (**done**);
   then `ScreenCurrent`, the split form and the split drawer, over the lemmas of `TableProofs`,
   and `PeriodIsWhole` over a calendar of any years (**done**). Left: the types of the pages.
5. `Ledger`: opening balances, transfers, balance computation against the definition
   by rows, deletion and restoring of accounts overlapping with transactions;
   composed with the purge of `LedgerHandlers`.
6. `Archive`: table order and snapshot of export and import.
7. Pure algorithms: budget expansion, subscription dates, balance verifier,
   each against a definition over bounded inputs.

## 3. Modules

    SplitTables      tables, queries, constraints, trigger, net expense
      SplitHandlers    the handlers of routers/splits.py, as operators
        LedgerHandlers   transactions, payees, retention, purge, as operators
          TableProofs      lemmas: sums, and what each handler writes
          Splits           state machine: one request after the other
          |  SplitClaims     what splits promise; INSTANCEd by Splits
          |  SplitProofs     theorems about Splits: types, claims, money, and that it
          |                  implements SplitClaims; over TableProofs
          |  MCSplits
          SplitRaces       state machine: requests overlap
             RaceProofs      theorems about SplitRaces; over TableProofs
             MCSplitRaces
    Imports          upload, job, review
      ImportProofs     theorems about Imports
      MCImports
    Session          tokens, tabs, calls, the auth router
      SessionProofs    theorems about Session
    Screen           queries, mutations, answers: what every page is built on
      ImportReview     the review page and its routes
      SplitForm        the form; EXTENDS SplitHandlers too: its server is theirs
      SplitShares      drawer and page of a split; over SplitHandlers
      TransactionList, TransactionForm, Period, Earmarks, BudgetList, BudgetForm,
      AccountList, PiggyBanks
    Client           one visit of any page, or one session; INSTANCEs all of these
      PageProofs       the invariants of its forms and dialogs, lemma by lemma
        ScreenProofs     the invariants of what its pages show, of the split form and of the
        |                split drawer; INSTANCEs TableProofs
          ClientProofs     theorems about Client; INSTANCEs SessionProofs
      MCClient

**SplitTables.** A database is a record of tables, a table a function from ids
to rows. `Constraints` is what unique, check and foreign keys guarantee;
`TriggerAccepts` is `check_split_invariant` of migration 0026, including its
exemption for a split whose expenses sum to 0. `OwnCost`, `NetExpense` and
`NetAmount` are the calculator and the view.

**SplitHandlers, LedgerHandlers.** A handler `X` is two operators: `XOk(v, ...)`,
the checks on the database `v` it has read, and `XWrite(v, d, ...)`, its writes on
the database `d` as it is then. `Write` returns a result: the new database,
whether every row to update was still there (`reached`; SQLAlchemy raises
`StaleDataError` otherwise), and the splits whose shares were written, for which
the deferred trigger fires. `Commits` asks the constraints and the trigger.
`Column` is the ORM's unit of work: an UPDATE carries the columns whose value
differs from the loaded one. This one translation serves both state machines:
`Splits` calls it with `v = d = db`, `SplitRaces` with the view read earlier.

**Splits.** `db`, and `edits`, which counts for the bound how often transactions
and payees were created, edited or deleted. Each
action is a whole handler; an error answer is a step that does not happen. `Expire`
lets thirty days pass for a soft-deleted row; `Purge` is the daily job.

**SplitClaims.** What splits promise about transactions, without shares, amounts
or statuses: a split claims expenses as its parents and incomes as its payments;
in each role a transaction is claimed by at most one split; an open split always
has a parent; a step changes the claims of one split, taking only what is free;
closing a split frees all it held, for good. `Splits!ImplementsClaims` is the
refinement, by `ClaimStatus`, `ParentOf` and `PaymentOf`.

**SplitRaces.** `slot[w]` holds a request and the database it read. `Begin`
reads and checks, `Commit` writes on the present database, `Abort` is a request
the database or the ORM refuses.

**Imports.** `upload`, `batch`, `record`, `ledger`, `job`, `slot`. The upload
request enqueues the job (or, with Redis down, runs it inline in another
session) and then commits the batch. The job takes the batch, looks for
duplicates, stores the records; it can fail, be cut off, or lose its worker and
be delivered again. Review requests have a read and a commit step. `disturbed`
is a history variable: the batches on which two reviews overlapped, whose job
was delivered again after it had stored records, or on which an edit overturned a
decision (or confirmed a record); the exact statements exclude them, because there the code
gives no guarantee (see the hazards). The field `byHand` of a record notes that an
edit rejected it; nothing but `CountsExact` reads it.

**Session.** `stored` is the token in localStorage, which all tabs share; `tab`
what a tab shows and its access token; `refresh` and `signin` the request of each
kind a tab has under way, `calls` all those of `authedFetch`; `issued` and `live`
are the server's. A refresh, a sign-in and a call each have a step at the server and
one where the answer is heard or lost, so logouts, logins, reloads and the other
tab come in between. A reload forgets what was under way, and the server may
still serve it. `waived` is a history variable: tokens that were signed out,
or whose successor was lost on the way.

**Screen.** One visit of one page. `db` holds the server's tables the page is about,
`seen` what each query last heard, `due` those to be fetched, `call` the
mutations under way (`Idle` before, `Ended` after), `ui` all local state. `Serve` is the server's
handler, `Fails` an error or a lost answer, `Settles`/`Over` and `Returns` the two
kinds of hook: one that returns the promise of its invalidation keeps the
mutation pending until the queries are fetched again, one that returns nothing does
not. Callbacks given to `mutate` are lost when the hook is called again or the component
is gone (`heard`); what follows an `await mutateAsync` runs in any case. Fetches end in any order, and
refetches on focus and by polling are steps a page may always take where the hook has them.

**The pages.** Each has an `Init` of the visit, one action per handler of the
component (named after it), one per kind of fetch, and its routes of the server as
`Serve...`. `SplitForm` and `SplitShares` take the server's part from
`SplitHandlers`, the operators that `Splits` and `SplitRaces` run: client and
server are checked against each other, not against a second copy of the rules.
`Period` has a calendar of its own, in which a day is a number and `Date` carries months and
days over as JavaScript's does, and checks the code's arithmetic against what a week, a
month, a quarter and a year are.

**Client, MCClient.** `Client` puts the pages and the session together. An initial state is the
start of a visit of one page or a session of one or two
tabs; the variables of the other half stay as they are. So the state spaces add up
and do not multiply. Each page takes its constants from one record, `ReviewCase` to `TwoTabsCase`,
so that theorems are about every value of these and `MCClient` gives each page an instance small
enough for its own hazards.

### Abstractions

- Amounts are whole numbers of the smallest unit; `MaxMoney` is where
  NUMERIC(15,2) ends, and a value beyond it aborts.
- In splits, transactions are incomes and expenses of one user; a payee of a
  transaction is a constant (`TxnPayee`) that lasts until the payee is purged.
  The other types behave as neither.
- Descriptions, notes, tags and listings are left out. Several write-offs
  without a payee in one bundle are drafted as one. Ids repeated in a
  body run into the unique keys, i.e. into an abort, and are not enumerated.
- `PUT /splits` reads incomes a second time while it writes; a row
  gone by then aborts. The model lets a deletion also fall after that read.
- Ids of new rows are fresh (`uuid4`); which fresh one is chosen makes no
  difference, so a `CHOOSE` or a symmetric set is used.
- In imports, a parsed line is a day and an amount; `Broken` stands for everything
  `_record_to_transaction` turns down. There is one account, so the search's filter
  by account lets everything through. UTC offsets are whole hours.
- The server of a client module takes one request at a time, each whole; what overlapping
  requests do to tables is the subject of `SplitRaces` and `Imports`.
- Query keys with parameters (a list per URL, a row per id) keep the answer that is on the screen: what a
  list showed for an earlier URL is dropped, where the code would show it once more until it is
  fetched again. Of the filters of the transaction list the type stands for all.
- Money typed by users is whole units; text, notes and dates that no property looks at are one
  of two values or left out. Toasts and navigation after success are the end of the visit.
- `react-day-picker` is external: a first click may begin a range or be one day.
- Access tokens expire in a step of their own; refresh tokens of the server do not
  (30 days).
- Splits themselves, import batches and records are never purged or deleted by
  anything in the source, and so not here.

## 4. Runs

| Run | Checks | Bounds and what they allow |
|---|---|---|
| `splits` (218 000 states) | 5 invariants, 3 action properties, refinement | two expenses, an income and room for one more transaction, a friend and the user, 2 split ids, 3 share ids (freed ids are used again), amounts 1 and 2. Split and share requests are unbounded; 1 edit of transactions or payees (create, patch, delete or replace), which is then restored, or expires and is purged. So an income can be partly credited, its share patched, forgiven, bundled, replaced and deleted in any order around that edit |
| `races` (112 000) | 2 invariants, 3 action properties | 2 slots and 3 requests, from a split that is open and one that has been paid: two requests overlap, and one comes before, between or after; any expiry and purge between them |
| `imports` (2.5 million) | 4 invariants, 1 action property | 2 statements sharing a line, 2 slots, 2 requests, 1 crash: confirm one, then parse, replace or confirm the other, at every point of both jobs |
| `import_jobs` (287 000) | liveness | 1 request, 2 crashes |
| `client` (2.8 million) | 12 invariants, 4 action properties | a visit with one or two calls under way, one to three rows, two or three changes of a draft (see `MCClient`, instance by instance). The split form begins in three ways: with nothing in the tables yet; a new split of an expense of 1; the edit of a settled split. On it 0.6 cents may be typed, so that shares pass the form's tolerance and fail once rounded; one card at a time is without a payee, and one has something forgiven. On the split drawer and page two incomes may pay one share, less and more than it takes, and one of them is raised once from another tab. The rest: the session with one tab, three pairs of tokens and two calls, and with two tabs, three pairs and one call: enough for two calls that meet one refresh, two tabs that exchange one token, a login or logout during a refresh, a reload during either |
| `shares_match_expense`, `cost_reported_once`, `purge_never_blocked`, `deleted_splits_hold_nothing`, `uploads_are_processed`, `reimport_is_flagged`, `logout_revokes` | one statement each of the repository's documents or comments | each is violated; see the findings |

Passing runs stop when their bounds are used up, hence `CHECK_DEADLOCK FALSE`.
Symmetry is used for worker slots (interchangeable), in `splits` for share ids
(only fresh ones are ever chosen) and in `client` for the two tabs; never with liveness.
`client` has `CHECK_DEADLOCK FALSE` also because a visit ends.

What the properties say, beside one type invariant per state machine (those of
`Splits`, `SplitRaces` and `Imports` but for liveness, the three of the session,
and six of the pages are proved as well: section 6):

- `StepsKeepBalance`: whatever commits leaves a split balanced that was balanced,
  unless the step itself edits a parent expense. This rests on the trigger
  (its mutant is a trigger that accepts everything), not on the handlers.
- `CoveredWithinShare`, `CostPlusPaidWithinShare`: received plus forgiven never
  exceeds a share, and what is counted of a payee's share as the user's cost plus
  what was received on it does not either. A share without a payee is excepted: it
  counts in full (`expense_calculator.py:58`) even when an income was bundled on it
  or its payee was purged after paying, so there the same money is received and
  counted as cost, against line 12 of that file.
- `StatusFollowsPayments`: a step that touches a share's payments leaves the
  status they imply.
- `CreditsAreKept`: an income that stays in its split keeps its credit; replacing
  the split does not turn a partial payment into a full one.
- `IncomeLinkedOnce`, `OnlyLiveSplitsHold`: one share per income; deleted splits
  hold nothing.
- `LiveSplitsAreWhole`, `NoLostUpdates`, `DeletedSplitsStayDeleted`: what survives
  overlap. `IncomeLinkedOnce` and `CoveredWithinShare` do not:
  two requests that both look before either writes defeat them, and no document
  claims otherwise.
- `NothingDropped`: a completed batch has one record per line and any other batch
  none, wherever the worker died. `ImportedOnce`, `CountsExact`: on a batch that is not
  disturbed, a confirmed record made one transaction, another none, and the counters are
  the numbers of records parsed, confirmed and rejected by the reject handler, while reviews
  of the other batch, its job and this batch's job interleave. "Keep existing"
  (`ImportReview.tsx:82-84`) rejects by an edit, and no counter hears of it, so that one
  request leaves the batch's rejected count (FR-11.5, `docs/TDD.md:177`) and the pending
  count of the page's header wrong for good: the model has the step, and the property does
  not claim otherwise.
- `ReimportIsFlagged`: a line that a live transaction was made from is flagged.
- `TakenBatchesFinish`: a batch the worker has begun ends completed or failed.

Of the client:

- `ScreenCurrent`: once nothing is under way and no answer was lost, every query in use
  shows what the server has (another tab's edit of an income, which nobody tells this one, is about no query of a split). One left out of an invalidation breaks it. On the review page
  the queries last answered before the statement was parsed (the history field `seen.early`) are
  excepted, because there the code fails: when the list's last poll is answered just before parsing ends and
  the batch's poll just after, polling stops (`api/imports.ts:84,97`, `ImportReview.tsx:497-498`) and
  the page says "No pending records." until the tab is changed, something is sent, or the window
  regains the focus, against FR-11.3 (`docs/TDD.md:175`).
- `TransfersHaveDestinations`: a record under review is a transfer exactly when it has
  a destination, by whatever mix of row draft, suggestion and dialog it was edited.
- `AmountMirrorsPayments`: the split form keeps a card's amount at its payments until it is typed over.
- `SentBodiesFit`: what the form lets through passes the arithmetic of the server's own handlers, if
  every amount on it is whole cents (`WholeCents`) and those fetched are still the server's. Finer amounts
  are in the model and are excepted, because there the code fails: three shares of 33.333 for an expense of
  100 are within `EPS` (`SplitForm.tsx:21,198`), are sent as 33.33 each (`toFixed(2)`, lines 256-262) and
  refused by the server (`splits.py:203`), although the form showed a balance of zero, by
  which the submit button is to be decided (`docs/specs/create-split-drawer.md:233-234`).
- `UnchangedEditKeepsSplit`: an edit saved untouched leaves payments, forgiven amounts and
  statuses as they were, although the server rebuilds the split. The last is about a split as saving
  leaves it (`AsSaved`): after a PATCH of a share or the purge of a payment a status need not be the one its
  amounts call for, and saving derives it again.
- `DrawerAmountsFit`: what the drawer sends fits the share by the server's reckoning, if the
  share it shows and the income it is paid with are as the server has them. The form leaves the amount out
  when it is all of the income *as cached* (`SplitDrawer.tsx:197`, `SplitDetail.tsx:192`), and the server then credits
  the income as it is. The cache and the server's row are apart in the model (`seen.txn`; `EditIncome` is
  another tab's edit, `FetchIncomes` any refetch), so a payment whose income was edited meanwhile is credited
  with an amount the form did not show: no document speaks of that, and the property excepts it openly.
- `WalkShowsAll`: walking the pages by their cursors to the last shows every matching row.
- `OneRowPerVisit`: what was typed once makes at most one row, unless an answer was lost.
- `FormsFollowTheirRows`, `ConfirmedIsSubmitted`: a form shows its row as last fetched until the user
  changes something; the scope dialog sends what was last submitted. A row that could not be fetched is
  excepted, because there the code fails: `isLoading` ends with the error, the earmark drawer
  shows the form of the earmark it was open for before (`EarmarkDrawer.tsx:34,61-81,166`) and saves it as an
  edit of the new one; the transaction page shows a blank form and saves that as an edit
  (`pages/TransactionForm.tsx:24,43`). `FetchItemFails` and `FetchTxnFails` are these steps. Also the split
  form does without an income it cannot fetch; on other pages a fetch is assumed to come back in the end.
- `CompletedMeansReached`: a goal is marked completed just when its contributions reach its target.
- `PeriodIsWhole`: periods are whole, and begin and end at the right day.
- `StoredTokenIsGood`, `RefusedForAReason`, `DoneAtMostOnce`: see section 6.

`imports` and `import_jobs` run with a user behind UTC, where `ReimportIsFlagged` holds;
`reimport_is_flagged` with one ahead of it, where it does not.

### Fairness

Only `Imports` has liveness: a user may leave a page at any time, and the client
promises nothing about answers that never come. `Fairness` is weak fairness of the commit of an upload
that has begun (a request runs to its end) and of a worker's step on a
job (a worker is running, and the queue keeps a job until it is acknowledged).
Nothing forces a user to upload or review, nor a worker to die; `MaxCrashes` stays below
ARQ's five tries, after which ARQ drops a job. `TakenBatchesFinish` holds under
these; `UploadsAreProcessed` fails under the same.

## 5. Findings

Seven runs show the code doing what the repository says it does not do
(`PROJECT.json` quotes the lines): editing a linked expense unbalances its split;
the dashboard counts a split of two expenses twice; an import's *replace*
soft-deletes a linked expense and from then on blocks the whole purge; a request
that overlaps the deletion of a split leaves a link to the deleted split; an
upload's job can run before its batch exists and never again; duplicate
detection compares a UTC day with a local day; logging out never revokes the
session on the server, because the tokens are cleared before the request is sent.

Seen while modelling, followed by the models, but not the subject of a run:

- `earmarks.py` uses `sa.func` (lines 268, 303) and does not import `sa`: editing an active
  earmark and activating a paused one answer 500.
- An answer to a refresh that comes after a logout signs the user in again; two tabs that
  refresh with one token sign both out; a login of another user in one tab turns the other
  tab into that user at its next refresh, with the first one's cached data.
- What properties except, with the lines in section 4: "Keep existing" leaves a batch's counters behind; the
  review page may stop polling with an empty list; the split form lets shares through that are refused once
  rounded; a form whose row could not be fetched edits it with another one's values; a share without a payee
  is a cost in full even when it was repaid.
- On the review page's duplicate tab, the bulk buttons with nothing selected act on pending records
  only, although the banner speaks of all duplicates.
- Fields left empty are left out of a PATCH, so clearing a field of a transaction or a note
  of a goal never sticks; editing a transfer into an expense is always refused.
- Editing the amount of a share alone is always refused, as the shares no longer add up.
- Continuations after `await` close or reset whichever dialog is open by then (accounts, budgets, splits,
  transactions).
- The account drawer shows the row it was opened with: a second toggle sends the first one's value.
- Deleting the last row of the last page of transactions leaves an empty page without its pagination.

## 6. Proofs

The theorems hold for every value of the constants that meets the named assumptions of
the modules: ids of each kind in sets of any size, any amounts, any number of requests,
workers, statements or tabs. TLC evaluates the assumptions on each run.

| Theorem | States |
|---|---|
| `SplitProofs!Invariance`, `MoneyInvariance` | the inductive invariants of `Splits` |
| `SplitProofs!TypeCorrect`, `IncomeCreditedOnce`, `DeletedSplitsAreEmpty` | `TypeOK`, `IncomeLinkedOnce`, `OnlyLiveSplitsHold` |
| `SplitProofs!CoveredHolds`, `CostHolds` | `CoveredWithinShare`, `CostPlusPaidWithinShare` |
| `SplitProofs!BalanceHolds`, `StatusHolds`, `CreditsHold` | `StepsKeepBalance`, `StatusFollowsPayments`, `CreditsAreKept` |
| `SplitProofs!ClaimsImplemented` | `Spec => ImplementsClaims`, the refinement |
| `RaceProofs!Invariance` | the inductive invariant of `SplitRaces` |
| `RaceProofs!TypeCorrect`, `SplitsStayWhole` | `TypeOK`, `LiveSplitsAreWhole` |
| `RaceProofs!DeletedForGood`, `BalanceHolds`, `UpdatesAreKept` | `DeletedSplitsStayDeleted`, `StepsKeepBalance`, `NoLostUpdates` |
| `ImportProofs!InvariantHolds` | the inductive invariant of `Imports` |
| `ImportProofs!TypesHold`, `LinesAreKept`, `RecordsImportOnce`, `CountsHold` | `TypeOK`, `NothingDropped`, `ImportedOnce`, `CountsExact` |
| `ImportProofs!ReimportIsFlaggedBehindUtc` | `ReimportIsFlagged`, if `UtcOffset \in -12..0` |
| `SessionProofs` (four theorems) | the session's properties, see below |
| `ClientProofs!ClientInvariance` | the inductive invariant of `Client` |
| `ClientProofs!RecordsFit`, `FormsAreCurrent`, `RowsAreMadeOnce` | `TransfersHaveDestinations`, `FormsFollowTheirRows`, `OneRowPerVisit` |
| `ClientProofs!ScreensAreCurrent` | `ScreenCurrent` |
| `ClientProofs!AmountsAreCurrent`, `BodiesAddUp` | `AmountMirrorsPayments`, `SentBodiesFit` |
| `ClientProofs!UnchangedEditsKeep` | `UnchangedEditKeepsSplit` |
| `ClientProofs!DrawerSendsWhatFits` | `DrawerAmountsFit` |
| `ClientProofs!PeriodsAreWhole` | `PeriodIsWhole` |
| `ClientProofs!WalksShowAll` | `WalkShowsAll` |
| `ClientProofs!GoalsAreJudged`, `SubmittedIsSent` | `CompletedMeansReached`, `ConfirmedIsSubmitted` |
| `ClientProofs!KeptTokensAreGood`, `RefusalsAreJustified`, `RepeatsAreDoneOnce` | `StoredTokenIsGood`, `RefusedForAReason`, `DoneAtMostOnce` |

### Assumptions

- `TablesAssumption`, `SplitsAssumption`: null values are no ids, amounts and bodies are
  what the request schemas let through, positive and up to `MaxMoney`, and a
  behaviour of `Splits` begins with transactions only.
- `FiniteIds`: transactions and shares are finitely many. Their ids are UUIDs, and
  without it a sum over the rows of a table would mean nothing.
- `RacesAssumption`: the same of amounts and bodies, and initial databases meet types and
  constraints; beside these, each live split of an initial database
  has a parent and a share. `MoneyInvariance` shows that every database requests make
  one after the other is like that.
- `ClientAssumption`: the numbers of calls of all pages are numbers, null is no account, and a
  transaction that is edited has the fields of the form. `StartAssumption`: what is there when the page of
  goals or of accounts is opened has ids of its own (null and the key of a list are none of them) and all
  its columns, contributions belong to goals that are there, goals are right about being reached, and typed amounts are positive (the
  schemas of the routes ask for that).
- `FormAssumption`: the split form opens on a database as the handlers leave it, one after the other
  (`Constraints`, and one credit of an income, within what it brought: `IncomeCreditedOnce`). Ids are
  finitely many, all transactions together are within what a column holds, typed numbers are integers,
  negative ones included, and there are enough cards for the shares of the split.
- `CalendarAssumption`: the calendar has a first and a last year; the days it may be and the days
  that can be clicked are of it.
- `ListAssumption`: transactions are finitely many and numbered (UUIDs in the code, which are compared only to
  break ties), dates and amounts are numbers, and a page holds at least one row.
- `SharesAssumption`: the drawer opens on a database that meets types and constraints, ids are finitely
  many, typed numbers are integers, and no id has the name of a mutation (ids are UUIDs).
- `NullsApart` is the hypothesis of the theorems about the client: the model values stand for
  nothing else. Null is no number and no row (`Nothing`), the places of calls that are over or not sent
  are no calls (`NoCalls`), and data not fetched is no form (`NoForm`), no table (`NoTable`) and, like a field left out,
  no amount (`NoAmount`); the cursor of a page is not null (`NoCursor`). It is a
  hypothesis and no assumption because TLC refuses to compare its model values with records.
- `UtcOffset \in -12..0` is a hypothesis of `ReimportIsFlaggedBehindUtc` alone: in
  the zones ahead of UTC the property fails, which is the finding `reimport_is_flagged`.

### Sums

The library sums over a set by a recursive function on its subsets, and induction over
data is out of the prover's reach. `TableProofs` does without it: if a statement about
sums failed for some subset of a finite set, it would fail for one that is smallest with
respect to inclusion (`Smallest`, from the well-foundedness of that order and `WFMin`), and taking one
element out of that gives a contradiction. So it is shown that a sum is the same for
equal functions, grows with its addends, splits into disjoint parts, and gains or loses
what one element adds; everything about amounts rests on these.

### Splits, one request after the other

Every handler is a function from one database to the next. `TableProofs` says what each
writes, for any database `v` it has read and any database `d` it finds: the same lemmas serve
`Splits`, where `v = d`, and `SplitRaces`, where it is not.

`Good(db)` is the type of the database, its `Constraints`, one settlement per income, and
links and settlements only of live splits. The last is not inductive without the others: that
replacing and deleting a split leave nothing behind needs every settlement and link
to belong to rows that exist (the foreign keys in `Constraints`), and the cascades
of a purge need the same. One settlement per income rests on no constraint at all:
each of create, replace, bundle and settle has to look every income up, and the proof goes
through their look-ups one by one. A commit gives `Constraints` for free.

`MoneyInv` adds amounts (`Sound`). That received plus forgiven stays within a share is not
inductive alone: taking a payment away keeps it only if credits are positive, and changing
or forgiving a forgiven share needs that it has received nothing.
`Populated` says that a live split has a link and a share.
`StepsKeepBalance` needs it, for the trigger looks away from splits whose expenses sum
to 0: a live split with a parent has a positive sum (amounts are positive), so the trigger
never looks away from one. Each handler owes `Step(d, n)`: the invariant of the
new database, and what the three action properties say of a step.

`ClaimsImplemented` maps a database to what `SplitClaims` sees of it (`StatusIn`, `ParentIn`, `PaymentIn`,
which are `ClaimStatus`, `ParentOf` and `PaymentOf` of the present one) and shows each handler to be
claiming, closing or forgetting, or to leave those three alone. A split claims what is
free because `Constraints` allow one link per transaction and `Good` one credit.

### Splits, overlapping

What a request in flight has read may be out of date by the time it writes, so
`IncomeLinkedOnce` and `CoveredWithinShare` are lost, and with them `Good`. What is left:
the database has its types, its `Constraints` and is `Populated`; and of what was read (`Seen`), a split
is still a row, live or deleted, and a share that is still there belongs to the split it belonged
to. That holds because splits are never removed and because a new share's id is not
among those that some request has read. `Moved` is what each handler owes here:
splits only go from live to deleted, balance is kept, and shares that stay keep their
split. `UpdatesAreKept` is the ORM's habit (`Column`): a handler
writes only columns whose value it changes itself.

### Imports

`IInv` has three parts. `Places`: rows have their types, records point to transactions that
are there, and what is not uploaded yet has no rows. `Calm`: what a request
has read of an undisturbed batch is what is there when it writes (`Current`), because it is alone on it
(`Alone`); the history variable `disturbed` marks a batch as soon as a second one begins.
And a job that has still to store records finds none (`Fresh`), wherever its predecessor died.
`Sums`: each record of an undisturbed batch has the transactions it should have, and
counters are the numbers of records of each status. Without `Calm`, no `Sums`: a confirmation
adds what it counted when it read.

### Session

`SessionProofs` proves, for any set of tabs, any number of tokens and of calls, from the one
hypothesis `Nothing` (the null value is no number and no row):

- `TokensAreAccounted`: `SessionSpec => [](TokensAccounted /\ CallsOnce)`
- `StoredTokenStaysGood`: `SessionSpec => []StoredTokenIsGood`
- `RefusalsHaveReasons`: `SessionSpec => []RefusedForAReason`
- `CallsAreDoneOnce`: `SessionSpec => []DoneAtMostOnce`

`StoredTokenIsGood` is not inductive: that the token an answer brings is still accepted when it
is stored, perhaps after a logout and another login, needs that nobody else knows it.
`TokensAccounted` says so (`AnswersAreFresh`: it is live, not stored, in no call that revokes, in no
refresh, and no two answers bring the same one), and follows tokens through their other stations: an
answered refresh replaced the token its tab sent (`AnswersReplace`), a token named by a revoking
call was signed out (`RevokedAreWaived`), the stored one is live, waived, or exchanged by an answer
still under way (`StoredAccounted`), and one that was sent is live or has a reason to be refused
(`SentAccounted`), from which `RefusedForAReason` follows at the moment the server refuses. Only three steps issue a
token; all others have the shape `Moves`, for which the invariant is proved once, so that each
action needs only a short lemma that it moves. `CallsOnce` is about calls alone: what may still be sent was not done.
`ClientProofs` takes these theorems twice, for the browser with one tab and the one with two.

### Pages

`ClientInv` is one invariant per page, used while that page is visited; no step turns one page
into another (the `...Frame` lemmas). What calls do is the same on each: `Begun`, `Restated` and `Dropped`
are the three things that happen to the list of calls (one is sent, goes on, or is over and
those before it move up), and lemmas say what each leaves of a statement about all calls.

- `ReviewInv`: a record is a transfer just when it has a destination, not only on the server but in the list
  last fetched and in the bodies of calls under way; a row draft starts from the
  list, perhaps an old one, and what it sends is merged by the server into a record that may
  have changed.
- `TxnFormInv`, `PlanFormInv`: one submission is under way at most and it is heard, for the
  forms are blocked while it is; once a row was made, the form is gone or the answer is on its way.
  That a row was made at most once needs all of this. While the budget form asks for the scope, no call is under way
  (`PlanCalls`), so that what it holds back is the form unless a refetch changed that; `PlanAsks` is
  what each step owes to `ConfirmedIsSubmitted`.
- `PilesInv`, `GoalForm`: the form shows what was last fetched. On the goal's page this needs that
  nothing else is fetched while the form is open.
- `Drafts`, for goals, contributions, accounts and payment methods: what is typed into a dialog has a number.
  Rows made and calls under way have different ones, none later than the present one; a call that has made its
  row is no longer sent; and if the dialog is still open with what was sent, that call is heard, so its answer
  will close it. Several calls are under way at once here, so that "one call at most" is not
  an invariant. `WalletDrafts` is the same for two dialogs that share the numbers; a panel that is gone hears nothing.
- `GoalCalls`: each goal is right about being reached. A handler recomputes the flag of one goal; the others
  stay right because a total depends on the contributions to its goal only
  (`TotalDepends`) and nothing else changes those.

### What pages show

`ScreenCurrent` speaks of the moments at which nothing is under way. What holds between them, as long as
no answer was lost, is of each query in use: it shows what the server has, or it is due to be fetched, or
some call was done by the server and its callbacks, which have the query fetched, are still to run
(`Owed`, of the hooks that invalidate it). That is `PilesTold`, `PlansTold`, `ListTold`, `GoalsTold`,
`RowsTold`, `SharesTold` and `ReviewTold`. A handler at the server makes its call one
that is owed, whatever it does to the tables, a callback that runs makes its queries due, and nothing else
changes the tables; `DoneGoesOn` says that a call owed stays so while others are sent, go on or are over.
Where pages differ:

- The lists of budgets and of transactions depend on the period or the URL too: a change of these
  makes them due.
- On the page of accounts, creating a payment method has only the panel of its account fetched, and
  the panel may be another one by the time the callback runs. `PanelTold` is about the panel that is open, and
  `PanelOwed` about calls for its account. An account's id is not given
  out again after its deletion, or an open panel could be owed nothing and show methods of another account.
- On the goals page a query of a goal's contributions is in use while that goal is open; a goal just
  created has none.
- On the review page the batch is polled while it is parsed, so it may be behind without being due. Lists
  or hints fetched by then are noted in `seen.early`; the answer that ends the polling makes the hints due, but
  not the list (`api/imports.ts:84,97`), so that `RecordsTold` and `HintsTold` hold of what is not in it.

### The split form

`FormInv` is about the form and the cache of amounts its sums are made from, in which what has not
been fetched counts for nothing. `FormMirrors` says that an untouched amount is what the linked payments
bring *and* that the cache has the amounts of these payments: without the second part,
linking one payment more would work the sum out with another one counting for nothing. It holds
because the picker puts a payment into the cache as it is picked, and the cards of a split that is
edited open as touched. `FormCards` says that no
payment is on two cards, `CreditsFit` that no credit exceeds its payment, which the
server's handlers, here those of `SplitHandlers`, keep.

`BodiesAddUp` is about the step that submits. What the form checks (`Fits`) is said of cards,
and the user's own share is a remainder; what the server checks (`ValidBody`, `BodyFits`) is said of payees.
`BodyShares` turns one into the other, which needs that no two cards have one payee. The form's amounts are
tenths of a cent, its tolerance half a cent; the body's are whole cents. If all of them are whole, rounding is
exact (`WholeIsIt`, `RoundedIsIt`, `CentsAreKept`), and a balance within half a cent is zero; `TotalTenfold` of
`TableProofs` takes the factor of ten out of a sum over the cards. `BodyAddsUp` is the sum of the shares; `BodyIsFit` puts both together, for any credits that do not exceed
their incomes, those of a new split (`FullCredit`) as well as those kept from the split being edited (`KeptCredit`).

`UnchangedEditsKeep` is about saving as the form opened. `FormSaves` says what that takes: tables the
database accepts (`FormRows`), a card for each share of a payee, now and once what is being saved is
there, and that a save under way is one of the cards' (`SavesOf`). Then each share has its
card (`OpenedCards`), so the body asks for the shares there are (`UnchangedAsks`), there are ids for them, if
only those they had (`IdsForShares`), and each comes back (`RowsComeBack`): no payment is on
two shares, so `KeptCredit` is the credit it has (`CreditsStay`), what is paid adds up as before and the status
derived is the one there was.

The sums are `Sum`, which is `Total` of `TableProofs`: the lemmas `KnownSum` to `CreditSum` say that each sum
of the form is that one.

### The split drawer

`DrawerInv` says of drawer and page what their arithmetic needs: amounts at the server, in the view and in
the forms are numbers, the row of a confirmation is a share, and a call under way is one of the hooks.
`SharesSent` is about a step that sends: a payment or a remission it sends is one the open form lets
through. `DrawerFits` compares this with the server. The drawer's `Remaining` is cut off at zero, so a
payment it lets through is positive and what is cut off does not matter; what it lets
through to forgive is compared with `TotalLess`, because the server replaces what was forgiven before.
Of a payment this is `SettleShown`: the amount sent, or, when it is left out, that of the income
at the server, which under the hypothesis is the cached one the form compared with. `IncomesKnown` and `IncomeRows` say that the amounts cached, and
those of the incomes, are numbers.
The server's own total is a number (`PaidNumber`): it is `Total` of `TableProofs` again. What a handler
writes keeps the columns (`WritesRows`), and what commits meets the constraints.

### Periods

The calendar begins on the first of January of any year, which counts as a Sunday, and ends with any
later one. Its months are
places in a row: `FirstDay` says where each begins, `Date` overflows from one into the next. The leap
years before a year are the cardinality of a set, which `LeapsCounted` counts up year by year;
from it every month has 28 to 31 days (`MonthLength`). That months are in order, and that each day is
in one month, takes an induction: `MonthsInOrder` and `MonthOfDay` look at the first month that
is not. `PickerInv` says which fields a selection has: a year only with a month, a quarter or a
year picked, a month only with a month, a range with its ends in order (as the range calendar, an external component, hands them over); the
picker shows a month of the calendar while it is open on weeks. A selection then resolves
to the days from the beginning of one month to the day before another (`MonthsPeriod`), which
are those of its month, quarter or year; of a week the argument is about remainders by seven
(`MondayOf`, `DaysOfWeek`). The six weeks offered reach 42 days from a Monday at most six
days before the month (`WeeksOffered`).

### The transaction list

`InOrder` says which row is the i-th: the one with i - 1 others before it. That there is one is the argument of `RowsInOrder`:
the number of rows before a row is a function into as many numbers as there are rows, no two have the same, so
every number is taken. What an answer leaves out therefore comes after the last row it holds (`AnswerGoesOn`).
`WalkInv` says that, on a walk, each matching row was shown or comes after the cursor for the
next page, and the same of the cursor of each page walked, which makes turning back harmless. It needs
`UrlsFit`: page one has no cursor in any URL of the history, nor among those remembered. Deleting rows leaves less to show; filters,
orders and sizes go to page one, where the walk begins again, and so, by the definition of the walk, do
history, reload and period unless the page is the first.

### Only model-checked

Liveness (`TakenBatchesFinish`), which is out of the prover's reach here, as is ENABLED.
Of the client: `TypeOK`.
The seven violated properties are refuted by TLC, and nothing is proved of them but
`ReimportIsFlaggedBehindUtc`.

## 7. Not modelled

Everything section 2 plans for later. Not planned: parsers and the language model
client (text in, text out), dashboard and reports beyond the sum of net amounts
(queries), subscriptions (rows and a date rule), deployment; in the client, the pages
that only show or that repeat the shape of accounts and goals (payees, categories, tags,
subscriptions, recently deleted, settings, reports, dashboard), upload and download of files,
layout, breadcrumbs and charts. Of the modelled pages: the second use of a page's data by another one open
in another tab, drafts of text, and the cache that outlives a visit.
