------------------------------ MODULE Imports ------------------------------
(***************************************************************************)
(* Statement imports: uploading a PDF, the background job that parses it   *)
(* into records, and the review that turns records into transactions.      *)
(*                                                                         *)
(* Three kinds of process share the database: the upload request, which    *)
(* enqueues its job before it commits the batch the job is about; the job, *)
(* which a worker runs and ARQ delivers again if that worker dies; and     *)
(* review requests, which read, then write and commit on whatever has been *)
(* committed since.  There is one user with one bank account, so the       *)
(* duplicate search's account filter lets everything through.              *)
(***************************************************************************)
EXTENDS Integers, Sequences, FiniteSets

CONSTANTS Batches,       \* ids of import_batches rows, one per uploaded file
          Statement,     \* the lines the parser finds in each file
          Broken,        \* a parsed_json that makes no transaction
          PatchLines,    \* the parsed_json an edit of a record may set
          PatchStatuses, \* the status an edit of a record may set
          Keep,          \* an edit that leaves this field alone
          UtcOffset,     \* hours the user's time zone is ahead of UTC
          Slots,         \* review requests the server handles at a time
          Idle,          \* a slot without a request
          MaxRequests,   \* bound: how many review requests are made
          MaxCrashes     \* bound: how often a worker dies (ARQ retries 4 times)

Line == [day : Int, amount : Int]
RecordStatus == {"pending", "confirmed", "rejected", "duplicate", "failed"}

ASSUME ImportsAssumption ==
    /\ Statement \in [Batches -> Seq(Line)]
    /\ PatchLines \subseteq Line \cup {Broken}
    /\ Broken \notin Line
    /\ PatchStatuses \subseteq RecordStatus
    /\ Keep \notin RecordStatus
    /\ UtcOffset \in -12..14
    /\ MaxRequests \in Nat
    /\ MaxCrashes \in 0..4

VARIABLES upload,    \* per batch: "none", "open" while its request runs, "over"
          batch,     \* the import_batches rows
          record,    \* the raw_import_records rows, per batch in order of insertion
          ledger,    \* the transactions, in order of insertion
          job,       \* per batch: where its job is, and what it has read
          slot,      \* per slot: Idle, or a review request and what it has read
          requests,  \* how many review requests have been made
          crashes,   \* how often a worker has died
          disturbed  \* history: batches that were worked on twice at a time, or on
                     \* which an edit overturned a decision

tables == <<batch, record, ledger>>
vars == <<upload, batch, record, ledger, job, slot, requests, crashes, disturbed>>

-----------------------------------------------------------------------------
(***************************************************************************)
(* Rows.                                                                   *)
(***************************************************************************)
BatchStatus == {"pending", "processing", "completed", "failed"}

\* Mutant: the offset is applied the wrong way round.
WrongWayRound(day) == (24 * day + UtcOffset) \div 24

\* The UTC calendar day of local midnight.  \div rounds down.
UtcDay(day) == (24 * day - UtcOffset) \div 24

\* The transaction a record becomes: kept are its UTC day, amount and
\* import_record_id, and, for the properties, the line it was made from.
Entry(line, id) ==
    [day |-> UtcDay(line.day), amount |-> line.amount, record |-> id,
     line |-> line, live |-> TRUE]

LiveEntries == {t \in DOMAIN ledger : ledger[t].live}

\* Same amount, and the day the statement gives is the transaction's UTC day.
Duplicates(line) ==
    {t \in LiveEntries : ledger[t].amount = line.amount /\ ledger[t].day = line.day}

\* The ids in increasing order: the k-th is the one with k - 1 smaller ones.
InOrder(ids) ==
    [k \in 1..Cardinality(ids) |-> CHOOSE n \in ids : Cardinality({m \in ids : m < n}) = k - 1]

\* Commits write a column only if the request changed the value it had read.
Column(old, new, current) == IF new # old THEN new ELSE current

-----------------------------------------------------------------------------
(***************************************************************************)
(* Upload.                                                                 *)
(***************************************************************************)
NewBatch(account) ==
    [status |-> "pending", account |-> account, parsed |-> 0, confirmed |-> 0, rejected |-> 0]

\* The batch is inserted but not committed when its job is enqueued, or, with
\* Redis down, when the job is run inline, in a session that cannot see it.
BeginUpload(b) ==
    /\ upload[b] = "none"
    /\ upload' = [upload EXCEPT ![b] = "open"]
    /\ \E state \in {"queued", "done"} : job' = [job EXCEPT ![b].state = state]
    /\ UNCHANGED <<tables, slot, requests, crashes, disturbed>>

CommitUpload(b) ==
    /\ upload[b] = "open"
    /\ upload' = [upload EXCEPT ![b] = "over"]
    /\ \E account \in BOOLEAN :
          batch' = [c \in DOMAIN batch \cup {b} |-> IF c = b THEN NewBatch(account) ELSE batch[c]]
    /\ UNCHANGED <<record, ledger, job, slot, requests, crashes, disturbed>>

-----------------------------------------------------------------------------
(***************************************************************************)
(* The job.                                                                *)
(***************************************************************************)
NoRead == [state |-> "none", confirmed |-> 0, rejected |-> 0, found |-> {}]

\* The job leaves its session: what it had read is gone.
Leave(b, state) == job' = [job EXCEPT ![b] = [NoRead EXCEPT !.state = state]]

\* The job ends at once when it finds no batch.
TakeJob(b) ==
    /\ job[b].state = "queued"
    /\ IF b \in DOMAIN batch
       THEN /\ batch' = [batch EXCEPT ![b].status = "processing"]
            /\ job' = [job EXCEPT ![b] =
                  [@ EXCEPT !.state = "taken", !.confirmed = batch[b].confirmed,
                            !.rejected = batch[b].rejected]]
       ELSE Leave(b, "done") /\ UNCHANGED batch
    /\ disturbed' = IF record[b] = <<>> THEN disturbed ELSE disturbed \cup {b}
    /\ UNCHANGED <<upload, record, ledger, slot, requests, crashes>>

\* Parsing is done; the duplicates of each line are looked up.
ReadLedger(b) ==
    /\ job[b].state = "taken"
    /\ job' = [job EXCEPT ![b].state = "read",
                          ![b].found = {n \in DOMAIN Statement[b] : Duplicates(Statement[b][n]) # {}}]
    /\ UNCHANGED <<upload, tables, slot, requests, crashes, disturbed>>

\* byHand is a history field: an edit, not the reject handler, rejected the record.
NewRecord(line, duplicate) ==
    [line |-> line, status |-> IF duplicate THEN "duplicate" ELSE "pending", txn |-> 0,
     byHand |-> FALSE]

\* Mutant: lines that look like duplicates are skipped.
SkipDuplicates(b) ==
    LET fresh == InOrder(DOMAIN Statement[b] \ job[b].found)
    IN  [k \in DOMAIN fresh |-> NewRecord(Statement[b][fresh[k]], FALSE)]

NewRecords(b) ==
    [n \in DOMAIN Statement[b] |-> NewRecord(Statement[b][n], n \in job[b].found)]

\* The batch's row when its job, having read the counters in read, is done.
Completed(row, read, parsed) ==
    [row EXCEPT !.status = "completed", !.parsed = parsed,
                !.confirmed = Column(read.confirmed, 0, @),
                !.rejected = Column(read.rejected, 0, @)]

StoreRecords(b) ==
    /\ job[b].state = "read"
    /\ record' = [record EXCEPT ![b] = @ \o NewRecords(b)]
    /\ batch' = [batch EXCEPT ![b] = Completed(@, job[b], Len(Statement[b]))]
    /\ Leave(b, "ending")
    /\ UNCHANGED <<upload, ledger, slot, requests, crashes, disturbed>>

\* Mutant: the exception is raised without noting that the batch failed.
FailSilently(b) ==
    /\ job[b].state = "taken"
    /\ Leave(b, "ending")
    /\ UNCHANGED <<upload, tables, slot, requests, crashes, disturbed>>

\* The PDF cannot be opened, no parser knows it, or the parser raises.
FailJob(b) ==
    /\ job[b].state = "taken"
    /\ batch' = [batch EXCEPT ![b].status = "failed"]
    /\ Leave(b, "ending")
    /\ UNCHANGED <<upload, record, ledger, slot, requests, crashes, disturbed>>

\* ARQ cuts the job off after its time limit, or committing the records fails
\* and with it the handler's own commit: the job is not run again.
CutOff(b) ==
    /\ job[b].state \in {"taken", "read"}
    /\ Leave(b, "lost")
    /\ UNCHANGED <<upload, tables, slot, requests, crashes, disturbed>>

\* ARQ notes the job's end.
AckJob(b) ==
    /\ job[b].state = "ending"
    /\ Leave(b, "done")
    /\ UNCHANGED <<upload, tables, slot, requests, crashes, disturbed>>

\* The worker dies with its open transaction; ARQ delivers the job again.
Crash(b) ==
    /\ job[b].state \in {"taken", "read", "ending"}
    /\ crashes < MaxCrashes
    /\ crashes' = crashes + 1
    /\ Leave(b, "queued")
    /\ UNCHANGED <<upload, tables, slot, requests, disturbed>>

-----------------------------------------------------------------------------
(***************************************************************************)
(* Review.                                                                 *)
(***************************************************************************)
ReviewRequests(b) ==
    LET ids == DOMAIN record[b]
    IN  [op : {"confirm"}, batch : {b}, ids : (SUBSET ids) \ {{}}, force : BOOLEAN]
        \cup [op : {"reject"}, batch : {b}, ids : (SUBSET ids) \ {{}}]
        \cup [op : {"patch"}, batch : {b}, id : ids, line : PatchLines \cup {Keep},
              status : PatchStatuses \cup {Keep}]
        \cup [op : {"account"}, batch : {b}]
        \cup [op : {"replace"}, batch : {b}, id : ids, txns : SUBSET LiveEntries]

Converts(row) == row.line # Broken

\* A request is turned away before it has written anything.
Accepts(r) ==
    LET b == r.batch
    IN  CASE r.op = "confirm" -> batch[b].account
          [] r.op = "replace" -> /\ batch[b].account
                                 /\ record[b][r.id].status = "duplicate"
                                 /\ Converts(record[b][r.id])
          [] OTHER            -> TRUE

BeginReview(w, r) ==
    /\ slot[w] = Idle
    /\ requests < MaxRequests
    /\ Accepts(r)
    /\ slot' = [slot EXCEPT ![w] =
          [request |-> r, batch |-> batch[r.batch], record |-> record[r.batch]]]
    /\ requests' = requests + 1
    /\ disturbed' = IF \E u \in Slots : slot[u] # Idle /\ slot[u].request.batch = r.batch
                    THEN disturbed \cup {r.batch} ELSE disturbed
    /\ UNCHANGED <<upload, tables, job, crashes>>

\* Mutants: with ids given, the status filter is forgotten.
ConfirmGiven(rows, r) == r.ids
RejectGiven(rows, r) == r.ids

SelectedForConfirm(rows, r) ==
    {n \in r.ids : rows[n].status \in IF r.force THEN {"pending", "duplicate"} ELSE {"pending"}}

SelectedForReject(rows, r) == {n \in r.ids : rows[n].status = "pending"}

\* The given records become transactions, appended to the ledger l in order.
Import(l, b, rows, chosen) ==
    LET order == InOrder(chosen)
    IN  l \o [k \in DOMAIN order |-> Entry(rows[order[k]].line, <<b, order[k]>>)]

Confirmed(row, txn) == [row EXCEPT !.status = "confirmed", !.txn = txn]

\* Mutant: off by one.
PlaceFromOne(ids, n) == 1 + Cardinality({m \in ids : m <= n})

\* The place of n among ids.
Place(ids, n) == Cardinality({m \in ids : m <= n})

Failed(row, read) == [row EXCEPT !.status = "failed", !.line = read.line]

ConfirmRecords(v, r) ==
    LET b == r.batch
        selected == SelectedForConfirm(v.record, r)
        chosen == {n \in selected : Converts(v.record[n])}
    IN  /\ ledger' = Import(ledger, b, v.record, chosen)
        /\ record' = [record EXCEPT ![b] = [n \in DOMAIN @ |->
              IF n \in chosen THEN Confirmed(@[n], Len(ledger) + Place(chosen, n))
              ELSE IF n \in selected THEN Failed(@[n], v.record[n])
              ELSE @[n]]]
        /\ batch' = [batch EXCEPT ![b].confirmed =
              Column(v.batch.confirmed, v.batch.confirmed + Cardinality(chosen), @)]

RejectRecords(v, r) ==
    LET b == r.batch
        selected == SelectedForReject(v.record, r)
    IN  /\ record' = [record EXCEPT ![b] = [n \in DOMAIN @ |->
              IF n \in selected THEN [@[n] EXCEPT !.status = "rejected", !.byHand = FALSE]
              ELSE @[n]]]
        /\ batch' = [batch EXCEPT ![b].rejected =
              Column(v.batch.rejected, v.batch.rejected + Cardinality(selected), @)]
        /\ UNCHANGED ledger

Patched(old, new, current) == IF new = Keep THEN current ELSE Column(old, new, current)

Edited(row, read, r) ==
    [row EXCEPT !.line = Patched(read.line, r.line, @),
                !.status = Patched(read.status, r.status, @),
                !.byHand = @ \/ r.status = "rejected"]

PatchRecord(v, r) ==
    /\ record' = [record EXCEPT ![r.batch][r.id] = Edited(@, v.record[r.id], r)]
    /\ UNCHANGED <<batch, ledger>>

PatchBatch(r) ==
    /\ batch' = [batch EXCEPT ![r.batch].account = TRUE]
    /\ UNCHANGED <<record, ledger>>

ReplaceExisting(v, r) ==
    LET b == r.batch
        kept == [t \in DOMAIN ledger |->
                    IF t \in r.txns THEN [ledger[t] EXCEPT !.live = FALSE] ELSE ledger[t]]
    IN  /\ ledger' = Import(kept, b, v.record, {r.id})
        /\ record' = [record EXCEPT ![b][r.id] = Confirmed(@, Len(ledger) + 1)]
        /\ batch' = [batch EXCEPT ![b].confirmed =
              Column(v.batch.confirmed, v.batch.confirmed + 1, @)]

\* An edit that sets the status of a record already decided, or confirms one
\* without making its transaction.
Redecides(r) ==
    /\ r.op = "patch"
    /\ r.status # Keep
    /\ \/ record[r.batch][r.id].status \in {"confirmed", "rejected"}
       \/ r.status = "confirmed"

CommitReview(w) ==
    /\ slot[w] # Idle
    /\ LET v == slot[w]
           r == v.request
       IN  /\ \/ r.op = "confirm" /\ ConfirmRecords(v, r)
              \/ r.op = "reject"  /\ RejectRecords(v, r)
              \/ r.op = "patch"   /\ PatchRecord(v, r)
              \/ r.op = "account" /\ PatchBatch(r)
              \/ r.op = "replace" /\ ReplaceExisting(v, r)
           /\ disturbed' = IF Redecides(r) THEN disturbed \cup {r.batch} ELSE disturbed
    /\ slot' = [slot EXCEPT ![w] = Idle]
    /\ UNCHANGED <<upload, job, requests, crashes>>

\* The server dies, or the connection to the database does.
AbortReview(w) ==
    /\ slot[w] # Idle
    /\ slot' = [slot EXCEPT ![w] = Idle]
    /\ UNCHANGED <<upload, tables, job, requests, crashes, disturbed>>

-----------------------------------------------------------------------------
Init ==
    /\ upload = [b \in Batches |-> "none"]
    /\ batch = <<>>
    /\ record = [b \in Batches |-> <<>>]
    /\ ledger = <<>>
    /\ job = [b \in Batches |-> NoRead]
    /\ slot = [w \in Slots |-> Idle]
    /\ requests = 0
    /\ crashes = 0
    /\ disturbed = {}

\* What a worker does with a job, while it lives.
WorkOn(b) == TakeJob(b) \/ ReadLedger(b) \/ StoreRecords(b) \/ FailJob(b) \/ AckJob(b)

Next ==
    \/ \E b \in Batches : \/ BeginUpload(b) \/ CommitUpload(b)
                         \/ WorkOn(b) \/ CutOff(b) \/ Crash(b)
    \/ \E b \in DOMAIN batch, w \in Slots : \E r \in ReviewRequests(b) : BeginReview(w, r)
    \/ \E w \in Slots : CommitReview(w) \/ AbortReview(w)

\* An upload that has begun commits, and a worker goes on with its job; nobody
\* has to upload or review anything, and workers need not die.
Fairness == \A b \in Batches : WF_vars(CommitUpload(b)) /\ WF_vars(WorkOn(b))

Spec == Init /\ [][Next]_vars /\ Fairness

-----------------------------------------------------------------------------
(***************************************************************************)
(* Properties.                                                             *)
(***************************************************************************)
BatchRow == [status : BatchStatus, account : BOOLEAN, parsed : Nat, confirmed : Nat,
             rejected : Nat]

\* Every record refers to a transaction there is, or to none (0).
TypeOK ==
    /\ DOMAIN batch = {b \in Batches : upload[b] = "over"}
    /\ \A b \in DOMAIN batch : batch[b] \in BatchRow
    /\ \A b \in Batches : \A n \in DOMAIN record[b] :
          /\ record[b][n].line \in Line \cup {Broken}
          /\ record[b][n].status \in RecordStatus
          /\ record[b][n].txn \in 0..Len(ledger)
          /\ record[b][n].byHand \in BOOLEAN
    /\ \A b \in Batches : job[b].state \in
          {"none", "queued", "taken", "read", "ending", "done", "lost"}
    /\ \A t \in DOMAIN ledger : ledger[t].amount \in Int /\ ledger[t].live \in BOOLEAN
    /\ requests \in 0..MaxRequests
    /\ crashes \in 0..MaxCrashes
    /\ disturbed \subseteq Batches

ImportedFrom(id) == {t \in DOMAIN ledger : ledger[t].record = id}

\* No line of a statement is dropped, and none stored in part, wherever a worker
\* died: a completed batch has one record per line, and any other batch has none.
\* (A job delivered again after it had stored its records stores them twice; that
\* batch is disturbed.)
NothingDropped ==
    \A b \in DOMAIN batch \ disturbed :
        Len(record[b]) = IF batch[b].status = "completed" THEN Len(Statement[b]) ELSE 0

\* However often and with whatever ids records are confirmed, forced or replaced,
\* a record makes one transaction, the one it refers to, exactly if it is confirmed.
ImportedOnce ==
    \A b \in Batches \ disturbed : \A n \in DOMAIN record[b] :
        ImportedFrom(<<b, n>>) =
            IF record[b][n].status = "confirmed" THEN {record[b][n].txn} ELSE {}

\* The counters of a batch are the numbers of records parsed, confirmed and
\* rejected by the reject handler, whatever sequence of requests and crashes led
\* there.  A record rejected by an edit ("Keep existing", ImportReview.tsx:82-84)
\* is in none of them, although docs/TDD.md:177 (FR-11.5) speaks of rejected
\* counts and the page's header takes the three for the whole (ImportReview.tsx:556):
\* such a record shows as pending there for good.
CountsExact ==
    \A b \in DOMAIN batch \ disturbed :
        LET Having(status) == {n \in DOMAIN record[b] : record[b][n].status = status}
        IN  /\ batch[b].parsed = Len(record[b])
            /\ batch[b].confirmed = Cardinality(Having("confirmed"))
            /\ batch[b].rejected =
                  Cardinality({n \in Having("rejected") : ~record[b][n].byHand})

\* A line is flagged as a duplicate if a live transaction was made from the same
\* line: importing a statement again, or one that overlaps it, does not go unseen.
ReimportIsFlagged ==
    [][\A b \in Batches : job[b].state = "taken" /\ job'[b].state = "read" =>
          \A n \in DOMAIN Statement[b] :
              (\E t \in LiveEntries : ledger[t].line = Statement[b][n]) => n \in job'[b].found]_vars

Has(b, status) == b \in DOMAIN batch /\ batch[b].status \in status

\* A batch a worker has begun ends completed or failed, through crashes of the
\* worker, unless its job was cut off.
TakenBatchesFinish ==
    \A b \in Batches :
        Has(b, {"processing"}) ~> Has(b, {"completed", "failed"}) \/ job[b].state = "lost"

-----------------------------------------------------------------------------
\* An uploaded batch is processed: by a worker, or inline if Redis is down.
UploadsAreProcessed ==
    \A b \in Batches : upload[b] = "over" ~> Has(b, BatchStatus \ {"pending"})
=============================================================================
