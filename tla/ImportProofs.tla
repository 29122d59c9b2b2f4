----------------------------- MODULE ImportProofs -----------------------------
(***************************************************************************)
(* Proofs about Imports, for every value of its constants.                 *)
(*                                                                         *)
(* The counters and references of a batch are right as long as nobody      *)
(* works on it twice at a time.  The invariant says why: what a review     *)
(* request has read of an undisturbed batch is what is still there when it *)
(* writes (Current), because it is alone (Alone) and because a job that    *)
(* could still store records is at work only while there are none          *)
(* (Fresh).                                                                *)
(***************************************************************************)
EXTENDS Imports, FiniteSetTheorems, FunctionTheorems, SequenceTheorems, TLAPS

RecordRow == [line : Line \cup {Broken}, status : RecordStatus, txn : Nat,
              byHand : BOOLEAN]
EntryRow == [day : Int, amount : Int, record : Batches \X Nat, line : Line, live : BOOLEAN]
JobState == {"none", "queued", "taken", "read", "ending", "done", "lost"}
JobRow == [state : JobState, confirmed : Nat, rejected : Nat, found : SUBSET Nat]

\* Rows have their columns' types.
Types ==
    /\ upload \in [Batches -> {"none", "open", "over"}]
    /\ batch \in [{b \in Batches : upload[b] = "over"} -> BatchRow]
    /\ record \in [Batches -> Seq(RecordRow)]
    /\ ledger \in Seq(EntryRow)
    /\ job \in [Batches -> JobRow]
    /\ DOMAIN slot = Slots
    /\ requests \in 0..MaxRequests
    /\ crashes \in 0..MaxCrashes
    /\ disturbed \subseteq Batches

\* A record refers to a transaction there is, or to none.
Referring ==
    \A b \in Batches : \A n \in DOMAIN record[b] : record[b][n].txn <= Len(ledger)

\* A transaction was made from a record there is, as the record's line said.
Backed ==
    \A t \in DOMAIN ledger :
        /\ ledger[t].record[2] \in DOMAIN record[ledger[t].record[1]]
        /\ ledger[t].day = UtcDay(ledger[t].line.day)
        /\ ledger[t].amount = ledger[t].line.amount

\* A batch not yet committed has no records, and no job is at work on it.
Unborn ==
    \A b \in Batches \ DOMAIN batch :
        record[b] = <<>> /\ job[b].state \notin {"taken", "read"}

\* A request names records it has read.
Names(r, rows) ==
    \/ r.op \in {"confirm", "reject"} /\ r.ids \subseteq DOMAIN rows /\ r.ids # {}
    \/ /\ r.op = "patch" /\ r.id \in DOMAIN rows
       /\ r.line \in PatchLines \cup {Keep} /\ r.status \in PatchStatuses \cup {Keep}
    \/ r.op = "account"
    \/ /\ r.op = "replace" /\ r.id \in DOMAIN rows
       /\ rows[r.id].status = "duplicate" /\ Converts(rows[r.id])

\* What a review request has read is of its batch, which may have grown since.
Read(w) ==
    LET v == slot[w]
        b == v.request.batch
    IN  /\ b \in DOMAIN batch
        /\ v.batch \in BatchRow
        /\ v.record \in Seq(RecordRow) /\ Len(v.record) <= Len(record[b])
        /\ Names(v.request, v.record)

Reading == \A w \in Slots : slot[w] # Idle => Read(w)

\* What it has read of the records of an undisturbed batch is still there,
Current ==
    \A w \in Slots :
        slot[w] # Idle /\ slot[w].request.batch \notin disturbed /\ slot[w].request.op # "account" =>
            /\ slot[w].record = record[slot[w].request.batch]
            /\ slot[w].batch.confirmed = batch[slot[w].request.batch].confirmed
            /\ slot[w].batch.rejected = batch[slot[w].request.batch].rejected

\* for it is the only one at work on them,
Alone ==
    \A u, w \in Slots :
        slot[u] # Idle /\ slot[w] # Idle /\ slot[u].request.batch = slot[w].request.batch
        /\ slot[u].request.batch \notin disturbed => u = w

\* and a job at work finds none.
Fresh ==
    \A b \in Batches \ disturbed : job[b].state \in {"taken", "read"} => record[b] = <<>>

Places == Types /\ Referring /\ Backed /\ Unborn /\ Reading
Calm == Current /\ Alone /\ Fresh
Sums == NothingDropped /\ ImportedOnce /\ CountsExact

IInv == Places /\ Calm /\ Sums

-----------------------------------------------------------------------------
(***************************************************************************)
(* Putting records in order.                                               *)
(***************************************************************************)

\* The place of an id is one more than the number of smaller ids.
LEMMA PlaceCountsSmaller ==
    ASSUME NEW ids \in SUBSET Nat, IsFiniteSet(ids), NEW n \in ids
    PROVE  /\ Place(ids, n) = Cardinality({m \in ids : m < n}) + 1
           /\ Place(ids, n) \in 1..Cardinality(ids)
<1> DEFINE below == {m \in ids : m < n}
           upto == {m \in ids : m <= n}
<1>1. IsFiniteSet(below) /\ Cardinality(below) \in Nat
  BY FS_Subset, FS_CardinalityType
<1>2. upto = below \cup {n} /\ n \notin below
  <2>1. n \in Nat /\ \A m \in ids : m \in Nat
    OBVIOUS
  <2>2. \A m \in ids : m <= n <=> m < n \/ m = n
    BY <2>1
  <2>3. ~(n < n)
    BY <2>1
  <2> QED  BY <2>2, <2>3, Zenon
<1>3. Cardinality(upto) = Cardinality(below) + 1
  BY <1>1, <1>2, FS_AddElement
<1>4. Cardinality(upto) <= Cardinality(ids) /\ Cardinality(ids) \in Nat
  BY FS_Subset, FS_CardinalityType
<1> QED  BY <1>1, <1>3, <1>4 DEF Place

\* No two ids have the same place,
LEMMA PlacesDiffer ==
    ASSUME NEW ids \in SUBSET Nat, IsFiniteSet(ids), NEW a \in ids, NEW b \in ids, a < b
    PROVE  Place(ids, a) # Place(ids, b)
<1> DEFINE S == {m \in ids : m <= b}
           T == {m \in ids : m <= a}
<1>1. a \in Nat /\ b \in Nat /\ \A m \in ids : m \in Nat
  OBVIOUS
<1>2. IsFiniteSet(S) /\ T \in SUBSET S
  <2>1. \A m \in ids : m <= a => m <= b
    BY <1>1
  <2> QED  BY <2>1, FS_Subset
<1>3. b \in S /\ b \notin T
  BY <1>1
<1> QED  BY <1>2, <1>3, FS_Subset DEF Place

\* so every place is taken.
LEMMA InOrderLists ==
    ASSUME NEW ids \in SUBSET Nat, IsFiniteSet(ids)
    PROVE  /\ DOMAIN InOrder(ids) = 1..Cardinality(ids)
           /\ \A n \in ids : InOrder(ids)[Place(ids, n)] = n
           /\ \A k \in 1..Cardinality(ids) :
                 InOrder(ids)[k] \in ids /\ Place(ids, InOrder(ids)[k]) = k
<1> DEFINE F == [n \in ids |-> Place(ids, n)]
           T == 1..Cardinality(ids)
<1>1. DOMAIN InOrder(ids) = T
  BY DEF InOrder
<1>2. F \in [ids -> T]
  BY PlaceCountsSmaller
<1>3. \A a, b \in ids : F[a] = F[b] => a = b
  BY PlacesDiffer
<1>4. F \in Injection(ids, T)
  BY <1>2, <1>3, Fun_IsInj
<1>5. IsFiniteSet(T) /\ Cardinality(T) = Cardinality(ids)
  BY FS_Interval, FS_CardinalityType
<1>6. F \in Surjection(ids, T)
  BY <1>4, <1>5, FS_Injection
<1>7. \A k \in T : \E n \in ids : Place(ids, n) = k
  BY <1>6 DEF Surjection
<1>8. ASSUME NEW k \in T PROVE InOrder(ids)[k] \in ids /\ Place(ids, InOrder(ids)[k]) = k
  <2> DEFINE Smaller(n) == Cardinality({m \in ids : m < n})
  <2>1. InOrder(ids)[k] = CHOOSE n \in ids : Smaller(n) = k - 1
    BY DEF InOrder
  <2>2. \A n \in ids : Smaller(n) \in Int /\ Place(ids, n) = Smaller(n) + 1
    <3> TAKE n \in ids
    <3>1. IsFiniteSet({m \in ids : m < n})
      BY FS_Subset
    <3> QED  BY <3>1, PlaceCountsSmaller, FS_CardinalityType
  <2> HIDE DEF Smaller
  <2>3. \E n \in ids : Smaller(n) = k - 1
    BY <1>7, <2>2
  <2>4. PICK n \in ids : InOrder(ids)[k] = n /\ Smaller(n) = k - 1
    BY <2>1, <2>3
  <2> QED  BY <2>2, <2>4
<1>9. ASSUME NEW n \in ids PROVE InOrder(ids)[Place(ids, n)] = n
  BY <1>3, <1>8, PlaceCountsSmaller
<1> QED  BY <1>1, <1>8, <1>9

-----------------------------------------------------------------------------
(***************************************************************************)
(* Records that become transactions.                                       *)
(***************************************************************************)

\* A sound row makes a transaction.
LEMMA EntryType ==
    ASSUME NEW line \in Line, NEW id \in Batches \X Nat
    PROVE  /\ Entry(line, id) \in EntryRow
           /\ Entry(line, id).record = id
           /\ Entry(line, id).day = UtcDay(line.day)
           /\ Entry(line, id).amount = line.amount
           /\ Entry(line, id).line = line
BY ImportsAssumption DEF Entry, EntryRow, Line, UtcDay

\* new is l with one transaction per chosen record, each at its place.
Adds(l, new, b, rows, chosen) ==
    /\ new \in Seq(EntryRow) /\ Len(new) = Len(l) + Cardinality(chosen)
    /\ \A t \in 1..Len(l) : new[t] = l[t]
    /\ \A n \in chosen :
          LET t == Len(l) + Place(chosen, n)
          IN  /\ t \in (Len(l) + 1)..Len(new)
              /\ new[t] = Entry(rows[n].line, <<b, n>>)
    /\ \A t \in (Len(l) + 1)..Len(new) : \E n \in chosen : t = Len(l) + Place(chosen, n)
    /\ IsFiniteSet(chosen) /\ Cardinality(chosen) \in Nat

\* Importing appends them.
LEMMA ImportAppends ==
    ASSUME NEW l \in Seq(EntryRow), NEW b \in Batches, NEW rows \in Seq(RecordRow),
           NEW chosen \in SUBSET DOMAIN rows, \A n \in chosen : Converts(rows[n]),
           NEW new, new = Import(l, b, rows, chosen)
    PROVE  Adds(l, new, b, rows, chosen)
<1>1. DOMAIN rows = 1..Len(rows) /\ Len(rows) \in Nat /\ Len(l) \in Nat
  OBVIOUS
<1>2. chosen \in SUBSET Nat /\ IsFiniteSet(chosen) /\ Cardinality(chosen) \in Nat
  <2>1. IsFiniteSet(1..Len(rows)) /\ chosen \in SUBSET (1..Len(rows))
    BY <1>1, FS_Interval
  <2>2. IsFiniteSet(chosen)
    BY <2>1, FS_Subset
  <2> QED  BY <2>1, <2>2, FS_CardinalityType
<1> DEFINE size == Cardinality(chosen)
           tail == [k \in 1..size |-> Entry(rows[InOrder(chosen)[k]].line, <<b, InOrder(chosen)[k]>>)]
<1>3. new = l \o tail
  BY <1>2, InOrderLists DEF Import
<1>4. ASSUME NEW n \in chosen PROVE Entry(rows[n].line, <<b, n>>) \in EntryRow
  <2>1. rows[n] \in RecordRow /\ rows[n].line # Broken
    BY <1>1 DEF Converts
  <2>2. rows[n].line \in Line /\ <<b, n>> \in Batches \X Nat
    BY <1>1, <2>1 DEF RecordRow
  <2> QED  BY <2>2, EntryType
<1>5. \A k \in 1..size : InOrder(chosen)[k] \in chosen
  BY <1>2, InOrderLists
<1>6. tail \in Seq(EntryRow) /\ Len(tail) = size
  <2>1. tail \in [1..size -> EntryRow]
    BY <1>4, <1>5
  <2> HIDE DEF tail
  <2> QED  BY <2>1, <1>2
<1>7. ASSUME NEW n \in chosen
      PROVE  Place(chosen, n) \in 1..size /\ tail[Place(chosen, n)] = Entry(rows[n].line, <<b, n>>)
  <2>1. Place(chosen, n) \in 1..size /\ InOrder(chosen)[Place(chosen, n)] = n
    BY <1>2, PlaceCountsSmaller, InOrderLists
  <2> QED  BY <2>1
<1>8. ASSUME NEW k \in 1..size PROVE \E n \in chosen : k = Place(chosen, n)
  BY <1>2, InOrderLists
<1> HIDE DEF tail
<1>9. /\ new \in Seq(EntryRow) /\ Len(new) = Len(l) + size
      /\ \A t \in 1..(Len(l) + size) : new[t] = IF t <= Len(l) THEN l[t] ELSE tail[t - Len(l)]
  <2>1. /\ l \o tail \in Seq(EntryRow) /\ Len(l \o tail) = Len(l) + Len(tail)
        /\ \A t \in 1..(Len(l) + Len(tail)) :
              (l \o tail)[t] = IF t <= Len(l) THEN l[t] ELSE tail[t - Len(l)]
    BY <1>6, ConcatProperties, Zenon
  <2> HIDE DEF size
  <2> QED  BY <2>1, <1>3, <1>6
<1>10. \A t \in 1..Len(l) : new[t] = l[t]
  BY <1>1, <1>2, <1>9
<1>11. ASSUME NEW n \in chosen
       PROVE  LET t == Len(l) + Place(chosen, n)
              IN  /\ t \in (Len(l) + 1)..Len(new)
                  /\ new[t] = Entry(rows[n].line, <<b, n>>)
  BY <1>1, <1>2, <1>7, <1>9
<1>12. ASSUME NEW t \in (Len(l) + 1)..Len(new)
       PROVE  \E n \in chosen : t = Len(l) + Place(chosen, n)
  <2>1. t - Len(l) \in 1..size
    BY <1>1, <1>2, <1>9
  <2>2. PICK n \in chosen : t - Len(l) = Place(chosen, n)
    BY <2>1, <1>8
  <2> QED  BY <2>2, <1>1, <1>7
<1> QED  BY <1>2, <1>9, <1>10, <1>11, <1>12 DEF Adds

-----------------------------------------------------------------------------
(***************************************************************************)
(* Steps that touch neither records nor transactions.                      *)
(***************************************************************************)

\* The records of a batch that have a status, those the reject handler rejected,
\* and what CountsExact says of them.
Having(rows, status) == {n \in DOMAIN rows : rows[n].status = status}
Refused(rows) == {n \in Having(rows, "rejected") : ~rows[n].byHand}

Counted(row, rows) ==
    /\ row.parsed = Len(rows)
    /\ row.confirmed = Cardinality(Having(rows, "confirmed"))
    /\ row.rejected = Cardinality(Refused(rows))

\* The counters of every undisturbed batch are exact, before and after.
LEMMA CountsAreCounted ==
    /\ CountsExact <=> \A b \in DOMAIN batch \ disturbed : Counted(batch[b], record[b])
    /\ CountsExact' <=> \A b \in DOMAIN batch' \ disturbed' : Counted(batch'[b], record'[b])
BY DEF CountsExact, Counted, Having, Refused

\* A batch without records counts nothing.
LEMMA NothingToCount ==
    ASSUME NEW row
    PROVE  Counted(row, <<>>) <=> row.parsed = 0 /\ row.confirmed = 0 /\ row.rejected = 0
<1>1. Having(<<>>, "confirmed") = {} /\ Refused(<<>>) = {}
  BY DEF Having, Refused
<1>2. Len(<<>>) = 0
  OBVIOUS
<1> QED  BY <1>1, <1>2, FS_EmptySet DEF Counted

\* The invariant holds after a step that may end requests, disturb batches, and
\* move jobs and the statuses of batches, if no job is left at work on the records
\* of an undisturbed batch, and no undisturbed batch changes otherwise unless it has
\* no records and counts none.
LEMMA QuietStep ==
    ASSUME IInv, Types', UNCHANGED <<record, ledger>>,
           disturbed \subseteq disturbed',
           \A b \in DOMAIN batch : b \in DOMAIN batch',
           \A b \in DOMAIN batch' \ disturbed' :
               \/ /\ b \in DOMAIN batch
                  /\ batch'[b] = [batch[b] EXCEPT !.status = batch'[b].status]
                  /\ batch'[b].status = "completed" <=> batch[b].status = "completed"
               \/ /\ record[b] = <<>> /\ batch'[b].status # "completed"
                  /\ batch'[b].parsed = 0 /\ batch'[b].confirmed = 0 /\ batch'[b].rejected = 0,
           \A b \in Batches :
               job'[b].state \in {"taken", "read"} =>
                   b \in DOMAIN batch' /\ (b \notin disturbed' => record[b] = <<>>),
           \A w \in Slots : slot'[w] \in {Idle, slot[w]}
    PROVE  IInv'
<1> USE DEF IInv, Places, Calm, Sums
<1>1. (Referring /\ Backed /\ Unborn)'
  BY DEF Referring, Backed, Unborn, Types
<1>2. Reading'
  BY DEF Reading, Read
<1>3. Current'
  <2> SUFFICES ASSUME NEW w \in Slots, slot'[w] # Idle,
                      slot'[w].request.batch \notin disturbed', slot'[w].request.op # "account"
               PROVE  LET b == slot'[w].request.batch
                      IN  /\ slot'[w].record = record'[b]
                          /\ slot'[w].batch.confirmed = batch'[b].confirmed
                          /\ slot'[w].batch.rejected = batch'[b].rejected
    BY DEF Current
  <2> DEFINE b == slot[w].request.batch
  <2>1. slot'[w] = slot[w] /\ b \in DOMAIN batch' \ disturbed' /\ b \notin disturbed
    BY DEF Reading, Read
  <2>2. /\ slot[w].record = record[b]
        /\ slot[w].batch.confirmed = batch[b].confirmed
        /\ slot[w].batch.rejected = batch[b].rejected
    BY <2>1 DEF Current
  <2>3. record[b] # <<>>
    BY <2>1, <2>2 DEF Reading, Read, Names
  <2>4. batch[b] \in BatchRow
    BY <2>1 DEF Reading, Read, Types
  <2>5. batch'[b].confirmed = batch[b].confirmed /\ batch'[b].rejected = batch[b].rejected
    BY <2>1, <2>3, <2>4 DEF BatchRow
  <2> QED  BY <2>1, <2>2, <2>5
<1>4. Alone'
  BY DEF Alone
<1>5. Fresh'
  BY DEF Fresh
<1>6. NothingDropped'
  BY DEF NothingDropped
<1>7. ImportedOnce'
  BY DEF ImportedOnce, ImportedFrom
<1>8. CountsExact'
  <2>1. ASSUME NEW b \in DOMAIN batch' \ disturbed' PROVE Counted(batch'[b], record[b])
    <3>1. CASE record[b] = <<>> /\ batch'[b].status # "completed"
               /\ batch'[b].parsed = 0 /\ batch'[b].confirmed = 0 /\ batch'[b].rejected = 0
      BY <3>1, NothingToCount
    <3>2. CASE b \in DOMAIN batch /\ batch'[b] = [batch[b] EXCEPT !.status = batch'[b].status]
      <4>1. batch[b] \in BatchRow
        BY <3>2 DEF Types
      <4>2. /\ batch'[b].parsed = batch[b].parsed
            /\ batch'[b].confirmed = batch[b].confirmed
            /\ batch'[b].rejected = batch[b].rejected
        BY <3>2, <4>1 DEF BatchRow
      <4>3. Counted(batch[b], record[b])
        BY <2>1, <3>2, CountsAreCounted
      <4> QED  BY <4>2, <4>3 DEF Counted
    <3> QED  BY <3>1, <3>2
  <2> QED  BY <2>1, CountsAreCounted
<1> QED  BY <1>1, <1>2, <1>3, <1>4, <1>5, <1>6, <1>7, <1>8

\* Beginning an upload enqueues the job, or ends it.
LEMMA BeginUploadStep == ASSUME IInv, NEW b \in Batches, BeginUpload(b) PROVE IInv'
<1> USE DEF IInv, Places, BeginUpload, tables
<1>1. Types'
  BY DEF Types, JobRow, JobState
<1>2. \A c \in Batches : job'[c].state \in {"taken", "read"} => job'[c] = job[c]
  BY DEF Types, JobRow
<1>3. \A c \in Batches : job[c].state \in {"taken", "read"} => c \in DOMAIN batch
  BY DEF Unborn
<1>4. batch \in [DOMAIN batch -> BatchRow]
  BY DEF Types
<1> QED  BY <1>1, <1>2, <1>3, <1>4, QuietStep DEF Calm, Fresh, BatchRow

\* Committing it adds a batch that counts nothing yet.
LEMMA CommitUploadStep == ASSUME IInv, NEW b \in Batches, CommitUpload(b) PROVE IInv'
<1> USE DEF IInv, Places, CommitUpload
<1>1. DOMAIN batch = {c \in Batches : upload[c] = "over"} /\ b \notin DOMAIN batch
  BY DEF Types
<1>2. PICK account \in BOOLEAN :
         batch' = [c \in DOMAIN batch \cup {b} |-> IF c = b THEN NewBatch(account) ELSE batch[c]]
  OBVIOUS
<1>3. DOMAIN batch' = {c \in Batches : upload'[c] = "over"}
  BY <1>1, <1>2 DEF Types
<1>4. NewBatch(account) \in BatchRow
  BY DEF NewBatch, BatchRow, BatchStatus
<1>5. Types'
  <2>1. upload' \in [Batches -> {"none", "open", "over"}]
    BY DEF Types
  <2>2. batch' \in [DOMAIN batch' -> BatchRow]
    BY <1>2, <1>4 DEF Types
  <2> QED  BY <1>3, <2>1, <2>2 DEF Types
<1>6. \A c \in DOMAIN batch : batch[c] \in BatchRow
  BY DEF Types
<1>7. \A c \in DOMAIN batch : c \in DOMAIN batch' /\ batch'[c] = [batch[c] EXCEPT !.status = batch'[c].status]
  BY <1>1, <1>2, <1>6 DEF BatchRow
<1>8. batch'[b] = NewBatch(account) /\ record[b] = <<>>
  BY <1>1, <1>2 DEF Unborn
<1>9. \A c \in DOMAIN batch : batch'[c].status = batch[c].status
  BY <1>1, <1>2
<1>10. \A c \in Batches : job[c].state \in {"taken", "read"} =>
          c \in DOMAIN batch' /\ (c \notin disturbed => record[c] = <<>>)
  BY <1>7 DEF Unborn, Calm, Fresh
<1>11. DOMAIN batch' = DOMAIN batch \cup {b}
  BY <1>2
<1> QED  BY <1>5, <1>7, <1>8, <1>9, <1>10, <1>11, QuietStep DEF NewBatch

\* What the steps of a job may change of it.
LEMMA JobMoves ==
    ASSUME IInv, NEW b \in Batches, NEW row \in JobRow,
           UNCHANGED <<upload, record, ledger, slot, requests>>,
           crashes' \in 0..MaxCrashes, disturbed' \in SUBSET Batches,
           disturbed \subseteq disturbed', job' = [job EXCEPT ![b] = row],
           row.state \in {"taken", "read"} =>
               b \in DOMAIN batch /\ (b \notin disturbed' => record[b] = <<>>),
           \/ UNCHANGED batch
           \/ /\ b \in DOMAIN batch /\ b \notin disturbed' => record[b] = <<>>
              /\ \E status \in BatchStatus \ {"completed"} :
                    b \in DOMAIN batch /\ batch' = [batch EXCEPT ![b].status = status]
    PROVE  IInv'
<1> USE DEF IInv, Places
<1>1. batch \in [DOMAIN batch -> BatchRow] /\ DOMAIN batch = {c \in Batches : upload[c] = "over"}
  BY DEF Types
<1>2. \/ UNCHANGED batch
      \/ \E status \in BatchStatus \ {"completed"} :
            /\ b \in DOMAIN batch
            /\ batch' = [c \in DOMAIN batch |->
                  IF c = b THEN [batch[b] EXCEPT !.status = status] ELSE batch[c]]
  BY <1>1
<1>3. batch' \in [DOMAIN batch -> BatchRow]
  BY <1>1, <1>2 DEF BatchRow
<1>4. Types'
  BY <1>1, <1>3 DEF Types
<1>5. \A c \in Batches : job'[c].state \in {"taken", "read"} =>
          c \in DOMAIN batch' /\ (c \notin disturbed' => record[c] = <<>>)
  BY <1>3 DEF Types, Unborn, Calm, Fresh
<1>6. ASSUME NEW c \in DOMAIN batch' \ disturbed'
      PROVE  \/ /\ c \in DOMAIN batch
                /\ batch'[c] = [batch[c] EXCEPT !.status = batch'[c].status]
                /\ batch'[c].status = "completed" <=> batch[c].status = "completed"
             \/ /\ record[c] = <<>> /\ batch'[c].status # "completed"
                /\ batch'[c].parsed = 0 /\ batch'[c].confirmed = 0 /\ batch'[c].rejected = 0
  <2>1. CASE batch'[c] = batch[c]
    BY <1>1, <1>3, <2>1 DEF BatchRow
  <2>2. CASE batch'[c] # batch[c]
    <3>1. /\ c = b /\ record[b] = <<>> /\ b \in DOMAIN batch /\ batch[b] \in BatchRow
          /\ \E status \in BatchStatus \ {"completed"} :
                batch'[b] = [batch[b] EXCEPT !.status = status]
      BY <1>1, <1>2, <1>3, <2>2
    <3>2. batch'[b].status # "completed"
      BY <3>1 DEF BatchRow
    <3>3. /\ batch'[b].parsed = batch[b].parsed
          /\ batch'[b].confirmed = batch[b].confirmed
          /\ batch'[b].rejected = batch[b].rejected
      BY <3>1 DEF BatchRow
    <3>4. Counted(batch[b], <<>>)
      BY <2>2, <3>1, CountsAreCounted DEF Sums
    <3> QED  BY <3>1, <3>2, <3>3, <3>4, NothingToCount
  <2> QED  BY <2>1, <2>2
<1>7. \A c \in DOMAIN batch : c \in DOMAIN batch'
  BY <1>3
<1>8. \A w \in Slots : slot'[w] \in {Idle, slot[w]}
  OBVIOUS
<1> QED  BY <1>4, <1>5, <1>6, <1>7, <1>8, QuietStep

\* Leaving the session forgets what the job had read.
LEMMA LeaveFacts ==
    ASSUME Types, NEW b \in Batches, NEW state \in JobState, Leave(b, state)
    PROVE  \E row \in JobRow : job' = [job EXCEPT ![b] = row] /\ row.state = state
<1> DEFINE row == [NoRead EXCEPT !.state = state]
<1>1. row \in JobRow /\ row.state = state
  BY DEF NoRead, JobRow
<1>2. job' = [job EXCEPT ![b] = row]
  BY DEF Leave
<1> QED  BY <1>1, <1>2

\* A job that is taken finds no records, or disturbs its batch.
LEMMA TakeJobStep == ASSUME IInv, NEW b \in Batches, TakeJob(b) PROVE IInv'
<1> USE DEF IInv, Places
<1>1. Types /\ job[b] \in JobRow
  BY DEF Types
<1>2. disturbed' \in SUBSET Batches /\ disturbed \subseteq disturbed'
      /\ (b \notin disturbed' => record[b] = <<>>)
  BY <1>1 DEF TakeJob, Types
<1>3. CASE b \in DOMAIN batch
  <2> DEFINE row == [job[b] EXCEPT !.state = "taken", !.confirmed = batch[b].confirmed,
                                   !.rejected = batch[b].rejected]
  <2>1. batch[b] \in BatchRow
    BY <1>1, <1>3 DEF Types
  <2>2. row \in JobRow /\ row.state = "taken"
    BY <1>1, <2>1 DEF JobRow, JobState, BatchRow
  <2>3. /\ job' = [job EXCEPT ![b] = row]
        /\ batch' = [batch EXCEPT ![b].status = "processing"]
    BY <1>3 DEF TakeJob
  <2> HIDE DEF row
  <2>4. crashes' \in 0..MaxCrashes /\ UNCHANGED <<upload, record, ledger, slot, requests>>
    BY DEF TakeJob, Types
  <2> QED  BY <1>2, <1>3, <2>2, <2>3, <2>4, JobMoves DEF BatchStatus
<1>4. CASE b \notin DOMAIN batch
  <2>1. PICK row \in JobRow : job' = [job EXCEPT ![b] = row] /\ row.state = "done"
    BY <1>1, <1>4, LeaveFacts DEF TakeJob, JobState
  <2>2. UNCHANGED batch /\ crashes' \in 0..MaxCrashes
        /\ UNCHANGED <<upload, record, ledger, slot, requests>>
    BY <1>4 DEF TakeJob, Types
  <2> QED  BY <1>2, <2>1, <2>2, JobMoves
<1> QED  BY <1>3, <1>4

\* A job that has read the ledger goes on with the records it found.
LEMMA ReadLedgerStep == ASSUME IInv, NEW b \in Batches, ReadLedger(b) PROVE IInv'
<1> USE DEF IInv, Places
<1> DEFINE found == {n \in DOMAIN Statement[b] : Duplicates(Statement[b][n]) # {}}
           row == [job[b] EXCEPT !.state = "read", !.found = found]
<1>1. Types /\ job[b] \in JobRow /\ job[b].state = "taken"
  BY DEF Types, ReadLedger
<1>2. found \in SUBSET Nat
  BY ImportsAssumption
<1>3. job' = [job EXCEPT ![b] = row]
  BY DEF ReadLedger
<1> HIDE DEF found
<1>4. row \in JobRow /\ row.state = "read"
  BY <1>1, <1>2 DEF JobRow, JobState
<1>5. b \in DOMAIN batch /\ (b \notin disturbed => record[b] = <<>>)
  BY <1>1 DEF Unborn, Calm, Fresh
<1> HIDE DEF row
<1>6. /\ disturbed' = disturbed /\ disturbed' \in SUBSET Batches /\ crashes' \in 0..MaxCrashes
      /\ UNCHANGED <<upload, batch, record, ledger, slot, requests>>
  BY <1>1 DEF ReadLedger, tables, Types
<1> QED  BY <1>3, <1>4, <1>5, <1>6, JobMoves

\* A job that leaves: failed, cut off, acknowledged or with its worker.
LEMMA LeavingStep ==
    ASSUME IInv, NEW b \in Batches, FailJob(b) \/ CutOff(b) \/ AckJob(b) \/ Crash(b)
    PROVE  IInv'
<1> USE DEF IInv, Places
<1>1. PICK state \in {"ending", "lost", "done", "queued"} : Leave(b, state)
  BY DEF FailJob, CutOff, AckJob, Crash
<1>2. PICK row \in JobRow : job' = [job EXCEPT ![b] = row] /\ row.state = state
  BY <1>1, LeaveFacts DEF JobState
<1>3. /\ UNCHANGED <<upload, record, ledger, slot, requests, disturbed>>
      /\ disturbed' \in SUBSET Batches /\ crashes' \in 0..MaxCrashes
  BY ImportsAssumption DEF FailJob, CutOff, AckJob, Crash, tables, Types
<1>4. \/ UNCHANGED batch
      \/ job[b].state = "taken" /\ batch' = [batch EXCEPT ![b].status = "failed"]
  BY DEF FailJob, CutOff, AckJob, Crash, tables
<1>5. job[b].state = "taken" => b \in DOMAIN batch /\ (b \notin disturbed => record[b] = <<>>)
  BY DEF Unborn, Calm, Fresh
<1> QED  BY <1>2, <1>3, <1>4, <1>5, JobMoves DEF BatchStatus

\* A review request that goes away leaves no trace.
LEMMA AbortReviewStep == ASSUME IInv, NEW w \in Slots, AbortReview(w) PROVE IInv'
<1> USE DEF IInv, Places, AbortReview, tables
<1>1. Types'
  BY DEF Types
<1>2. batch \in [DOMAIN batch -> BatchRow] /\ \A u \in Slots : slot'[u] \in {Idle, slot[u]}
  BY DEF Types
<1>3. \A b \in DOMAIN batch : batch[b] = [batch[b] EXCEPT !.status = batch[b].status]
  BY <1>2 DEF BatchRow
<1>4. \A b \in Batches : job[b].state \in {"taken", "read"} =>
          b \in DOMAIN batch /\ (b \notin disturbed => record[b] = <<>>)
  BY DEF Unborn, Calm, Fresh
<1> QED  BY <1>1, <1>2, <1>3, <1>4, QuietStep

-----------------------------------------------------------------------------
(***************************************************************************)
(* Steps that write records.                                               *)
(***************************************************************************)

\* The records a job makes: one per line, none of them decided.
LEMMA NewRecordsFacts ==
    ASSUME NEW b \in Batches
    PROVE  /\ NewRecords(b) \in Seq(RecordRow) /\ Len(NewRecords(b)) = Len(Statement[b])
           /\ \A n \in DOMAIN NewRecords(b) :
                 /\ NewRecords(b)[n].txn = 0
                 /\ NewRecords(b)[n].status \in {"pending", "duplicate"}
<1>1. Statement[b] \in Seq(Line)
  BY ImportsAssumption
<1>2. \A line \in Line, duplicate \in BOOLEAN :
          /\ NewRecord(line, duplicate) \in RecordRow
          /\ NewRecord(line, duplicate).txn = 0
          /\ NewRecord(line, duplicate).status \in {"pending", "duplicate"}
  BY DEF NewRecord, RecordRow, RecordStatus
<1>3. Len(Statement[b]) \in Nat /\ DOMAIN Statement[b] = 1..Len(Statement[b])
  BY <1>1
<1>4. ASSUME NEW n \in 1..Len(Statement[b])
      PROVE  /\ NewRecords(b)[n] \in RecordRow
             /\ NewRecords(b)[n].txn = 0
             /\ NewRecords(b)[n].status \in {"pending", "duplicate"}
  <2>1. Statement[b][n] \in Line /\ (n \in job[b].found) \in BOOLEAN
    BY <1>1, <1>3
  <2>2. NewRecords(b)[n] = NewRecord(Statement[b][n], n \in job[b].found)
    BY <1>3 DEF NewRecords
  <2> QED  BY <2>1, <2>2, <1>2
<1>5. NewRecords(b) \in [1..Len(Statement[b]) -> RecordRow]
  BY <1>3, <1>4 DEF NewRecords
<1>6. ASSUME NEW n \in Nat, NEW f \in [1..n -> RecordRow]
      PROVE  f \in Seq(RecordRow) /\ Len(f) = n /\ DOMAIN f = 1..n
  OBVIOUS
<1> QED  BY <1>3, <1>4, <1>5, <1>6

\* What appending rows to rows keeps and adds.
LEMMA Appended ==
    ASSUME NEW s \in Seq(RecordRow), NEW t \in Seq(RecordRow)
    PROVE  /\ s \o t \in Seq(RecordRow) /\ Len(s \o t) = Len(s) + Len(t)
           /\ Len(s) <= Len(s \o t) /\ DOMAIN s \subseteq DOMAIN (s \o t)
           /\ \A n \in DOMAIN (s \o t) : \/ n \in DOMAIN s /\ (s \o t)[n] = s[n]
                                        \/ \E k \in DOMAIN t : (s \o t)[n] = t[k]
<1>1. /\ Len(s) \in Nat /\ Len(t) \in Nat
      /\ DOMAIN s = 1..Len(s) /\ DOMAIN t = 1..Len(t)
  OBVIOUS
<1>2. /\ s \o t \in Seq(RecordRow) /\ Len(s \o t) = Len(s) + Len(t)
      /\ \A n \in 1..(Len(s) + Len(t)) :
            (s \o t)[n] = IF n <= Len(s) THEN s[n] ELSE t[n - Len(s)]
  BY ConcatProperties, Zenon
<1>3. DOMAIN (s \o t) = 1..(Len(s) + Len(t))
  BY <1>2
<1>4. ASSUME NEW n \in 1..(Len(s) + Len(t)), ~(n <= Len(s))
      PROVE  n - Len(s) \in DOMAIN t /\ (s \o t)[n] = t[n - Len(s)]
  BY <1>1, <1>2, <1>4
<1>5. ASSUME NEW n \in 1..(Len(s) + Len(t)), n <= Len(s)
      PROVE  n \in DOMAIN s /\ (s \o t)[n] = s[n]
  BY <1>1, <1>2, <1>5
<1> QED  BY <1>1, <1>2, <1>3, <1>4, <1>5

\* Storing the records of a job.
LEMMA StoreRecordsStep == ASSUME IInv, NEW b \in Batches, StoreRecords(b) PROVE IInv'
<1> USE DEF IInv, Places, Calm, Sums
<1> DEFINE new == NewRecords(b)
           rows == record[b] \o new
           row == Completed(batch[b], job[b], Len(Statement[b]))
<1>1. /\ job[b].state = "read" /\ job[b] \in JobRow
      /\ b \in DOMAIN batch /\ (b \notin disturbed => record[b] = <<>>)
  BY DEF StoreRecords, Types, Unborn, Fresh
<1>2. /\ batch \in [DOMAIN batch -> BatchRow] /\ batch[b] \in BatchRow
      /\ record[b] \in Seq(RecordRow) /\ ledger \in Seq(EntryRow)
  BY <1>1 DEF Types
<1>3. /\ rows \in Seq(RecordRow) /\ Len(rows) = Len(record[b]) + Len(Statement[b])
      /\ \A n \in DOMAIN rows : \/ n \in DOMAIN record[b] /\ rows[n] = record[b][n]
                                \/ rows[n].txn = 0 /\ rows[n].status \in {"pending", "duplicate"}
      /\ DOMAIN record[b] \subseteq DOMAIN rows /\ Len(record[b]) <= Len(rows)
  <2>1. new \in Seq(RecordRow) /\ Len(new) = Len(Statement[b]) /\ Len(Statement[b]) \in Nat
    BY NewRecordsFacts, ImportsAssumption
  <2>2. \A n \in DOMAIN new : new[n].txn = 0 /\ new[n].status \in {"pending", "duplicate"}
    BY NewRecordsFacts
  <2> HIDE DEF new
  <2>3. /\ rows \in Seq(RecordRow) /\ Len(rows) = Len(record[b]) + Len(new)
        /\ Len(record[b]) <= Len(rows) /\ DOMAIN record[b] \subseteq DOMAIN rows
        /\ \A n \in DOMAIN rows : \/ n \in DOMAIN record[b] /\ rows[n] = record[b][n]
                                  \/ \E k \in DOMAIN new : rows[n] = new[k]
    BY <1>2, <2>1, Appended, Zenon
  <2> QED  BY <2>1, <2>2, <2>3
<1>4. /\ row \in BatchRow /\ row.status = "completed" /\ row.parsed = Len(Statement[b])
      /\ row.confirmed = Column(job[b].confirmed, 0, batch[b].confirmed)
      /\ row.rejected = Column(job[b].rejected, 0, batch[b].rejected)
  <2>1. Len(Statement[b]) \in Nat
    BY ImportsAssumption
  <2> QED  BY <1>1, <1>2, <2>1 DEF Completed, BatchRow, BatchStatus, Column, JobRow
<1>5. /\ record' = [record EXCEPT ![b] = rows] /\ batch' = [batch EXCEPT ![b] = row]
      /\ UNCHANGED <<upload, ledger, slot, requests, crashes, disturbed>>
  <2>1. batch' = [batch EXCEPT ![b] = row]
    BY DEF StoreRecords
  <2> QED  BY <2>1 DEF StoreRecords
<1>6. PICK row2 \in JobRow : job' = [job EXCEPT ![b] = row2] /\ row2.state = "ending"
  BY LeaveFacts DEF StoreRecords, JobState
<1> HIDE DEF rows, row, new
<1>7. /\ record \in [Batches -> Seq(RecordRow)] /\ record'[b] = rows
      /\ \A c \in Batches \ {b} : record'[c] = record[c]
  BY <1>5 DEF Types
<1>8. /\ DOMAIN batch' = DOMAIN batch /\ batch'[b] = row
      /\ \A c \in DOMAIN batch \ {b} : batch'[c] = batch[c]
  BY <1>1, <1>2, <1>5
<1>9. /\ job \in [Batches -> JobRow] /\ job'[b].state = "ending"
      /\ \A c \in Batches \ {b} : job'[c] = job[c]
  BY <1>6 DEF Types
<1>10. Types'
  <2>1. batch' \in [DOMAIN batch -> BatchRow]
    BY <1>2, <1>4, <1>5
  <2>2. job' \in [Batches -> JobRow]
    BY <1>6, <1>9
  <2>3. record' \in [Batches -> Seq(RecordRow)]
    BY <1>3, <1>5, <1>7
  <2> QED  BY <1>5, <2>1, <2>2, <2>3 DEF Types
<1>11. Referring'
  BY <1>2, <1>3, <1>5, <1>7 DEF Referring
<1>12. Backed'
  <2>1. \A t \in DOMAIN ledger : ledger[t] \in EntryRow
    BY <1>2
  <2>2. \A t \in DOMAIN ledger : ledger[t].record \in Batches \X Nat
    BY <2>1 DEF EntryRow
  <2> QED  BY <1>3, <1>5, <1>7, <2>2 DEF Backed
<1>13. Unborn'
  BY <1>1, <1>7, <1>8, <1>9 DEF Unborn
<1>14. Reading'
  <2>1. Len(record[b]) \in Nat /\ Len(rows) \in Nat /\ Len(record[b]) <= Len(rows)
    <3>1. record[b] \in Seq(RecordRow) /\ rows \in Seq(RecordRow) /\ Len(record[b]) <= Len(rows)
      BY <1>2, <1>3, Zenon
    <3> QED  BY <3>1, LenProperties
  <2>2. ASSUME NEW w \in Slots, slot[w] # Idle, Read(w)
        PROVE  Len(slot[w].record) <= Len(record'[slot[w].request.batch])
    <3>1. /\ slot[w].request.batch \in Batches /\ Len(slot[w].record) \in Nat
          /\ Len(slot[w].record) <= Len(record[slot[w].request.batch])
      BY <2>2 DEF Read, Types
    <3> QED  BY <3>1, <2>1, <1>7
  <2> QED  BY <2>2, <1>5, <1>8 DEF Reading, Read
<1>15. Current'
  <2>1. ASSUME NEW w \in Slots, slot[w] # Idle, slot[w].request.batch \notin disturbed,
               slot[w].request.op # "account"
        PROVE  slot[w].request.batch \in DOMAIN batch \ {b}
    <3>1. slot[w].record # <<>> /\ slot[w].request.batch \in DOMAIN batch
      BY <2>1 DEF Reading, Read, Names
    <3> QED  BY <2>1, <3>1, <1>1 DEF Current
  <2>2. DOMAIN batch \subseteq Batches
    BY DEF Types
  <2> QED  BY <1>5, <1>7, <1>8, <2>1, <2>2 DEF Current
<1>16. Alone'
  BY <1>5 DEF Alone
<1>17. Fresh'
  BY <1>5, <1>7, <1>9 DEF Fresh
<1>18. NothingDropped'
  <2>1. DOMAIN batch \subseteq Batches /\ Len(<<>>) = 0 /\ Len(Statement[b]) \in Nat
    BY ImportsAssumption DEF Types
  <2> QED  BY <1>1, <1>3, <1>4, <1>5, <1>7, <1>8, <2>1 DEF NothingDropped
<1>19. ImportedOnce'
  <2>1. \A id : ImportedFrom(id)' = ImportedFrom(id)
    BY <1>5 DEF ImportedFrom
  <2>2. ASSUME b \notin disturbed, NEW n \in DOMAIN rows
        PROVE  ImportedFrom(<<b, n>>) = {} /\ rows[n].status # "confirmed"
    <3>1. record[b] = <<>> /\ DOMAIN record[b] = {}
      BY <1>1, <2>2
    <3>2. rows[n].status \in {"pending", "duplicate"}
      BY <1>3, <3>1
    <3> QED  BY <3>1, <3>2 DEF ImportedFrom, Backed
  <2> QED  BY <1>5, <1>7, <2>1, <2>2 DEF ImportedOnce
<1>20. CountsExact'
  <2>1. ASSUME b \notin disturbed PROVE Counted(row, rows)
    <3>1. record[b] = <<>> /\ Len(record[b]) = 0 /\ DOMAIN record[b] = {}
      BY <1>1, <2>1
    <3>2. Having(rows, "confirmed") = {} /\ Refused(rows) = {}
      BY <1>3, <3>1 DEF Having, Refused
    <3>3. Counted(batch[b], <<>>)
      BY <1>1, <2>1, <3>1, CountsAreCounted
    <3>4. row.confirmed = 0 /\ row.rejected = 0
      BY <1>4, <3>3, NothingToCount DEF Column
    <3>5. Len(Statement[b]) \in Nat
      BY ImportsAssumption
    <3>6. Len(rows) = Len(Statement[b])
      BY <1>3, <3>1, <3>5
    <3> QED  BY <1>4, <3>2, <3>4, <3>6, FS_EmptySet DEF Counted
  <2>2. DOMAIN batch \subseteq Batches
    BY DEF Types
  <2> QED  BY <1>5, <1>7, <1>8, <2>1, <2>2, CountsAreCounted
<1> QED  BY <1>10, <1>11, <1>12, <1>13, <1>14, <1>15, <1>16, <1>17, <1>18, <1>19, <1>20

\* A request as it is made.
LEMMA BeginReviewStep ==
    ASSUME IInv, NEW b \in DOMAIN batch, NEW w \in Slots, NEW r \in ReviewRequests(b),
           BeginReview(w, r)
    PROVE  IInv'
<1> USE DEF IInv, Places, Calm, Sums
<1>1. r.batch = b /\ Names(r, record[b])
  <2> DEFINE ids == DOMAIN record[b]
  <2>1. CASE r \in [op : {"confirm"}, batch : {b}, ids : (SUBSET ids) \ {{}}, force : BOOLEAN]
    <3>1. r.op = "confirm" /\ r.batch = b /\ r.ids \in (SUBSET ids) \ {{}}
      BY <2>1
    <3>2. r.op \in {"confirm", "reject"} /\ r.ids \subseteq ids /\ r.ids # {}
      BY <3>1
    <3> QED  BY <3>1, <3>2, Zenon DEF Names
  <2>2. CASE r \in [op : {"reject"}, batch : {b}, ids : (SUBSET ids) \ {{}}]
    <3>1. r.op = "reject" /\ r.batch = b /\ r.ids \in (SUBSET ids) \ {{}}
      BY <2>2
    <3>2. r.op \in {"confirm", "reject"} /\ r.ids \subseteq ids /\ r.ids # {}
      BY <3>1
    <3> QED  BY <3>1, <3>2, Zenon DEF Names
  <2>3. CASE r \in [op : {"patch"}, batch : {b}, id : ids, line : PatchLines \cup {Keep},
                    status : PatchStatuses \cup {Keep}]
    BY <2>3 DEF Names
  <2>4. CASE r \in [op : {"account"}, batch : {b}]
    BY <2>4 DEF Names
  <2>5. CASE r \in [op : {"replace"}, batch : {b}, id : ids, txns : SUBSET LiveEntries]
    <3>1. r.op = "replace" /\ r.batch = b /\ r.id \in ids
      BY <2>5
    <3> QED  BY <3>1 DEF Names, BeginReview, Accepts
  <2> QED  BY <2>1, <2>2, <2>3, <2>4, <2>5 DEF ReviewRequests
<1>2. /\ slot[w] = Idle /\ UNCHANGED <<upload, batch, record, ledger, job, crashes>>
      /\ requests' = requests + 1 /\ requests < MaxRequests
      /\ disturbed' = IF \E u \in Slots : slot[u] # Idle /\ slot[u].request.batch = b
                      THEN disturbed \cup {b} ELSE disturbed
      /\ slot' = [slot EXCEPT ![w] = [request |-> r, batch |-> batch[b], record |-> record[b]]]
  BY <1>1 DEF BeginReview, tables
<1>3. b \in Batches /\ batch[b] \in BatchRow /\ record[b] \in Seq(RecordRow) /\ DOMAIN slot = Slots
  BY DEF Types
<1>4. /\ \A u \in Slots \ {w} : slot'[u] = slot[u]
      /\ slot'[w].request = r /\ slot'[w].batch = batch[b] /\ slot'[w].record = record[b]
  BY <1>2, <1>3
<1>5. disturbed \subseteq disturbed' /\ disturbed' \subseteq Batches
  BY <1>2, <1>3 DEF Types
<1>6. Types'
  BY <1>2, <1>3, <1>5, ImportsAssumption DEF Types
<1>7. (Referring /\ Backed /\ Unborn)'
  BY <1>2 DEF Referring, Backed, Unborn
<1>8. Reading'
  <2>1. Len(record[b]) <= Len(record[b])
    BY <1>3
  <2> QED  BY <1>1, <1>2, <1>3, <1>4, <2>1 DEF Reading, Read
<1>9. Current'
  BY <1>1, <1>2, <1>4, <1>5 DEF Current
<1>10. Alone'
  BY <1>1, <1>2, <1>4, <1>5 DEF Alone
<1>11. (Fresh /\ NothingDropped /\ CountsExact)'
  <2>1. CountsExact'
    BY <1>2, <1>5, CountsAreCounted
  <2> QED  BY <1>2, <1>5, <2>1 DEF Fresh, NothingDropped
<1>12. ImportedOnce'
  BY <1>2, <1>5 DEF ImportedOnce, ImportedFrom
<1> QED  BY <1>6, <1>7, <1>8, <1>9, <1>10, <1>11, <1>12

-----------------------------------------------------------------------------
(***************************************************************************)
(* Steps that commit a review request.                                     *)
(***************************************************************************)

\* The ledger gained a transaction per chosen record, at its place, and kept what
\* it says of the records and lines of the others.
Grew(b, rows, chosen) ==
    /\ ledger' \in Seq(EntryRow) /\ Len(ledger') = Len(ledger) + Cardinality(chosen)
    /\ \A t \in 1..Len(ledger) :
          /\ ledger'[t].record = ledger[t].record /\ ledger'[t].line = ledger[t].line
          /\ ledger'[t].day = ledger[t].day /\ ledger'[t].amount = ledger[t].amount
    /\ \A n \in chosen :
          LET t == Len(ledger) + Place(chosen, n)
          IN  /\ t \in (Len(ledger) + 1)..Len(ledger')
              /\ ledger'[t] = Entry(rows[n].line, <<b, n>>)
    /\ \A t \in (Len(ledger) + 1)..Len(ledger') :
          \E n \in chosen : t = Len(ledger) + Place(chosen, n)

\* The step of any request: it confirms the chosen records and writes rows and
\* row, and row counts rows unless the batch is disturbed.
Commits(w, b, chosen, rows, row) ==
    /\ slot[w] # Idle /\ b = slot[w].request.batch
    /\ chosen \in SUBSET DOMAIN slot[w].record
    /\ \A n \in chosen : Converts(slot[w].record[n])
    /\ Grew(b, slot[w].record, chosen)
    /\ rows \in Seq(RecordRow) /\ Len(rows) = Len(record[b])
    /\ \A n \in DOMAIN rows :
          rows[n].txn = IF n \in chosen THEN Len(ledger) + Place(chosen, n) ELSE record[b][n].txn
    /\ record' = [record EXCEPT ![b] = rows]
    /\ row \in BatchRow /\ row.status = batch[b].status
    /\ batch' = [batch EXCEPT ![b] = row]
    /\ disturbed \subseteq disturbed' /\ disturbed' \subseteq Batches
    /\ b \notin disturbed' =>
          /\ \A n \in chosen : record[b][n].status # "confirmed"
          /\ \A n \in DOMAIN rows :
                rows[n].status = "confirmed" <=> n \in chosen \/ record[b][n].status = "confirmed"
          /\ Counted(row, rows)
    /\ slot' = [slot EXCEPT ![w] = Idle]
    /\ UNCHANGED <<upload, job, requests, crashes>>

\* A request that commits keeps the invariant.
LEMMA CommitStep ==
    ASSUME IInv, NEW w \in Slots, NEW b, NEW chosen, NEW rows, NEW row,
           Commits(w, b, chosen, rows, row)
    PROVE  IInv'
<1> USE DEF Commits
<1> USE DEF IInv, Places, Calm, Sums
<1>1. /\ batch \in [DOMAIN batch -> BatchRow] /\ b \in DOMAIN batch /\ b \in Batches
      /\ DOMAIN batch = {c \in Batches : upload[c] = "over"}
      /\ record \in [Batches -> Seq(RecordRow)] /\ ledger \in Seq(EntryRow)
      /\ slot[w].record \in Seq(RecordRow) /\ Len(slot[w].record) <= Len(record[b])
  BY DEF Types, Reading, Read
<1>2. /\ record'[b] = rows /\ \A c \in Batches \ {b} : record'[c] = record[c]
      /\ batch'[b] = row /\ \A c \in DOMAIN batch \ {b} : batch'[c] = batch[c]
      /\ DOMAIN batch' = DOMAIN batch
  BY <1>1
<1>3. DOMAIN rows = DOMAIN record[b] /\ \A c \in Batches : DOMAIN record'[c] = DOMAIN record[c]
  <2>1. DOMAIN rows = 1..Len(rows) /\ DOMAIN record[b] = 1..Len(record[b])
    BY <1>1
  <2> QED  BY <1>2, <2>1
<1>4. chosen \subseteq DOMAIN rows /\ chosen \in SUBSET Nat /\ IsFiniteSet(chosen)
  <2>1. /\ Len(slot[w].record) \in Nat /\ Len(record[b]) \in Nat
        /\ DOMAIN slot[w].record = 1..Len(slot[w].record) /\ DOMAIN record[b] = 1..Len(record[b])
    BY <1>1
  <2>2. \A k \in Nat : IsFiniteSet(1..k)
    BY FS_Interval
  <2>3. IsFiniteSet(chosen)
    BY <2>1, <2>2, FS_Subset
  <2> QED  BY <1>1, <1>3, <2>1, <2>2, <2>3
<1>5. Len(ledger) \in Nat /\ Len(ledger') \in Nat /\ Len(ledger) <= Len(ledger')
      /\ DOMAIN ledger = 1..Len(ledger) /\ DOMAIN ledger' = 1..Len(ledger')
  <2>1. Cardinality(chosen) \in Nat
    BY <1>4, FS_CardinalityType
  <2> QED  BY <1>1, <2>1 DEF Grew
<1>6. /\ DOMAIN slot' = Slots /\ slot'[w] = Idle
      /\ \A u \in Slots \ {w} : slot'[u] = slot[u]
  BY DEF Types
<1>7. \A n \in chosen : slot[w].record[n].line \in Line
  <2>1. \A n \in chosen : slot[w].record[n] \in RecordRow
    BY <1>1
  <2> QED  BY <2>1 DEF Converts, RecordRow
<1>8. \A n \in chosen :
          LET t == Len(ledger) + Place(chosen, n)
          IN  /\ t \in DOMAIN ledger' \ DOMAIN ledger /\ ledger'[t].record = <<b, n>>
              /\ ledger'[t].day = UtcDay(ledger'[t].line.day)
              /\ ledger'[t].amount = ledger'[t].line.amount
  <2> SUFFICES ASSUME NEW n \in chosen
               PROVE  LET t == Len(ledger) + Place(chosen, n)
                      IN  /\ t \in DOMAIN ledger' \ DOMAIN ledger /\ ledger'[t].record = <<b, n>>
                          /\ ledger'[t].day = UtcDay(ledger'[t].line.day)
                          /\ ledger'[t].amount = ledger'[t].line.amount
    OBVIOUS
  <2> DEFINE t == Len(ledger) + Place(chosen, n)
  <2>1. t \in (Len(ledger) + 1)..Len(ledger') /\ ledger'[t] = Entry(slot[w].record[n].line, <<b, n>>)
    BY DEF Grew
  <2>2. <<b, n>> \in Batches \X Nat
    BY <1>1, <1>4
  <2>3. t \in DOMAIN ledger' \ DOMAIN ledger
    BY <1>5, <2>1
  <2> QED  BY <1>7, <2>1, <2>2, <2>3, EntryType
<1>9. \A t \in DOMAIN ledger' :
          t \in DOMAIN ledger \/ \E n \in chosen : t = Len(ledger) + Place(chosen, n)
  <2> SUFFICES ASSUME NEW t \in DOMAIN ledger', t \notin DOMAIN ledger
               PROVE  \E n \in chosen : t = Len(ledger) + Place(chosen, n)
    OBVIOUS
  <2>1. t \in (Len(ledger) + 1)..Len(ledger')
    BY <1>5
  <2> QED  BY <2>1 DEF Grew
<1>10. \A t \in DOMAIN ledger :
          /\ t \in DOMAIN ledger'
          /\ ledger'[t].record = ledger[t].record /\ ledger'[t].line = ledger[t].line
          /\ ledger'[t].day = ledger[t].day /\ ledger'[t].amount = ledger[t].amount
  BY <1>5 DEF Grew
<1>11. ledger' \in Seq(EntryRow)
  BY DEF Grew
<1>12. Types'
  <2>1. record' \in [Batches -> Seq(RecordRow)]
    BY <1>1
  <2>2. batch' \in [{c \in Batches : upload'[c] = "over"} -> BatchRow]
    BY <1>1
  <2> QED  BY <1>6, <1>11, <2>1, <2>2 DEF Types
<1>13. Referring'
  <2>1. \A c \in Batches : \A n \in DOMAIN record[c] : record[c][n].txn \in Nat
    <3>1. \A c \in Batches : \A n \in DOMAIN record[c] : record[c][n] \in RecordRow
      BY <1>1
    <3> QED  BY <3>1 DEF RecordRow
  <2>2. ASSUME NEW n \in DOMAIN record[b] PROVE rows[n].txn <= Len(ledger')
    <3>1. CASE n \in chosen
      BY <1>3, <1>5, <1>8, <3>1
    <3>2. CASE n \notin chosen
      <4>1. rows[n].txn = record[b][n].txn /\ record[b][n].txn <= Len(ledger)
        BY <1>1, <1>3, <2>2, <3>2 DEF Referring
      <4>2. record[b][n].txn \in Nat
        BY <1>1, <2>2, <2>1
      <4> QED  BY <1>5, <4>1, <4>2
    <3> QED  BY <3>1, <3>2
  <2>3. ASSUME NEW c \in Batches, NEW n \in DOMAIN record[c] PROVE record[c][n].txn <= Len(ledger')
    <3>1. record[c][n].txn <= Len(ledger) /\ record[c][n].txn \in Nat
      BY <2>3, <2>1 DEF Referring
    <3> QED  BY <1>5, <3>1
  <2> QED  BY <1>2, <1>3, <2>2, <2>3 DEF Referring
<1>14. Backed'
  <2> SUFFICES ASSUME NEW t \in DOMAIN ledger'
               PROVE  /\ ledger'[t].record[2] \in DOMAIN record'[ledger'[t].record[1]]
                      /\ ledger'[t].day = UtcDay(ledger'[t].line.day)
                      /\ ledger'[t].amount = ledger'[t].line.amount
    BY DEF Backed, UtcDay
  <2>1. CASE t \in DOMAIN ledger
    <3>1. ledger[t] \in EntryRow
      BY <1>1, <2>1
    <3>2. ledger[t].record \in Batches \X Nat
      BY <3>1 DEF EntryRow
    <3> QED  BY <1>3, <1>10, <2>1, <3>2 DEF Backed
  <2>2. CASE t \notin DOMAIN ledger
    <3>1. PICK n \in chosen : t = Len(ledger) + Place(chosen, n)
      BY <1>9, <2>2
    <3>2. ledger'[t].record = <<b, n>> /\ n \in DOMAIN record'[b]
      BY <1>2, <1>4, <1>8, <3>1
    <3> QED  BY <1>8, <3>1, <3>2
  <2> QED  BY <2>1, <2>2
<1>15. Unborn'
  BY <1>1, <1>2 DEF Unborn
<1>16. Reading'
  <2> SUFFICES ASSUME NEW u \in Slots \ {w}, slot[u] # Idle PROVE Read(u)'
    BY <1>6 DEF Reading
  <2>1. Read(u) /\ slot'[u] = slot[u]
    BY <1>6 DEF Reading
  <2>2. Len(record'[slot[u].request.batch]) = Len(record[slot[u].request.batch])
    BY <1>1, <1>2, <2>1 DEF Read
  <2> QED  BY <1>2, <2>1, <2>2 DEF Read
<1>17. \A u \in Slots \ {w} : slot[u] # Idle /\ b \notin disturbed => slot[u].request.batch # b
  BY DEF Alone
<1>18. Current'
  <2> SUFFICES ASSUME NEW u \in Slots, slot'[u] # Idle, slot'[u].request.batch \notin disturbed',
                      slot'[u].request.op # "account"
               PROVE  LET c == slot'[u].request.batch
                      IN  /\ slot'[u].record = record'[c]
                          /\ slot'[u].batch.confirmed = batch'[c].confirmed
                          /\ slot'[u].batch.rejected = batch'[c].rejected
    BY DEF Current
  <2>1. u # w /\ slot'[u] = slot[u] /\ slot[u].request.batch \notin disturbed
    BY <1>6
  <2>2. slot[u].request.batch # b /\ slot[u].request.batch \in DOMAIN batch
    BY <1>17, <2>1 DEF Reading, Read
  <2> QED  BY <1>1, <1>2, <2>1, <2>2 DEF Current
<1>19. Alone'
  BY <1>6 DEF Alone
<1>20. Fresh'
  <2>1. record[b] = <<>> => rows = <<>>
    <3>1. record[b] = <<>> => Len(rows) = 0
      BY <1>1
    <3> QED  BY <3>1, EmptySeq
  <2> QED  BY <1>2, <2>1 DEF Fresh
<1>21. NothingDropped'
  <2>1. \A c \in DOMAIN batch : batch'[c].status = batch[c].status
                               /\ Len(record'[c]) = Len(record[c]) /\ c \in Batches
    BY <1>1, <1>2
  <2> QED  BY <1>2, <2>1 DEF NothingDropped
<1>22. ImportedOnce'
  <2> SUFFICES ASSUME NEW c \in Batches \ disturbed', NEW n \in DOMAIN record'[c]
               PROVE  ImportedFrom(<<c, n>>)' =
                         IF record'[c][n].status = "confirmed" THEN {record'[c][n].txn} ELSE {}
    BY DEF ImportedOnce, ImportedFrom
  <2>1. n \in DOMAIN record[c] /\ c \notin disturbed
    BY <1>3
  <2>2. ImportedFrom(<<c, n>>) = IF record[c][n].status = "confirmed" THEN {record[c][n].txn} ELSE {}
    BY <2>1 DEF ImportedOnce
  <2>3. CASE c = b /\ n \in chosen
    <3>1. ImportedFrom(<<c, n>>)' = {Len(ledger) + Place(chosen, n)}
      <4>1. \A t \in DOMAIN ledger : ledger'[t].record # <<c, n>>
        BY <1>10, <2>2, <2>3 DEF ImportedFrom
      <4>2. \A m \in chosen : m # n => ledger'[Len(ledger) + Place(chosen, m)].record # <<c, n>>
        BY <1>8
      <4> QED  BY <1>8, <1>9, <2>3, <4>1, <4>2 DEF ImportedFrom
    <3>2. record'[c][n].status = "confirmed" /\ record'[c][n].txn = Len(ledger) + Place(chosen, n)
      BY <1>2, <1>3, <2>1, <2>3
    <3> QED  BY <3>1, <3>2
  <2>4. CASE ~(c = b /\ n \in chosen)
    <3>1. \A t \in DOMAIN ledger' \ DOMAIN ledger : ledger'[t].record # <<c, n>>
      BY <1>8, <1>9, <2>4
    <3>2. ImportedFrom(<<c, n>>)' = ImportedFrom(<<c, n>>)
      BY <1>10, <3>1 DEF ImportedFrom
    <3>3. /\ record'[c][n].txn = record[c][n].txn
          /\ record'[c][n].status = "confirmed" <=> record[c][n].status = "confirmed"
      BY <1>2, <1>3, <2>1, <2>4
    <3> QED  BY <2>2, <3>2, <3>3
  <2> QED  BY <2>3, <2>4
<1>23. CountsExact'
  <2>1. ASSUME NEW c \in DOMAIN batch' \ disturbed' PROVE Counted(batch'[c], record'[c])
    <3>1. CASE c = b
      BY <1>2, <3>1
    <3>2. CASE c # b
      BY <1>1, <1>2, <2>1, <3>2, CountsAreCounted
    <3> QED  BY <3>1, <3>2
  <2> QED  BY <2>1, CountsAreCounted
<1> QED  BY <1>12, <1>13, <1>14, <1>15, <1>16, <1>18, <1>19, <1>20, <1>21, <1>22, <1>23

\* Rows rewritten in place are as many rows.
LEMMA Rewritten ==
    ASSUME NEW old \in Seq(RecordRow), NEW rows, rows \in [DOMAIN old -> RecordRow]
    PROVE  rows \in Seq(RecordRow) /\ Len(rows) = Len(old) /\ DOMAIN rows = DOMAIN old
<1>1. Len(old) \in Nat /\ DOMAIN old = 1..Len(old)
  OBVIOUS
<1>2. rows \in [1..Len(old) -> RecordRow]
  BY <1>1
<1> QED  BY <1>1, <1>2

\* A set of records that gains others has that many more.
LEMMA HavingMore ==
    ASSUME NEW rows \in Seq(RecordRow), NEW had \in SUBSET DOMAIN rows,
           NEW more \in SUBSET DOMAIN rows, had \cap more = {}
    PROVE  Cardinality(had \cup more) = Cardinality(had) + Cardinality(more)
<1>1. Len(rows) \in Nat /\ DOMAIN rows = 1..Len(rows)
  OBVIOUS
<1>2. \A k \in Nat : IsFiniteSet(1..k)
  BY FS_Interval
<1>3. IsFiniteSet(had) /\ IsFiniteSet(more)
  BY <1>1, <1>2, FS_Subset
<1>4. Cardinality(had \cup more) = Cardinality(had) + Cardinality(more) - Cardinality(had \cap more)
  BY <1>3, FS_Union
<1>5. Cardinality(had) \in Nat /\ Cardinality(more) \in Nat
  BY <1>3, FS_CardinalityType
<1> QED  BY <1>4, <1>5, FS_EmptySet

\* A ledger left alone has grown by no records.
LEMMA NothingGrew ==
    ASSUME Types, UNCHANGED ledger, NEW b, NEW rows
    PROVE  Grew(b, rows, {})
<1>1. ledger \in Seq(EntryRow) /\ Len(ledger) \in Nat
  BY DEF Types
<1>2. Cardinality({}) = 0
  BY FS_EmptySet
<1> QED  BY <1>1, <1>2 DEF Grew

\* Importing into the ledger, or into one that says the same of its records and lines.
LEMMA ImportGrows ==
    ASSUME Types, NEW b \in Batches, NEW rows \in Seq(RecordRow),
           NEW chosen \in SUBSET DOMAIN rows, \A n \in chosen : Converts(rows[n]),
           NEW kept \in Seq(EntryRow), Len(kept) = Len(ledger),
           \A t \in 1..Len(ledger) :
               /\ kept[t].record = ledger[t].record /\ kept[t].line = ledger[t].line
               /\ kept[t].day = ledger[t].day /\ kept[t].amount = ledger[t].amount,
           ledger' = Import(kept, b, rows, chosen)
    PROVE  /\ Grew(b, rows, chosen) /\ Cardinality(chosen) \in Nat
           /\ \A n \in chosen : Len(ledger) + Place(chosen, n) \in Nat
<1>1. Len(ledger) \in Nat
  BY DEF Types
<1>2. Adds(kept, ledger', b, rows, chosen)
  BY ImportAppends
<1>3. /\ ledger' \in Seq(EntryRow) /\ Len(ledger') = Len(kept) + Cardinality(chosen)
      /\ \A t \in 1..Len(kept) : ledger'[t] = kept[t]
      /\ \A n \in chosen :
            LET t == Len(kept) + Place(chosen, n)
            IN  /\ t \in (Len(kept) + 1)..Len(ledger')
                /\ ledger'[t] = Entry(rows[n].line, <<b, n>>)
      /\ \A t \in (Len(kept) + 1)..Len(ledger') : \E n \in chosen : t = Len(kept) + Place(chosen, n)
      /\ IsFiniteSet(chosen) /\ Cardinality(chosen) \in Nat
  BY <1>2 DEF Adds
<1>4. Grew(b, rows, chosen)
  BY <1>3 DEF Grew
<1>5. \A n \in chosen : Len(ledger) + Place(chosen, n) \in (Len(ledger) + 1)..Len(ledger')
  BY <1>3
<1> QED  BY <1>1, <1>3, <1>4, <1>5

\* What a request has read, and what is there of its batch.
LEMMA ReadFacts ==
    ASSUME IInv, NEW w \in Slots, slot[w] # Idle, NEW b, b = slot[w].request.batch
    PROVE  /\ b \in DOMAIN batch /\ b \in Batches /\ batch[b] \in BatchRow
           /\ record[b] \in Seq(RecordRow) /\ record \in [Batches -> Seq(RecordRow)]
           /\ batch \in [DOMAIN batch -> BatchRow] /\ ledger \in Seq(EntryRow)
           /\ slot[w].record \in Seq(RecordRow) /\ slot[w].batch \in BatchRow
           /\ DOMAIN slot[w].record \subseteq DOMAIN record[b]
           /\ \A n \in DOMAIN record[b] : record[b][n] \in RecordRow
           /\ \A n \in DOMAIN slot[w].record : slot[w].record[n] \in RecordRow
           /\ Names(slot[w].request, slot[w].record)
           /\ disturbed \subseteq Batches
<1>1. /\ b \in DOMAIN batch /\ b \in Batches /\ batch[b] \in BatchRow
      /\ record[b] \in Seq(RecordRow) /\ record \in [Batches -> Seq(RecordRow)]
      /\ batch \in [DOMAIN batch -> BatchRow] /\ ledger \in Seq(EntryRow)
      /\ slot[w].record \in Seq(RecordRow) /\ slot[w].batch \in BatchRow
      /\ Len(slot[w].record) <= Len(record[b])
      /\ Names(slot[w].request, slot[w].record) /\ disturbed \subseteq Batches
  BY DEF IInv, Places, Types, Reading, Read
<1>2. \A s \in Seq(RecordRow) : /\ DOMAIN s = 1..Len(s) /\ Len(s) \in Nat
                               /\ \A n \in DOMAIN s : s[n] \in RecordRow
  OBVIOUS
<1>3. /\ DOMAIN slot[w].record = 1..Len(slot[w].record) /\ Len(slot[w].record) \in Nat
      /\ DOMAIN record[b] = 1..Len(record[b]) /\ Len(record[b]) \in Nat
  BY <1>1, <1>2
<1> QED  BY <1>1, <1>2, <1>3

\* What every committed request does besides.
Leaves(w) ==
    /\ slot' = [slot EXCEPT ![w] = Idle]
    /\ UNCHANGED <<upload, job, requests, crashes>>

\* Confirming: the records chosen were not decided, so they are new among the
\* confirmed ones, and the counter read is the counter there is.
LEMMA ConfirmStep ==
    ASSUME IInv, NEW w \in Slots, slot[w] # Idle, slot[w].request.op = "confirm",
           ConfirmRecords(slot[w], slot[w].request), Leaves(w), UNCHANGED disturbed
    PROVE  IInv'
<1> DEFINE v == slot[w]
           r == v.request
           b == r.batch
           selected == SelectedForConfirm(v.record, r)
           chosen == {n \in selected : Converts(v.record[n])}
           rows == [n \in DOMAIN record[b] |->
                       IF n \in chosen THEN Confirmed(record[b][n], Len(ledger) + Place(chosen, n))
                       ELSE IF n \in selected THEN Failed(record[b][n], v.record[n])
                       ELSE record[b][n]]
           row == [batch[b] EXCEPT !.confirmed =
                      Column(v.batch.confirmed, v.batch.confirmed + Cardinality(chosen), @)]
<1>1. /\ b \in DOMAIN batch /\ b \in Batches /\ batch[b] \in BatchRow
      /\ record[b] \in Seq(RecordRow) /\ record \in [Batches -> Seq(RecordRow)]
      /\ batch \in [DOMAIN batch -> BatchRow] /\ ledger \in Seq(EntryRow)
      /\ v.record \in Seq(RecordRow) /\ v.batch \in BatchRow
      /\ DOMAIN v.record \subseteq DOMAIN record[b]
      /\ \A n \in DOMAIN record[b] : record[b][n] \in RecordRow
      /\ \A n \in DOMAIN v.record : v.record[n] \in RecordRow
      /\ Names(r, v.record) /\ disturbed \subseteq Batches
  BY ReadFacts
<1>2. chosen \in SUBSET DOMAIN v.record /\ selected \subseteq DOMAIN v.record
      /\ (\A n \in chosen : n \in selected /\ Converts(v.record[n]))
      /\ (\A n \in selected : v.record[n].status \in {"pending", "duplicate"})
  BY <1>1 DEF Names, SelectedForConfirm
<1>3. /\ ledger' = Import(ledger, b, v.record, chosen)
      /\ record' = [record EXCEPT ![b] = rows] /\ batch' = [batch EXCEPT ![b] = row]
      /\ slot' = [slot EXCEPT ![w] = Idle] /\ UNCHANGED <<upload, job, requests, crashes, disturbed>>
  BY DEF ConfirmRecords, Leaves
<1> HIDE DEF chosen, selected
<1>4. /\ Grew(b, v.record, chosen) /\ Cardinality(chosen) \in Nat
      /\ \A n \in chosen : Len(ledger) + Place(chosen, n) \in Nat
  BY <1>1, <1>2, <1>3, ImportGrows DEF IInv, Places
<1>6. \A n \in DOMAIN record[b] :
          /\ rows[n] \in RecordRow
          /\ rows[n].txn = IF n \in chosen THEN Len(ledger) + Place(chosen, n) ELSE record[b][n].txn
          /\ rows[n].status = IF n \in chosen THEN "confirmed"
                              ELSE IF n \in selected THEN "failed" ELSE record[b][n].status
          /\ rows[n].byHand = record[b][n].byHand
  BY <1>1, <1>2, <1>4 DEF Confirmed, Failed, RecordRow, RecordStatus
<1>7. rows \in [DOMAIN record[b] -> RecordRow]
  BY <1>6
<1>8. row \in BatchRow /\ row.status = batch[b].status
      /\ row.parsed = batch[b].parsed /\ row.rejected = batch[b].rejected
      /\ (v.batch.confirmed = batch[b].confirmed =>
             row.confirmed = batch[b].confirmed + Cardinality(chosen))
  <2>1. v.batch.confirmed \in Nat
    BY <1>1 DEF BatchRow
  <2>2. v.batch.confirmed + Cardinality(chosen) \in Nat
    BY <1>4, <2>1
  <2> QED  BY <1>1, <1>4, <2>1, <2>2 DEF BatchRow, Column
<1> HIDE DEF rows, row
<1>9. rows \in Seq(RecordRow) /\ Len(rows) = Len(record[b]) /\ DOMAIN rows = DOMAIN record[b]
  BY <1>1, <1>7, Rewritten
<1>10. ASSUME b \notin disturbed
       PROVE  /\ \A n \in chosen : record[b][n].status # "confirmed"
              /\ \A n \in DOMAIN rows :
                    rows[n].status = "confirmed" <=> n \in chosen \/ record[b][n].status = "confirmed"
              /\ Counted(row, rows)
  <2>1. v.record = record[b] /\ v.batch.confirmed = batch[b].confirmed
    BY <1>10 DEF IInv, Calm, Current
  <2>2. \A n \in selected : record[b][n].status \in {"pending", "duplicate"}
    BY <1>2, <2>1
  <2>3. \A n \in DOMAIN rows :
           rows[n].status = "confirmed" <=> n \in chosen \/ record[b][n].status = "confirmed"
    BY <1>6, <1>9, <2>2
  <2>4. \A n \in DOMAIN rows : rows[n].status = "rejected" <=> record[b][n].status = "rejected"
    BY <1>2, <1>6, <1>9, <2>2
  <2>5. /\ Having(rows, "confirmed") = Having(record[b], "confirmed") \cup chosen
        /\ Having(record[b], "confirmed") \cap chosen = {}
    BY <1>2, <1>9, <2>1, <2>2, <2>3 DEF Having
  <2>10. Refused(rows) = Refused(record[b])
    <3>1. \A n \in DOMAIN rows : rows[n].byHand = record[b][n].byHand
      BY <1>6, <1>9
    <3>2. \A n \in DOMAIN rows : n \in Refused(rows) <=> n \in Refused(record[b])
      BY <1>9, <2>4, <3>1 DEF Having, Refused
    <3> QED  BY <1>9, <3>2 DEF Having, Refused
  <2>6. Having(record[b], "confirmed") \in SUBSET DOMAIN record[b] /\ chosen \in SUBSET DOMAIN record[b]
    BY <1>2, <2>1 DEF Having
  <2>7. Cardinality(Having(rows, "confirmed")) =
            Cardinality(Having(record[b], "confirmed")) + Cardinality(chosen)
    <3>1. record[b] \in Seq(RecordRow)
      BY <1>1
    <3> QED  BY <2>5, <2>6, <3>1, HavingMore
  <2>8. Counted(batch[b], record[b])
    BY <1>1, <1>10, CountsAreCounted DEF IInv, Sums
  <2>9. Counted(row, rows)
    BY <1>8, <1>9, <2>1, <2>5, <2>7, <2>8, <2>10 DEF Counted
  <2> QED  BY <1>2, <2>2, <2>3, <2>9
<1>11. \A n \in DOMAIN rows :
          rows[n].txn = IF n \in chosen THEN Len(ledger) + Place(chosen, n) ELSE record[b][n].txn
  BY <1>6, <1>9
<1>12. Commits(w, b, chosen, rows, row)
  BY <1>1, <1>2, <1>3, <1>4, <1>8, <1>9, <1>10, <1>11 DEF Commits
<1> QED  BY <1>12, CommitStep

\* Replacing: the same with one record, after deleting transactions.
LEMMA ReplaceStep ==
    ASSUME IInv, NEW w \in Slots, slot[w] # Idle, slot[w].request.op = "replace",
           ReplaceExisting(slot[w], slot[w].request), Leaves(w), UNCHANGED disturbed
    PROVE  IInv'
<1> DEFINE v == slot[w]
           r == v.request
           b == r.batch
           kept == [t \in DOMAIN ledger |->
                       IF t \in r.txns THEN [ledger[t] EXCEPT !.live = FALSE] ELSE ledger[t]]
           chosen == {r.id}
           rows == [record[b] EXCEPT ![r.id] = Confirmed(@, Len(ledger) + 1)]
           row == [batch[b] EXCEPT !.confirmed = Column(v.batch.confirmed, v.batch.confirmed + 1, @)]
<1>1. /\ b \in DOMAIN batch /\ b \in Batches /\ batch[b] \in BatchRow
      /\ record[b] \in Seq(RecordRow) /\ record \in [Batches -> Seq(RecordRow)]
      /\ batch \in [DOMAIN batch -> BatchRow] /\ ledger \in Seq(EntryRow)
      /\ v.record \in Seq(RecordRow) /\ v.batch \in BatchRow
      /\ DOMAIN v.record \subseteq DOMAIN record[b]
      /\ \A n \in DOMAIN record[b] : record[b][n] \in RecordRow
      /\ \A n \in DOMAIN v.record : v.record[n] \in RecordRow
      /\ Names(r, v.record) /\ disturbed \subseteq Batches
  BY ReadFacts
<1>2. /\ r.id \in DOMAIN v.record /\ r.id \in DOMAIN record[b] /\ r.id \in Nat
      /\ v.record[r.id].status = "duplicate" /\ Converts(v.record[r.id])
  <2>1. r.id \in DOMAIN v.record /\ v.record[r.id].status = "duplicate" /\ Converts(v.record[r.id])
    BY <1>1 DEF Names
  <2> QED  BY <1>1, <2>1
<1>3. /\ ledger' = Import(kept, b, v.record, chosen)
      /\ record' = [record EXCEPT ![b] = rows] /\ batch' = [batch EXCEPT ![b] = row]
      /\ slot' = [slot EXCEPT ![w] = Idle] /\ UNCHANGED <<upload, job, requests, crashes, disturbed>>
  BY DEF ReplaceExisting, Leaves
<1>4. /\ kept \in Seq(EntryRow) /\ Len(kept) = Len(ledger)
      /\ \A t \in 1..Len(ledger) :
            /\ kept[t].record = ledger[t].record /\ kept[t].line = ledger[t].line
            /\ kept[t].day = ledger[t].day /\ kept[t].amount = ledger[t].amount
  <2>1. Len(ledger) \in Nat /\ DOMAIN ledger = 1..Len(ledger)
        /\ (\A t \in 1..Len(ledger) : ledger[t] \in EntryRow)
    BY <1>1
  <2>2. \A t \in 1..Len(ledger) :
           /\ kept[t] \in EntryRow
           /\ kept[t].record = ledger[t].record /\ kept[t].line = ledger[t].line
           /\ kept[t].day = ledger[t].day /\ kept[t].amount = ledger[t].amount
    BY <2>1 DEF EntryRow
  <2>3. kept \in [1..Len(ledger) -> EntryRow]
    BY <2>1, <2>2
  <2> HIDE DEF kept
  <2>4. kept \in Seq(EntryRow) /\ Len(kept) = Len(ledger)
    BY <2>1, <2>3
  <2> QED  BY <2>2, <2>4
<1> HIDE DEF kept
<1>5. Cardinality(chosen) = 1 /\ Place(chosen, r.id) = 1
  <2>1. {m \in chosen : m <= r.id} = {r.id}
    BY <1>2
  <2> QED  BY <2>1, FS_Singleton DEF Place
<1>6. chosen \in SUBSET DOMAIN v.record /\ \A n \in chosen : Converts(v.record[n])
  BY <1>2
<1>7. Grew(b, v.record, chosen)
  BY <1>1, <1>3, <1>4, <1>6, ImportGrows DEF IInv, Places
<1>8. \A n \in DOMAIN record[b] :
          /\ rows[n] \in RecordRow
          /\ rows[n].txn = IF n \in chosen THEN Len(ledger) + Place(chosen, n) ELSE record[b][n].txn
          /\ rows[n].status = IF n \in chosen THEN "confirmed" ELSE record[b][n].status
          /\ rows[n].byHand = record[b][n].byHand
  <2>1. Len(ledger) + 1 \in Nat
    BY <1>1
  <2> QED  BY <1>1, <1>2, <1>5, <2>1 DEF Confirmed, RecordRow, RecordStatus
<1>9. rows \in [DOMAIN record[b] -> RecordRow]
  BY <1>8
<1>10. row \in BatchRow /\ row.status = batch[b].status
       /\ row.parsed = batch[b].parsed /\ row.rejected = batch[b].rejected
       /\ (v.batch.confirmed = batch[b].confirmed => row.confirmed = batch[b].confirmed + 1)
  <2>1. v.batch.confirmed \in Nat
    BY <1>1 DEF BatchRow
  <2>2. Column(v.batch.confirmed, v.batch.confirmed + 1, batch[b].confirmed) = v.batch.confirmed + 1
    BY <2>1 DEF Column
  <2>3. v.batch.confirmed + 1 \in Nat
    BY <2>1
  <2>4. row = [batch[b] EXCEPT !.confirmed = v.batch.confirmed + 1]
    BY <2>2
  <2> HIDE DEF v, b, row
  <2> QED  BY <1>1, <2>3, <2>4 DEF BatchRow
<1> HIDE DEF rows, row
<1>11. rows \in Seq(RecordRow) /\ Len(rows) = Len(record[b]) /\ DOMAIN rows = DOMAIN record[b]
  BY <1>1, <1>9, Rewritten
<1>12. ASSUME b \notin disturbed
       PROVE  /\ \A n \in chosen : record[b][n].status # "confirmed"
              /\ \A n \in DOMAIN rows :
                    rows[n].status = "confirmed" <=> n \in chosen \/ record[b][n].status = "confirmed"
              /\ Counted(row, rows)
  <2>1. v.batch.confirmed = batch[b].confirmed /\ record[b][r.id].status = "duplicate"
    BY <1>2, <1>12 DEF IInv, Calm, Current
  <2>2. /\ Having(rows, "confirmed") = Having(record[b], "confirmed") \cup chosen
        /\ Having(record[b], "confirmed") \cap chosen = {}
    BY <1>2, <1>8, <1>11, <2>1 DEF Having
  <2>7. Refused(rows) = Refused(record[b])
    <3>1. \A n \in DOMAIN rows :
             /\ rows[n].byHand = record[b][n].byHand
             /\ rows[n].status = "rejected" <=> record[b][n].status = "rejected"
      BY <1>2, <1>8, <1>11, <2>1
    <3>2. \A n \in DOMAIN rows : n \in Refused(rows) <=> n \in Refused(record[b])
      BY <1>11, <3>1 DEF Having, Refused
    <3> QED  BY <1>11, <3>2 DEF Having, Refused
  <2>3. Having(record[b], "confirmed") \in SUBSET DOMAIN record[b] /\ chosen \in SUBSET DOMAIN record[b]
    BY <1>2 DEF Having
  <2>4. Cardinality(Having(rows, "confirmed")) = Cardinality(Having(record[b], "confirmed")) + 1
    BY <1>1, <1>5, <2>2, <2>3, HavingMore
  <2>5. Counted(batch[b], record[b])
    BY <1>1, <1>12, CountsAreCounted DEF IInv, Sums
  <2>6. Counted(row, rows)
    BY <1>10, <1>11, <2>1, <2>2, <2>4, <2>5, <2>7 DEF Counted
  <2> QED  BY <1>8, <1>11, <2>1, <2>6
<1>13. Commits(w, b, chosen, rows, row)
  BY <1>1, <1>3, <1>6, <1>7, <1>8, <1>10, <1>11, <1>12 DEF Commits
<1> QED  BY <1>13, CommitStep

\* Rejecting: the records selected were not decided either.
LEMMA RejectStep ==
    ASSUME IInv, NEW w \in Slots, slot[w] # Idle, slot[w].request.op = "reject",
           RejectRecords(slot[w], slot[w].request), Leaves(w), UNCHANGED disturbed
    PROVE  IInv'
<1> DEFINE v == slot[w]
           r == v.request
           b == r.batch
           selected == SelectedForReject(v.record, r)
           rows == [n \in DOMAIN record[b] |->
                       IF n \in selected
                       THEN [record[b][n] EXCEPT !.status = "rejected", !.byHand = FALSE]
                       ELSE record[b][n]]
           row == [batch[b] EXCEPT !.rejected =
                      Column(v.batch.rejected, v.batch.rejected + Cardinality(selected), @)]
<1>1. /\ b \in DOMAIN batch /\ b \in Batches /\ batch[b] \in BatchRow
      /\ record[b] \in Seq(RecordRow) /\ record \in [Batches -> Seq(RecordRow)]
      /\ batch \in [DOMAIN batch -> BatchRow] /\ ledger \in Seq(EntryRow)
      /\ v.record \in Seq(RecordRow) /\ v.batch \in BatchRow
      /\ DOMAIN v.record \subseteq DOMAIN record[b]
      /\ \A n \in DOMAIN record[b] : record[b][n] \in RecordRow
      /\ Names(r, v.record) /\ disturbed \subseteq Batches
  BY ReadFacts
<1>2. /\ selected \subseteq DOMAIN v.record
      /\ \A n \in selected : v.record[n].status = "pending"
  BY <1>1 DEF Names, SelectedForReject
<1>3. /\ record' = [record EXCEPT ![b] = rows] /\ batch' = [batch EXCEPT ![b] = row]
      /\ slot' = [slot EXCEPT ![w] = Idle]
      /\ UNCHANGED <<upload, ledger, job, requests, crashes, disturbed>>
  BY DEF RejectRecords, Leaves
<1> HIDE DEF selected
<1>4. Cardinality(selected) \in Nat
  <2>1. DOMAIN v.record = 1..Len(v.record) /\ Len(v.record) \in Nat
    BY <1>1
  <2>2. \A k \in Nat : IsFiniteSet(1..k)
    BY FS_Interval
  <2>3. IsFiniteSet(selected)
    BY <1>2, <2>1, <2>2, FS_Subset
  <2> QED  BY <2>3, FS_CardinalityType
<1>5. Grew(b, v.record, {})
  BY <1>3, NothingGrew DEF IInv, Places
<1>6. \A n \in DOMAIN record[b] :
          /\ rows[n] \in RecordRow /\ rows[n].txn = record[b][n].txn
          /\ rows[n].status = IF n \in selected THEN "rejected" ELSE record[b][n].status
          /\ n \in selected => rows[n].byHand = FALSE
          /\ n \notin selected => rows[n] = record[b][n]
  BY <1>1 DEF RecordRow, RecordStatus
<1>7. rows \in [DOMAIN record[b] -> RecordRow]
  BY <1>6
<1>8. row \in BatchRow /\ row.status = batch[b].status
      /\ row.parsed = batch[b].parsed /\ row.confirmed = batch[b].confirmed
      /\ (v.batch.rejected = batch[b].rejected =>
             row.rejected = batch[b].rejected + Cardinality(selected))
  <2>1. v.batch.rejected \in Nat
    BY <1>1 DEF BatchRow
  <2>2. v.batch.rejected + Cardinality(selected) \in Nat
    BY <1>4, <2>1
  <2> QED  BY <1>1, <1>4, <2>1, <2>2 DEF BatchRow, Column
<1> HIDE DEF rows, row
<1>9. rows \in Seq(RecordRow) /\ Len(rows) = Len(record[b]) /\ DOMAIN rows = DOMAIN record[b]
  BY <1>1, <1>7, Rewritten
<1>10. ASSUME b \notin disturbed
       PROVE  /\ \A n \in DOMAIN rows :
                    rows[n].status = "confirmed" <=> record[b][n].status = "confirmed"
              /\ Counted(row, rows)
  <2>1. v.record = record[b] /\ v.batch.rejected = batch[b].rejected
    BY <1>10 DEF IInv, Calm, Current
  <2>2. \A n \in selected : record[b][n].status = "pending"
    BY <1>2, <2>1
  <2>3. /\ Refused(rows) = Refused(record[b]) \cup selected
        /\ Refused(record[b]) \cap selected = {}
        /\ Having(rows, "confirmed") = Having(record[b], "confirmed")
    BY <1>2, <1>6, <1>9, <2>1, <2>2 DEF Having, Refused
  <2>4. Refused(record[b]) \in SUBSET DOMAIN record[b] /\ selected \in SUBSET DOMAIN record[b]
    BY <1>2, <2>1 DEF Having, Refused
  <2>5. Cardinality(Refused(rows)) =
            Cardinality(Refused(record[b])) + Cardinality(selected)
    <3>1. record[b] \in Seq(RecordRow)
      BY <1>1
    <3> QED  BY <2>3, <2>4, <3>1, HavingMore
  <2>6. Counted(batch[b], record[b])
    BY <1>1, <1>10, CountsAreCounted DEF IInv, Sums
  <2>7. Counted(row, rows)
    BY <1>8, <1>9, <2>1, <2>3, <2>5, <2>6 DEF Counted
  <2> QED  BY <1>6, <1>9, <2>2, <2>7
<1>11. Commits(w, b, {}, rows, row)
  BY <1>1, <1>3, <1>5, <1>6, <1>8, <1>9, <1>10 DEF Commits
<1> QED  BY <1>11, CommitStep

\* Editing a record: a batch stays undisturbed only if nothing is decided by it.
LEMMA PatchStep ==
    ASSUME IInv, NEW w \in Slots, slot[w] # Idle, slot[w].request.op = "patch",
           PatchRecord(slot[w], slot[w].request), Leaves(w),
           disturbed' = IF Redecides(slot[w].request) THEN disturbed \cup {slot[w].request.batch}
                        ELSE disturbed
    PROVE  IInv'
<1> DEFINE v == slot[w]
           r == v.request
           b == r.batch
           rows == [record[b] EXCEPT ![r.id] = Edited(@, v.record[r.id], r)]
           row == batch[b]
<1>1. /\ b \in DOMAIN batch /\ b \in Batches /\ batch[b] \in BatchRow
      /\ record[b] \in Seq(RecordRow) /\ record \in [Batches -> Seq(RecordRow)]
      /\ batch \in [DOMAIN batch -> BatchRow]
      /\ DOMAIN v.record \subseteq DOMAIN record[b]
      /\ \A n \in DOMAIN record[b] : record[b][n] \in RecordRow
      /\ Names(r, v.record) /\ disturbed \subseteq Batches
  BY ReadFacts
<1>2. /\ r.id \in DOMAIN record[b] /\ r.line \in PatchLines \cup {Keep}
      /\ r.status \in PatchStatuses \cup {Keep}
  BY <1>1 DEF Names
<1>3. /\ record' = [record EXCEPT ![b] = rows] /\ batch' = [batch EXCEPT ![b] = row]
      /\ slot' = [slot EXCEPT ![w] = Idle]
      /\ UNCHANGED <<upload, batch, ledger, job, requests, crashes>>
  BY <1>1 DEF PatchRecord, Leaves
<1>4. Grew(b, v.record, {})
  BY <1>3, NothingGrew DEF IInv, Places
<1>5. /\ Edited(record[b][r.id], v.record[r.id], r) \in RecordRow
      /\ Edited(record[b][r.id], v.record[r.id], r).txn = record[b][r.id].txn
      /\ Edited(record[b][r.id], v.record[r.id], r).status \in
            IF r.status = Keep THEN {record[b][r.id].status}
            ELSE {record[b][r.id].status, r.status}
      /\ Edited(record[b][r.id], v.record[r.id], r).byHand =
            (record[b][r.id].byHand \/ r.status = "rejected")
  <2>1. record[b][r.id] \in RecordRow
    BY <1>1, <1>2
  <2>2. \A old, current \in Line \cup {Broken} : Patched(old, r.line, current) \in Line \cup {Broken}
    BY <1>2, ImportsAssumption DEF Patched, Column
  <2>3. Patched(v.record[r.id].line, r.line, record[b][r.id].line) \in Line \cup {Broken}
    BY <1>2, <2>1, ImportsAssumption DEF Patched, Column, RecordRow
  <2>4. /\ Patched(v.record[r.id].status, r.status, record[b][r.id].status) \in RecordStatus
        /\ Patched(v.record[r.id].status, r.status, record[b][r.id].status) \in
              IF r.status = Keep THEN {record[b][r.id].status}
              ELSE {record[b][r.id].status, r.status}
    BY <1>2, <2>1, ImportsAssumption DEF Patched, Column, RecordRow
  <2> QED  BY <2>1, <2>3, <2>4 DEF Edited, RecordRow
<1>6. \A n \in DOMAIN record[b] :
          /\ rows[n] \in RecordRow /\ rows[n].txn = record[b][n].txn
          /\ n # r.id => rows[n] = record[b][n]
  BY <1>1, <1>2, <1>5
<1>7. rows \in [DOMAIN record[b] -> RecordRow]
  BY <1>6
<1>8. rows[r.id] = Edited(record[b][r.id], v.record[r.id], r)
  BY <1>1, <1>2
<1> HIDE DEF rows
<1>9. rows \in Seq(RecordRow) /\ Len(rows) = Len(record[b]) /\ DOMAIN rows = DOMAIN record[b]
  BY <1>1, <1>7, Rewritten
<1>10. ASSUME b \notin disturbed'
       PROVE  /\ \A n \in DOMAIN rows :
                    rows[n].status = "confirmed" <=> record[b][n].status = "confirmed"
              /\ Counted(row, rows)
  <2>1. ~Redecides(r) /\ b \notin disturbed
    BY <1>10
  <2>2. \/ r.status = Keep
        \/ /\ record[b][r.id].status \notin {"confirmed", "rejected"}
           /\ r.status # "confirmed"
    BY <2>1 DEF Redecides
  <2>3. rows[r.id].status = "confirmed" <=> record[b][r.id].status = "confirmed"
    BY <1>5, <1>8, <2>2
  <2>4. \A n \in DOMAIN rows : rows[n].status = "confirmed" <=> record[b][n].status = "confirmed"
    BY <1>6, <1>9, <2>3
  <2>7. rows[r.id].status = "rejected" /\ ~rows[r.id].byHand <=>
            record[b][r.id].status = "rejected" /\ ~record[b][r.id].byHand
    <3>1. CASE r.status = Keep
      <4>1. Keep # "rejected"
        BY ImportsAssumption DEF RecordStatus
      <4> QED  BY <1>5, <1>8, <3>1, <4>1
    <3>2. CASE r.status # Keep
      BY <1>5, <1>8, <2>2, <3>2
    <3> QED  BY <3>1, <3>2
  <2>8. \A n \in DOMAIN rows : n \in Refused(rows) <=> n \in Refused(record[b])
    BY <1>6, <1>9, <2>7 DEF Refused, Having
  <2>5. /\ Having(rows, "confirmed") = Having(record[b], "confirmed")
        /\ Refused(rows) = Refused(record[b])
    BY <1>9, <2>4, <2>8 DEF Having, Refused
  <2>6. Counted(batch[b], record[b])
    BY <1>1, <2>1, CountsAreCounted DEF IInv, Sums
  <2> QED  BY <1>9, <2>4, <2>5, <2>6 DEF Counted
<1>11. disturbed \subseteq disturbed' /\ disturbed' \subseteq Batches
  BY <1>1
<1>12. Commits(w, b, {}, rows, row)
  BY <1>1, <1>3, <1>4, <1>6, <1>9, <1>10, <1>11 DEF Commits
<1> QED  BY <1>12, CommitStep

\* Naming the account touches no record.
LEMMA PatchBatchStep ==
    ASSUME IInv, NEW w \in Slots, slot[w] # Idle, PatchBatch(slot[w].request), Leaves(w),
           UNCHANGED disturbed
    PROVE  IInv'
<1> DEFINE b == slot[w].request.batch
           row == [batch[b] EXCEPT !.account = TRUE]
<1>1. /\ b \in DOMAIN batch /\ b \in Batches /\ batch[b] \in BatchRow
      /\ record[b] \in Seq(RecordRow) /\ record \in [Batches -> Seq(RecordRow)]
      /\ batch \in [DOMAIN batch -> BatchRow] /\ disturbed \subseteq Batches
  BY ReadFacts
<1>2. /\ record' = [record EXCEPT ![b] = record[b]] /\ batch' = [batch EXCEPT ![b] = row]
      /\ slot' = [slot EXCEPT ![w] = Idle]
      /\ UNCHANGED <<upload, ledger, job, requests, crashes, disturbed>>
  BY <1>1 DEF PatchBatch, Leaves
<1>3. Grew(b, slot[w].record, {})
  BY <1>2, NothingGrew DEF IInv, Places
<1>4. /\ row \in BatchRow /\ row.status = batch[b].status /\ row.parsed = batch[b].parsed
      /\ row.confirmed = batch[b].confirmed /\ row.rejected = batch[b].rejected
  BY <1>1 DEF BatchRow
<1>5. b \notin disturbed => Counted(row, record[b])
  BY <1>1, <1>4, CountsAreCounted DEF IInv, Sums, Counted
<1> HIDE DEF row
<1>6. Commits(w, b, {}, record[b], row)
  BY <1>1, <1>2, <1>3, <1>4, <1>5 DEF Commits
<1> QED  BY <1>6, CommitStep

\* Whatever a request was, committing it keeps the invariant.
LEMMA CommitReviewStep == ASSUME IInv, NEW w \in Slots, CommitReview(w) PROVE IInv'
<1> DEFINE r == slot[w].request
<1>1. slot[w] # Idle /\ Leaves(w)
  BY DEF CommitReview, Leaves
<1>2. disturbed' = IF Redecides(r) THEN disturbed \cup {r.batch} ELSE disturbed
  BY DEF CommitReview
<1>3. r.op # "patch" => UNCHANGED disturbed
  BY <1>2 DEF Redecides
<1>4. CASE r.op = "confirm" /\ ConfirmRecords(slot[w], r)
  BY <1>1, <1>3, <1>4, ConfirmStep
<1>5. CASE r.op = "reject" /\ RejectRecords(slot[w], r)
  BY <1>1, <1>3, <1>5, RejectStep
<1>6. CASE r.op = "patch" /\ PatchRecord(slot[w], r)
  BY <1>1, <1>2, <1>6, PatchStep
<1>7. CASE r.op = "account" /\ PatchBatch(r)
  BY <1>1, <1>3, <1>7, PatchBatchStep
<1>8. CASE r.op = "replace" /\ ReplaceExisting(slot[w], r)
  BY <1>1, <1>3, <1>8, ReplaceStep
<1> QED  BY <1>4, <1>5, <1>6, <1>7, <1>8 DEF CommitReview

-----------------------------------------------------------------------------
(***************************************************************************)
(* The theorems.                                                           *)
(***************************************************************************)

\* Nothing uploaded, nothing to be wrong about.
LEMMA InitInvariant == Init => IInv
<1> SUFFICES ASSUME Init PROVE IInv
  OBVIOUS
<1> USE DEF Init
<1>1. Types
  <2>1. batch \in [{b \in Batches : upload[b] = "over"} -> BatchRow]
    <3>1. {b \in Batches : upload[b] = "over"} = {}
      OBVIOUS
    <3> QED  BY <3>1
  <2>2. job \in [Batches -> JobRow]
    BY DEF NoRead, JobRow, JobState
  <2>3. MaxRequests \in Nat /\ MaxCrashes \in Nat
    BY ImportsAssumption
  <2> QED  BY <2>1, <2>2, <2>3 DEF Types
<1>2. Places
  BY <1>1 DEF Places, Referring, Backed, Unborn, Reading, NoRead
<1>3. Calm
  BY DEF Calm, Current, Alone, Fresh
<1>4. Sums
  BY DEF Sums, NothingDropped, ImportedOnce, CountsExact
<1> QED  BY <1>2, <1>3, <1>4 DEF IInv

\* Every step of uploads, jobs, workers and requests keeps the invariant.
LEMMA NextInvariant == IInv /\ [Next]_vars => IInv'
<1> SUFFICES ASSUME IInv, [Next]_vars PROVE IInv'
  OBVIOUS
<1>1. CASE UNCHANGED vars
  <2> USE <1>1 DEF vars, tables
  <2>1. Places'
    BY DEF IInv, Places, Types, Referring, Backed, Unborn, Reading, Read
  <2>2. Calm'
    BY DEF IInv, Calm, Current, Alone, Fresh
  <2>3. NothingDropped' /\ CountsExact'
    BY DEF IInv, Sums, NothingDropped, CountsExact
  <2>4. ImportedOnce'
    BY DEF IInv, Sums, ImportedOnce, ImportedFrom
  <2> QED  BY <2>1, <2>2, <2>3, <2>4 DEF IInv, Sums
<1>2. ASSUME NEW b \in Batches,
             BeginUpload(b) \/ CommitUpload(b) \/ WorkOn(b) \/ CutOff(b) \/ Crash(b)
      PROVE  IInv'
  BY <1>2, BeginUploadStep, CommitUploadStep, TakeJobStep, ReadLedgerStep, StoreRecordsStep,
     LeavingStep DEF WorkOn
<1>3. ASSUME NEW b \in DOMAIN batch, NEW w \in Slots, NEW r \in ReviewRequests(b), BeginReview(w, r)
      PROVE  IInv'
  BY <1>3, BeginReviewStep
<1>4. ASSUME NEW w \in Slots, CommitReview(w) \/ AbortReview(w) PROVE IInv'
  BY <1>4, CommitReviewStep, AbortReviewStep
<1> QED  BY <1>1, <1>2, <1>3, <1>4 DEF Next

\* Requests, jobs and crashes in any order keep batches, records and ledger in
\* agreement, and what a request has read of an undisturbed batch in date.
THEOREM InvariantHolds == Spec => []IInv
BY InitInvariant, NextInvariant, PTL DEF Spec

\* A row has its columns' types, and a record refers to a transaction there is.
LEMMA InvariantTypes == IInv => TypeOK
<1> SUFFICES ASSUME IInv PROVE TypeOK
  OBVIOUS
<1>1. /\ record \in [Batches -> Seq(RecordRow)] /\ ledger \in Seq(EntryRow) /\ Len(ledger) \in Nat
      /\ job \in [Batches -> JobRow]
  BY DEF IInv, Places, Types
<1>2. ASSUME NEW b \in Batches, NEW n \in DOMAIN record[b]
      PROVE  /\ record[b][n].line \in Line \cup {Broken}
             /\ record[b][n].status \in RecordStatus
             /\ record[b][n].txn \in 0..Len(ledger)
             /\ record[b][n].byHand \in BOOLEAN
  <2>1. record[b][n] \in RecordRow /\ record[b][n].txn <= Len(ledger)
    BY <1>1 DEF IInv, Places, Referring
  <2> QED  BY <1>1, <2>1 DEF RecordRow
<1>3. ASSUME NEW t \in DOMAIN ledger PROVE ledger[t].amount \in Int /\ ledger[t].live \in BOOLEAN
  <2>1. ledger[t] \in EntryRow
    BY <1>1
  <2> QED  BY <2>1 DEF EntryRow
<1>4. \A b \in Batches : job[b].state \in JobState
  BY <1>1 DEF JobRow
<1> QED  BY <1>2, <1>3, <1>4 DEF TypeOK, JobState, IInv, Places, Types

\* Whatever the requests, jobs and crashes, rows have their types and no record
\* refers to a transaction there is not.
THEOREM TypesHold == Spec => []TypeOK
BY InvariantHolds, InvariantTypes, PTL

\* A completed batch has one record per line of its statement, and any other has
\* none, wherever its worker died.
THEOREM LinesAreKept == Spec => []NothingDropped
<1>1. IInv => NothingDropped
  BY DEF IInv, Sums
<1> QED  BY <1>1, InvariantHolds, PTL

\* A record makes one transaction, the one it refers to, exactly if it is confirmed.
THEOREM RecordsImportOnce == Spec => []ImportedOnce
<1>1. IInv => ImportedOnce
  BY DEF IInv, Sums
<1> QED  BY <1>1, InvariantHolds, PTL

\* The counters of a batch agree with its records.
THEOREM CountsHold == Spec => []CountsExact
<1>1. IInv => CountsExact
  BY DEF IInv, Sums
<1> QED  BY <1>1, InvariantHolds, PTL

\* The finding ReimportIsFlagged is due to time zones ahead of UTC alone: with none,
\* every line a live transaction was made from is flagged.
THEOREM ReimportIsFlaggedBehindUtc ==
    ASSUME UtcOffset \in -12..0
    PROVE  Spec => ReimportIsFlagged
<1> DEFINE Flagged ==
        \A b \in Batches : job[b].state = "taken" /\ job'[b].state = "read" =>
          \A n \in DOMAIN Statement[b] :
              (\E t \in LiveEntries : ledger[t].line = Statement[b][n]) => n \in job'[b].found
<1>1. \A day \in Int : UtcDay(day) = day
  <2>1. \A day \in Int : (24 * day - UtcOffset) \div 24 = day
    OBVIOUS
  <2> QED  BY <2>1 DEF UtcDay
<1>2. ASSUME IInv, [Next]_vars PROVE [Flagged]_vars
  <2> SUFFICES ASSUME NEW b \in Batches, job[b].state = "taken", job'[b].state = "read",
                      NEW n \in DOMAIN Statement[b], NEW t \in LiveEntries,
                      ledger[t].line = Statement[b][n]
               PROVE  n \in job'[b].found
    OBVIOUS
  <2>1. job \in [Batches -> JobRow] /\ ledger \in Seq(EntryRow) /\ t \in DOMAIN ledger
    BY <1>2 DEF IInv, Places, Types, LiveEntries
  <2>2. ReadLedger(b)
    <3>1. PICK c \in Batches : BeginUpload(c) \/ WorkOn(c) \/ CutOff(c) \/ Crash(c)
      BY <1>2 DEF Next, vars, CommitUpload, BeginReview, CommitReview, AbortReview
    <3>2. ASSUME NEW state, state # "read", Leave(c, state) PROVE FALSE
      BY <2>1, <3>2 DEF Leave, NoRead
    <3>3. ~BeginUpload(c)
      BY <2>1 DEF BeginUpload, JobRow
    <3>4. ~TakeJob(c)
      BY <2>1, <3>2 DEF TakeJob
    <3>5. ~(StoreRecords(c) \/ FailJob(c) \/ CutOff(c) \/ AckJob(c) \/ Crash(c))
      BY <3>2 DEF StoreRecords, FailJob, CutOff, AckJob, Crash
    <3>6. ReadLedger(c) => c = b
      BY <2>1 DEF ReadLedger
    <3> QED  BY <3>1, <3>3, <3>4, <3>5, <3>6 DEF WorkOn
  <2>3. /\ ledger[t].day = UtcDay(ledger[t].line.day)
        /\ ledger[t].amount = ledger[t].line.amount
    BY <1>2, <2>1 DEF IInv, Places, Backed
  <2>4. Statement[b][n] \in Line
    BY ImportsAssumption
  <2>5. Statement[b][n].day \in Int
    BY <2>4 DEF Line
  <2>6. t \in Duplicates(Statement[b][n])
    BY <1>1, <2>3, <2>5 DEF Duplicates
  <2> QED  BY <2>1, <2>2, <2>6 DEF ReadLedger
<1> QED  BY <1>2, InvariantHolds, PTL DEF Spec, ReimportIsFlagged
=============================================================================
