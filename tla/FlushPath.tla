----------------------------- MODULE FlushPath -----------------------------
(***************************************************************************)
(* The durable path of one table, from an accepted record to a committed   *)
(* Iceberg snapshot: the staging rows, the sealed batches, the local spool *)
(* (file and row), the objects in the bucket and the table's snapshots,    *)
(* with the process that moves records along it and may die between any    *)
(* two of its steps, and with the operations that may fail under it.       *)
(*                                                                         *)
(* One table, one process at a time (the library's own rule).  The worker  *)
(* goroutine's queue is modelled with its contents; when it wakes and who  *)
(* waits for it is FlushWorker's subject, so here an attempt at the head   *)
(* of the queue may start whenever the worker is between attempts.         *)
(***************************************************************************)
EXTENDS Naturals, Sequences, FiniteSets

CONSTANTS
    MaxRow,       \* bound: staged row ids are 1..MaxRow
    Payload,      \* row id -> the canonical encoding of its record
    Bad,          \* row ids whose record the batch encoder refuses
    Modes,        \* configurations this data directory may be started in
    MaxInsert,    \* bound: records in one InsertBatch
    MaxRecords,   \* FlushPolicy.MaxRecords: the size that triggers a seal
    Ceiling,      \* Config.StagingMaxRecords
    FailAt,       \* operations that may fail: the worker's steps, and the
                  \* answers of an "insert" and of a "seal"
    MaxFaults,    \* bound: operations that fail, over a whole behaviour
    MaxCrashes    \* bound: process crashes, over a whole behaviour

Row == 1..MaxRow

\* BatchHash: a batch's key is its records' encodings in batch order, and batch
\* order is row id order.  The digest is taken as collision free and stands for
\* its own input, written as the set of (position, payload) pairs.
Rank(r, S) == Cardinality({q \in S : q <= r})
BatchHashLengthOnly(S) == {<<Rank(r, S), 0>> : r \in S}
BatchHash(S) == {<<Rank(r, S), Payload[r]>> : r \in S}

\* batch_key IS NULL, and a job whose key is still empty: no batch is empty, so
\* no batch has the key of the empty batch.
NoKey == {}

ASSUME FlushPathAssumption ==
    /\ MaxRow \in Nat
    /\ Bad \subseteq Row
    /\ Modes \subseteq {"bucket", "spooled", "local"}
    /\ MaxInsert \in Nat /\ MaxRecords \in Nat /\ Ceiling \in Nat
    /\ MaxFaults \in Nat /\ MaxCrashes \in Nat

VARIABLES
    \* staging.db
    nextId,       \* the next AUTOINCREMENT id
    staged,       \* ids of the rows in table staging
    batchKey,     \* their batch_key column
    quarantined,  \* those with quarantined_at set
    spoolRow,     \* table spool_files: [key, at, committed] records
    clock,        \* the millisecond after the last spool row's created_at
    \* the cache directory, the bucket and the catalog
    file,         \* spool files on disk: [key, rows]
    object,       \* data files in the bucket: [key, rows]
    log,          \* the table's snapshots: the data file each one added
    \* the process
    mode,         \* "down", or the configuration it was started in
    owner,        \* who holds the table's slot in the store's registry
    batch,        \* Writer.batch: accepted rows not yet sealed
    queue,        \* Worker.queue: jobs, head first
    pc,           \* the worker's next operation on the head job
    base,         \* how many snapshots the worker's table handle knows of
    drainKey,     \* the backlog file being drained
    held,         \* Store.records: what is charged against the ceiling
    \* bounds, and what is kept for the properties
    faults, crashes,
    unanswered    \* ids staged by an insert that was answered with a failure

staging == <<nextId, staged, batchKey, quarantined>>
spool   == <<spoolRow, clock, file>>
lake    == <<object, log>>
process == <<mode, owner, batch, queue, pc, base, drainKey, held>>
bounds  == <<faults, crashes, unanswered>>
vars    == <<staging, spool, lake, process, bounds>>

Key == {BatchHash(S) : S \in SUBSET Row}

DataFiles == [key: Key, rows: SUBSET Row]

SpoolRows == [key: Key, at: Nat, committed: BOOLEAN]

Job == [key: Key, rows: SUBSET Row,
        replayed: BOOLEAN, attempted: BOOLEAN]

NewJob(S) == [key |-> NoKey, rows |-> S, replayed |-> FALSE, attempted |-> FALSE]

\* The rows of table staging that carry key k: one sealed batch.
Sealed(k) == {r \in staged : batchKey[r] = k}

\* What writing a name does to a directory or a bucket: replace or add.
Put(S, k, rows) == {x \in S : x.key # k} \cup {[key |-> k, rows |-> rows]}

\* alreadyCommitted: the first n snapshots reference data file k.
Committed(k, n) == \E i \in 1..n : log[i].key = k

\* Scan refuses a store in which a sealed batch is only partly quarantined.
ScanAccepts ==
    \A r \in quarantined, q \in staged \ quarantined :
        batchKey[r] # NoKey => batchKey[q] # batchKey[r]

(***************************************************************************)
(* The process: starting, stopping, dying.                                 *)
(***************************************************************************)
NoWriter ==
    /\ batch' = {}
    /\ queue' = <<>>
    /\ pc' = "idle"
    /\ base' = 0
    /\ drainKey' = NoKey

SeededCountLive == Cardinality(staged \ quarantined)
SeededCount == Cardinality(staged)

\* Open: one scan of staging seeds the ceiling counter, quarantined rows
\* included, and refuses a partly quarantined batch.
Open(m) ==
    /\ mode = "down"
    /\ ScanAccepts
    /\ mode' = m
    /\ held' = SeededCount
    /\ UNCHANGED <<staging, spool, lake, owner, batch, queue, pc, base, drainKey, bounds>>

\* Store.Close once every writer has been closed.  It does not wait for a claim,
\* whose holder fails on its next call to the database: DrainFail, and then this.
StoreClose ==
    /\ mode # "down" /\ owner = "none"
    /\ mode' = "down"
    /\ held' = 0
    /\ UNCHANGED <<staging, spool, lake, owner, batch, queue, pc, base, drainKey, bounds>>

\* The process is killed; what it held in memory is gone.
Crash ==
    /\ mode # "down"
    /\ crashes < MaxCrashes
    /\ crashes' = crashes + 1
    /\ mode' = "down" /\ owner' = "none" /\ held' = 0
    /\ NoWriter
    /\ UNCHANGED <<staging, spool, lake, faults, unanswered>>

(***************************************************************************)
(* Opening the table: claim its slot, drain the spool backlog, load the    *)
(* table, scan staging and hand the writer what it finds.                  *)
(***************************************************************************)
Claim(o) ==
    /\ mode # "down" /\ owner = "none"
    /\ owner' = o
    /\ UNCHANGED <<staging, spool, lake, mode, batch, queue, pc, base, drainKey, held, bounds>>

ClaimForWriter == Claim("opening")

\* DrainSpool answers ErrLocalOnly in local-only mode and does nothing without
\* a cache directory.
ClaimForDrain ==
    /\ mode = "spooled"
    /\ \E s \in spoolRow : ~s.committed
    /\ Claim("draining")

\* Batch keys a live staged row carries: those files belong to replay.
StagedKeys == {batchKey[r] : r \in staged \ quarantined} \ {NoKey}

\* The files never committed, which are walked oldest first; between two of one
\* millisecond the order of their keys decides, which says nothing of theirs.
BacklogNotUploaded ==
    {s \in spoolRow : mode = "spooled" /\ ~s.committed /\ \A o \in object : o.key # s.key}
Backlog ==
    IF mode # "spooled" THEN {}
    ELSE {s \in spoolRow : ~s.committed /\ s.key \notin StagedKeys}

OldestAny(S) == S
Oldest(S) == {s \in S : \A t \in S : s.at <= t.at}

Draining == owner \in {"opening", "draining"}

\* drainFile: bring the table to the file's shape, read the file, upload it.
DrainUpload ==
    /\ Draining /\ drainKey = NoKey
    /\ ScanAccepts
    /\ \E s \in Oldest(Backlog), f \in file :
        /\ f.key = s.key
        /\ object' = Put(object, f.key, f.rows)
        /\ drainKey' = f.key
    /\ UNCHANGED <<staging, spool, log, mode, owner, batch, queue, pc, base, held, bounds>>

\* The table was loaded for this file, so the check sees every snapshot.
DrainCommit ==
    /\ Draining /\ drainKey # NoKey
    /\ \E f \in file :
        /\ f.key = drainKey
        /\ log' = IF Committed(drainKey, Len(log)) THEN log ELSE Append(log, f)
    /\ pc' = "mark"
    /\ UNCHANGED <<staging, spool, object, mode, owner, batch, queue, base, drainKey, held, bounds>>

\* MarkSpoolFileCommitted, by batch key.
Mark(k) ==
    spoolRow' = {IF s.key = k THEN [s EXCEPT !.committed = TRUE] ELSE s : s \in spoolRow}

DrainMark ==
    /\ Draining /\ pc = "mark"
    /\ Mark(drainKey)
    /\ drainKey' = NoKey
    /\ pc' = "idle"
    /\ UNCHANGED <<staging, clock, file, lake, mode, owner, batch, queue, base, held, bounds>>

\* Any step of the drain, or of the open around it, fails: the slot is given
\* back and what has been committed stays committed.
DrainFail ==
    /\ Draining
    /\ faults < MaxFaults
    /\ faults' = faults + 1
    /\ owner' = "none"
    /\ NoWriter
    /\ UNCHANGED <<staging, spool, lake, mode, held, crashes, unanswered>>

DrainSpoolDone ==
    /\ owner = "draining" /\ drainKey = NoKey /\ Backlog = {}
    /\ owner' = "none"
    /\ UNCHANGED <<staging, spool, lake, mode, batch, queue, pc, base, drainKey, held, bounds>>

\* What Scan makes of the sealed rows: one replayed job per batch key.
PendingJobs ==
    {[key |-> k, rows |-> Sealed(k) \ quarantined, replayed |-> TRUE, attempted |-> FALSE] :
        k \in StagedKeys}

Precedes(a, b) == \E r \in a.rows : \A s \in b.rows : r < s

\* OpenWriter's last steps and replay: sealed batches are queued in the order
\* of their first row, the unsealed tail becomes the current batch.
StartWriter ==
    /\ owner = "opening" /\ drainKey = NoKey /\ Backlog = {}
    /\ ScanAccepts
    /\ owner' = "writer"
    /\ base' = Len(log)
    /\ batch' = {r \in staged \ quarantined : batchKey[r] = NoKey}
    /\ \E q \in [1..Cardinality(PendingJobs) -> PendingJobs] :
        /\ \A i, j \in DOMAIN q : i < j => Precedes(q[i], q[j])
        /\ queue' = q
    /\ UNCHANGED <<staging, spool, lake, mode, pc, drainKey, held, bounds>>

(***************************************************************************)
(* The writer.                                                             *)
(***************************************************************************)
\* sealLocked: hand the rows to the worker, start an empty batch.
SealInto(S) ==
    IF S = {} THEN batch' = {} /\ UNCHANGED queue
    ELSE batch' = {} /\ queue' = Append(queue, NewJob(S))

\* Insert (n = 1) and InsertBatch: charge the ceiling, stage the rows in one
\* transaction, and trigger when the batch is large enough and the flush floor
\* has elapsed.  A refusal, and a transaction that is rolled back (its charge is
\* given back), change nothing.
Insert(n) ==
    LET new == nextId..(nextId + n - 1) IN
    /\ owner = "writer"
    /\ nextId + n - 1 <= MaxRow
    /\ held + n <= Ceiling
    /\ held' = held + n
    /\ nextId' = nextId + n
    /\ staged' = staged \cup new
    /\ \/ Cardinality(batch \cup new) >= MaxRecords /\ SealInto(batch \cup new)
       \/ batch' = batch \cup new /\ UNCHANGED queue
    /\ UNCHANGED <<batchKey, quarantined, spool, lake, mode, owner, pc, base, drainKey, bounds>>

\* The transaction lands and its COMMIT answers with an error: the charge is
\* given back and the writer keeps no trace of the rows, which stay staged.  The
\* table's next open finds them, and the store's next open counts them.
InsertAnswerLost(n) ==
    LET new == nextId..(nextId + n - 1) IN
    /\ owner = "writer" /\ "insert" \in FailAt
    /\ faults < MaxFaults
    /\ faults' = faults + 1
    /\ nextId + n - 1 <= MaxRow
    /\ held + n <= Ceiling
    /\ nextId' = nextId + n
    /\ staged' = staged \cup new
    /\ unanswered' = unanswered \cup new
    /\ UNCHANGED <<batchKey, quarantined, spool, lake, process, crashes>>

\* The timer's tick once the floor has elapsed, and Flush.
Trigger ==
    /\ owner = "writer" /\ batch # {}
    /\ SealInto(batch)
    /\ UNCHANGED <<staging, spool, lake, mode, owner, pc, base, drainKey, held, bounds>>

\* Writer.Close: no more records, and one last seal.
StartClose ==
    /\ owner = "writer"
    /\ owner' = "closing"
    /\ SealInto(batch)
    /\ UNCHANGED <<staging, spool, lake, mode, pc, base, drainKey, held, bounds>>

CloseDrained ==
    /\ owner = "closing" /\ queue = <<>>
    /\ owner' = "none"
    /\ NoWriter
    /\ UNCHANGED <<staging, spool, lake, mode, held, bounds>>

\* Wait answers with the failure of the batch at the head, which stays staged.
CloseReported ==
    /\ owner = "closing" /\ queue # <<>>
    /\ pc = "idle" /\ Head(queue).attempted
    /\ owner' = "none"
    /\ NoWriter
    /\ UNCHANGED <<staging, spool, lake, mode, held, bounds>>

\* The drain's context expires first: the worker's operation in flight is
\* cancelled and its goroutine exits before the slot is given back.
CloseExpired ==
    /\ owner = "closing" /\ queue # <<>>
    /\ faults < MaxFaults
    /\ faults' = faults + 1
    /\ owner' = "none"
    /\ NoWriter
    /\ UNCHANGED <<staging, spool, lake, mode, held, crashes, unanswered>>

(***************************************************************************)
(* The worker's attempt at the head of its queue (process and prepare).    *)
(***************************************************************************)
Working == owner \in {"writer", "closing"} /\ queue # <<>>

At(p) == Working /\ pc = p

Current == Head(queue)

\* The attempt ended without finishing the batch, which keeps its place.
GiveUp ==
    /\ queue' = [queue EXCEPT ![1].attempted = TRUE]
    /\ pc' = "idle"

\* The batch left the queue.
Finished ==
    /\ queue' = Tail(queue)
    /\ pc' = "idle"

\* A batch this process has tried before, or was handed by a replay, may
\* already be in the table.
MustCheckReplayed(j) == mode # "local" /\ j.replayed
MustCheck(j) == mode # "local" /\ (j.attempted \/ j.replayed)

\* The rows of the job can be read back and, when it has no key yet, stamped.
Sealable(j) ==
    /\ j.rows \subseteq staged
    /\ j.key = NoKey => \A r \in j.rows : batchKey[r] = NoKey /\ r \notin quarantined

KeyOfRowIds(j) == IF j.key = NoKey THEN {<<r, Payload[r]>> : r \in j.rows} ELSE j.key
KeyOf(j) == IF j.key = NoKey THEN BatchHash(j.rows) ELSE j.key

\* Seal: stamp exactly the rows of a batch that has no key yet.
SealRows(j) ==
    batchKey' = IF j.key = NoKey
                THEN [r \in Row |-> IF r \in j.rows THEN KeyOf(j) ELSE batchKey[r]]
                ELSE batchKey

\* prepare: read the rows back and seal a batch that is not sealed yet.
Prepare ==
    /\ At("idle") /\ Sealable(Current)
    /\ SealRows(Current)
    /\ queue' = [queue EXCEPT ![1].key = KeyOf(Current)]
    /\ pc' = IF MustCheck(Current) THEN "check" ELSE "encode"
    /\ UNCHANGED <<nextId, staged, quarantined, spool, lake, mode, owner, batch, base, drainKey, held, bounds>>

\* The seal lands and its COMMIT answers with an error: prepare returns no key,
\* so the rows are stamped and the job is not.
SealAnswerLost ==
    /\ At("idle") /\ Sealable(Current) /\ Current.key = NoKey
    /\ "seal" \in FailAt
    /\ faults < MaxFaults
    /\ faults' = faults + 1
    /\ SealRows(Current)
    /\ GiveUp
    /\ UNCHANGED <<nextId, staged, quarantined, spool, lake, mode, owner, batch, base, drainKey, held, crashes, unanswered>>

\* A job whose seal's answer was lost.
Stranded(j) == j.key = NoKey /\ \E r \in j.rows : batchKey[r] # NoKey

\* A row is gone, or carries a key the job does not know of: this attempt fails,
\* and so will every later one of this writer.
PrepareRefused ==
    /\ At("idle") /\ ~Sealable(Current)
    /\ GiveUp
    /\ UNCHANGED <<staging, spool, lake, mode, owner, batch, base, drainKey, held, bounds>>

Check ==
    /\ At("check")
    /\ pc' = IF Committed(Current.key, base) THEN "mark" ELSE "encode"
    /\ UNCHANGED <<staging, spool, lake, mode, owner, batch, queue, base, drainKey, held, bounds>>

Encodes(j) == j.rows \cap Bad = {}

MarkedOffending(j) == j.rows \cap Bad
Marked(j) == j.rows

\* A batch that cannot be encoded is marked in place, whole; marking part of a
\* sealed batch is refused and the attempt fails instead.  prepare finds rows it
\* cannot decode or bring to the current shape, sealed or not yet; the encoder
\* finds the rest.  Of a stranded job prepare found nothing wrong before it
\* sealed, and it never gets past the seal again.
Quarantine ==
    /\ (At("idle") /\ ~Stranded(Current)) \/ At("encode")
    /\ Current.rows \subseteq staged /\ ~Encodes(Current)
    /\ IF \A r \in Current.rows :
            batchKey[r] # NoKey => Sealed(batchKey[r]) \subseteq Current.rows
       THEN quarantined' = quarantined \cup Marked(Current) /\ Finished
       ELSE UNCHANGED quarantined /\ GiveUp
    /\ UNCHANGED <<nextId, staged, batchKey, spool, lake, mode, owner, batch, base, drainKey, held, bounds>>

\* Spool.Write: the file under its final name, and only then its row.
SpoolFile ==
    /\ At("encode") /\ Encodes(Current) /\ mode \in {"spooled", "local"}
    /\ file' = Put(file, Current.key, Current.rows)
    /\ pc' = "spoolrow"
    /\ UNCHANGED <<staging, spoolRow, clock, lake, mode, owner, batch, queue, base, drainKey, held, bounds>>

\* RecordSpoolFile: an existing row keeps its created_at and committed_at; a new
\* one may be written in the millisecond of the one before.
CreatedAt == {clock} \cup ({clock - 1} \cap {s.at : s \in spoolRow})

SpoolRow ==
    /\ At("spoolrow")
    /\ IF \E s \in spoolRow : s.key = Current.key
       THEN UNCHANGED <<spoolRow, clock>>
       ELSE \E at \in CreatedAt :
              /\ spoolRow' = spoolRow \cup {[key |-> Current.key, at |-> at, committed |-> FALSE]}
              /\ clock' = at + 1
    /\ pc' = IF mode = "local" THEN "prune" ELSE "upload"
    /\ UNCHANGED <<staging, file, lake, mode, owner, batch, queue, base, drainKey, held, bounds>>

Upload ==
    /\ At("upload") \/ (At("encode") /\ Encodes(Current) /\ mode = "bucket")
    /\ object' = Put(object, Current.key, Current.rows)
    /\ pc' = "commit"
    /\ UNCHANGED <<staging, spool, log, mode, owner, batch, queue, base, drainKey, held, bounds>>

DataFile(j) == [key |-> j.key, rows |-> j.rows]

\* refresh: how many snapshots the handle knows of once it has been reloaded.
ReloadedStale == base
Reloaded == Len(log)

\* A commit lands only on the snapshot its handle was loaded at.
Commit ==
    /\ At("commit") /\ base = Len(log)
    /\ log' = Append(log, DataFile(Current))
    /\ base' = Len(log')
    /\ pc' = "mark"
    /\ UNCHANGED <<staging, spool, object, mode, owner, batch, queue, drainKey, held, bounds>>

\* The commit lands and its answer does not: the attempt fails, and the reload
\* that follows a failed commit is best effort.
CommitAnswerLost ==
    /\ At("commit") /\ base = Len(log) /\ "commit" \in FailAt
    /\ faults < MaxFaults
    /\ faults' = faults + 1
    /\ log' = Append(log, DataFile(Current))
    /\ base' \in {base, Len(log')}
    /\ GiveUp
    /\ UNCHANGED <<staging, spool, object, mode, owner, batch, drainKey, held, crashes, unanswered>>

\* The handle is behind the table: the commit is refused and the handle is
\* reloaded.  (The reload failing too is Fail at the commit.)
CommitConflict ==
    /\ At("commit") /\ base # Len(log)
    /\ base' = Reloaded
    /\ GiveUp
    /\ UNCHANGED <<staging, spool, lake, mode, owner, batch, drainKey, held, bounds>>

\* markSpooled, which does nothing without a cache directory.
MarkSpooled ==
    /\ At("mark")
    /\ IF mode = "bucket" THEN UNCHANGED spoolRow ELSE Mark(Current.key)
    /\ pc' = "prune"
    /\ UNCHANGED <<staging, clock, file, lake, mode, owner, batch, queue, base, drainKey, held, bounds>>

\* Delete, the first half of prune.
Prune ==
    /\ At("prune")
    /\ staged' = staged \ Current.rows
    /\ pc' = "schemas"
    /\ UNCHANGED <<nextId, batchKey, quarantined, spool, lake, mode, owner, batch, queue, base, drainKey, held, bounds>>

Release(n) == IF held < n THEN 0 ELSE held - n

\* PruneSchemas, the second half, then the committed callback and finish.
Finish ==
    /\ At("schemas")
    /\ held' = Release(Cardinality(Current.rows))
    /\ Finished
    /\ UNCHANGED <<staging, spool, lake, mode, owner, batch, base, drainKey, bounds>>

\* The operation the worker is at fails, or the one before it took effect and
\* answered with an error.  Nothing is undone, and a job that has its key keeps
\* it.  (The answer of the seal itself is SealAnswerLost's; a quarantine whose
\* answer is lost is made again, over the same marks.)
Fail ==
    /\ Working /\ pc \in FailAt
    /\ faults < MaxFaults
    /\ faults' = faults + 1
    /\ GiveUp
    /\ UNCHANGED <<staging, spool, lake, mode, owner, batch, base, drainKey, held, crashes, unanswered>>

(***************************************************************************)
(* The retention sweeper, which runs in every process with a bucket and a  *)
(* cache directory, whoever owns the table.  Which committed file is over  *)
(* the age or the size bound is left open.                                 *)
(***************************************************************************)
EvictableAny(s) == TRUE
Evictable(s) == s.committed

EvictFile(s) ==
    /\ mode = "spooled" /\ Evictable(s)
    /\ \E f \in file : f.key = s.key
    /\ file' = {f \in file : f.key # s.key}
    /\ UNCHANGED <<staging, spoolRow, clock, lake, process, bounds>>

EvictRow(s) ==
    /\ mode = "spooled" /\ Evictable(s)
    /\ \A f \in file : f.key # s.key
    /\ spoolRow' = spoolRow \ {s}
    /\ UNCHANGED <<staging, clock, file, lake, process, bounds>>

(***************************************************************************)
Init ==
    /\ nextId = 1 /\ staged = {} /\ quarantined = {}
    /\ batchKey = [r \in Row |-> NoKey]
    /\ spoolRow = {} /\ clock = 0 /\ file = {}
    /\ object = {} /\ log = <<>>
    /\ mode = "down" /\ owner = "none" /\ held = 0
    /\ batch = {} /\ queue = <<>> /\ pc = "idle" /\ base = 0 /\ drainKey = NoKey
    /\ faults = 0 /\ crashes = 0 /\ unanswered = {}

Worker ==
    \/ Prepare \/ PrepareRefused \/ Check \/ Quarantine
    \/ SpoolFile \/ SpoolRow \/ Upload
    \/ Commit \/ CommitConflict
    \/ MarkSpooled \/ Prune \/ Finish

Drain == DrainUpload \/ DrainCommit \/ DrainMark \/ DrainSpoolDone

Caller ==
    \/ StoreClose \/ ClaimForWriter \/ ClaimForDrain
    \/ \E m \in Modes : Open(m)
    \/ \E n \in 1..MaxInsert : Insert(n)
    \/ Trigger \/ StartWriter \/ StartClose \/ CloseDrained \/ CloseReported

Sweeper == \E s \in spoolRow : EvictFile(s) \/ EvictRow(s)

Fault ==
    \/ Crash \/ DrainFail \/ CloseExpired \/ CommitAnswerLost \/ Fail
    \/ SealAnswerLost
    \/ \E n \in 1..MaxInsert : InsertAnswerLost(n)

Next == Worker \/ Drain \/ Caller \/ Sweeper \/ Fault

Spec == Init /\ [][Next]_vars

(***************************************************************************)
(* Fairness.  The worker goroutine and a drain under way keep running, the *)
(* writer's timer keeps ticking and a close that has started ends.  Of its *)
(* caller the library needs that a store that is down is opened again and  *)
(* its table with it.                                                      *)
(***************************************************************************)
Fairness ==
    /\ WF_vars(Worker) /\ WF_vars(Drain)
    /\ WF_vars(Trigger)
    /\ WF_vars(CloseDrained) /\ WF_vars(CloseReported)
    /\ WF_vars(\E m \in Modes : Open(m))
    /\ SF_vars(ClaimForWriter) /\ WF_vars(StartWriter)

FairSpec == Spec /\ Fairness

(***************************************************************************)
(* What the path is for.                                                   *)
(***************************************************************************)
Delivered == UNION {log[i].rows : i \in DOMAIN log}

\* Records a spool file still owes the bucket.
Spooled == UNION {f.rows : f \in {g \in file :
                      \E s \in spoolRow : s.key = g.key /\ ~s.committed}}

\* Every variable stays in its domain; file, spool row and object are keyed.
TypeOK ==
    /\ nextId \in 1..(MaxRow + 1)
    /\ staged \in SUBSET Row /\ quarantined \in SUBSET Row
    /\ batchKey \in [Row -> Key]
    /\ spoolRow \in SUBSET SpoolRows
    /\ clock \in Nat
    /\ file \in SUBSET DataFiles
    /\ object \in SUBSET DataFiles
    /\ log \in Seq(DataFiles)
    /\ mode \in {"down"} \cup Modes
    /\ owner \in {"none", "opening", "draining", "writer", "closing"}
    /\ batch \in SUBSET Row
    /\ queue \in Seq(Job)
    /\ pc \in {"idle", "check", "encode", "spoolrow", "upload", "commit", "mark", "prune", "schemas"}
    /\ base \in Nat
    /\ drainKey \in Key
    /\ held \in Nat
    /\ faults \in 0..MaxFaults /\ crashes \in 0..MaxCrashes
    /\ unanswered \in SUBSET Row

\* A record that was staged is staged, or readable from the table, or in a
\* spool file that is still owed to the bucket, whatever failed or died since:
\* nothing is pruned, evicted or marked ahead of the step that makes it safe.
NoRecordLost == 1..(nextId - 1) \subseteq staged \cup Delivered \cup Spooled

\* No record is in two snapshots, whatever was retried, replayed or drained: the
\* already-committed check covers every way a batch can come back.
CommittedOnce ==
    \A i, j \in DOMAIN log : i # j => log[i].rows \cap log[j].rows = {}

\* A record that was accepted is never lost and never committed twice.
ExactlyOnce == NoRecordLost /\ CommittedOnce

\* The object a committed data file names holds the records that were committed
\* under it: no later upload overwrites it with another batch.
CommittedFilesReadable ==
    \A i \in DOMAIN log : \E o \in object : o.key = log[i].key /\ o.rows = log[i].rows

\* A spool row that the drain will walk has its file: evict never removes the
\* file of a row not marked committed, and Write never records a row first.
BacklogFilesPresent ==
    \A s \in spoolRow : ~s.committed => \E f \in file : f.key = s.key

\* What the catalog and the spool's rows point to is there and is what they say,
\* whichever of upload, commit, mark and evict a failure or a kill fell between.
FilesStand == CommittedFilesReadable /\ BacklogFilesPresent

\* The store can always be opened: no quarantine leaves a sealed batch partly
\* marked, which is what Scan refuses.
QuarantinedWhole == ScanAccepts

\* The staging table never holds more than the configured ceiling, across
\* restarts and with quarantined rows counted, but for the records whose insert
\* was answered with a failure although it had landed: the charge of each is
\* given back once, and exceeding the ceiling takes one of them for each record.
StagingBounded == Cardinality(staged) <= Ceiling + Cardinality(unanswered)

\* A row that carries a batch key is part of a batch that hashes to that key, so
\* a replay uploads under a name that still describes its bytes.
SealedBatchWhole ==
    \A r \in staged : batchKey[r] # NoKey => BatchHash(Sealed(batchKey[r])) = batchKey[r]

\* A batch stays the batch it was sealed as: it is quarantined whole, and while
\* any of its rows is staged they all are.
BatchesWhole == QuarantinedWhole /\ SealedBatchWhole

\* A spool file leaves the disk only once a snapshot holds its records: marking
\* follows the commit and eviction follows the mark.
EvictedOnlyCommitted ==
    [][\A f \in file : f.rows \subseteq (UNION {g.rows : g \in file'}) \cup Delivered]_vars

\* Records reach the table in the order they were accepted: a commit never
\* overtakes an earlier record, other than one that was quarantined, one whose
\* insert was answered with a failure, one whose spool file was written in the
\* same millisecond or, in a process without a cache directory, one that only a
\* spool file holds.
SpooledWith(r) ==
    UNION {g.rows : g \in {g \in file : \E f \in file, s, t \in spoolRow :
        r \in f.rows /\ f.key = s.key /\ g.key = t.key /\ s.at = t.at}}
CommitsInOrder ==
    [][\A r \in Delivered' \ Delivered, q \in Row :
          q < r => q \in Delivered' \cup quarantined \cup unanswered \cup SpooledWith(r)
                         \cup (IF mode = "bucket" THEN Spooled \ staged ELSE {})]_vars

\* What moves, moves in order: after earlier records into the table, and off the
\* disk after its own commit.
MovesInOrder == CommitsInOrder /\ EvictedOnlyCommitted

\* What FlushPath promises the caller, with the mechanism taken away.
Promise == INSTANCE Delivery WITH
    Record <- Row,
    pending <- (staged \cup Spooled) \ (Delivered \cup quarantined),
    table <- [i \in DOMAIN log |-> log[i].rows],
    setAside <- quarantined

\* Every step of the path is a step of Delivery or invisible to it: a record
\* leaves the staging table and the spool only into a snapshot or a quarantine,
\* and no batch is delivered twice or after it was set aside.
ImplementsDelivery == Promise!Spec

\* The worker is at a head of its queue that prepare refuses: the answer of its
\* seal, or of its prune, was lost.
Refused == At("idle") /\ ~Sealable(Current)

\* Where a record may end: in a snapshot, in quarantine, or (where there is no
\* bucket to commit to) in the spool.
Settled == Delivered \cup quarantined \cup (Spooled \ staged)

\* An accepted record settles, whatever fails, dies and restarts, unless one
\* writer is kept open for ever on a head it refuses: a refusal costs nothing
\* that the next open does not mend.
EveryRecordSettles ==
    []<>~Refused =>
        \A r \in Row : (r < nextId /\ r \notin unanswered) ~> (r \in Settled)

\* The same with no reopening asked of the caller.
SettlesUnaided == \A r \in Row : (r < nextId /\ r \notin unanswered) ~> (r \in Settled)

\* A backlog left by local-only runs is committed once the data directory is
\* only ever opened with its bucket and its cache.
BacklogDrains ==
    <>[](mode \in {"down", "spooled"}) =>
        \A r \in Row : (r \in Spooled) ~> (r \in Delivered)

=============================================================================
