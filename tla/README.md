# icelake: TLA+ models and proofs

icelake is an embedded ingest library (with a daemon and a command line built on
it): a caller hands over records of a table, the library stages them durably in a
local SQLite file, and a background goroutine per table turns batches of them
into Parquet data files and Iceberg snapshots. Its promise is in the first page
of its own README: *kill the process at any point; the next start commits what
was accepted, exactly once*. These modules model the code that has to keep that
promise, check it on small instances with TLC, and prove parts of it with TLAPS.

Every definition was translated from the Go source. `PROJECT.json` gives, for each
definition that stands for code, the file and lines it translates; paths below
are relative to `src/`.

## 1. Inventory

### The parts, their state and their operations

| Part | Code | State | Operations |
|---|---|---|---|
| Staging database | `internal/staging` | SQLite `staging.db`: `staging` rows (id, payload, `batch_key`, `quarantined_at`), schema descriptors, `spool_files` (key, `created_at`, `committed_at`) | Append, Rows, Seal, Delete, Quarantine, PruneSchemas, Scan; RecordSpoolFile, MarkSpoolFileCommitted, Evict, Uncommitted |
| Spool directory and sweeper | `internal/spool` | Parquet files under the cache directory, one per batch key | Write (temp, rename, then row), Evict (file, then row), MarkCommitted; a sweep over age and size bounds |
| Flush path of one table | `internal/flush/flush.go` | the job (key, rows, replayed, attempted), the table handle | prepare and seal, already-committed check, encode or quarantine, mirror, spool, upload, commit, mark, prune |
| Flush worker goroutine | `internal/flush/worker.go` | queue, `enqueued`, `completed`, `failure`, `quarantined` notice, `failures`, `changed`, `wake` | Enqueue, Kick, Wait, Close; run, cycle, finish, notify, idle |
| Writer | `writer.go` | current batch, `closed`, timer, counters | Insert, InsertBatch, Flush, Close, the timer tick, replay, detach |
| Store | `store.go` | registry of table slots, staging ceiling counters | Open, OpenWriter, Close, reserve and release, registry claim and swap |
| Catalog access, schema evolution | `catalog.go` | the live table's columns | create, reconcile (add, rename, widen), verify |
| Spool drain | `drain.go` | the slot, held as a claim | the drain inside an open, DrainSpool |
| Stream ingest | `ingest.go`, `cbor.go`, `bind.go` | a bounded read buffer, the chunk, its groups, what is left of one, the accepted prefix | framing, chunking, truncation at a refused record, halving under backpressure |
| Records | `dynamic.go`, `poison.go`, `internal/canon/record.go`, `remap.go`, `internal/schemamap` | none | bind, check, encode, remap, build a column |
| Declarations and descriptors | `schemadoc.go`, `internal/schemamap`, `internal/canon/descriptor.go` | none; a descriptor is stored with the rows | declare by struct, by document, by descriptor; mirror names |
| Catalog rebuild | `rebuild`, `internal/metascan`, `internal/catalogdb` | a temporary catalog beside the old one and its log | find the current metadata file of each table, build, rename |
| Daemon processes | `cmd/icelake` (`daemon.go`, `daemonize.go`) | a pid file under a lock, a readiness pipe, the run's exit code | start, background, serve, drain, signal, exit |
| Settings, check, rebuild commands | `cmd/icelake` (`env.go`, `check.go`, `rebuild.go`), `config.go`, `inspect`, `rebuild/discover.go` | none | resolve an environment, validate, look, answer |
| Retry schedule | `internal/flush/retry.go` | none | capped doubling with jitter |
| ClickHouse mirror | `internal/chmirror` | the table prepared, whether it is `ready` | create, verify, expire, insert under a token, report |
| Error types, status, help, DuckDB initialisation, r2check, test substrate | `internal/errdef`, `status.go`, `duckdb_init.go`, `cmd/icelake-r2check`, `internal/testsubstrate` | none | not modelled (section 5) |

### How they interact

* A **writer** charges the ceiling in the store, appends to staging, and, when
  the batch is large enough, a tick comes or someone asks, seals the batch in
  memory and hands it to the **worker** (`Enqueue`). From then on only the
  worker touches it.
* A **stream** is cut by one goroutine and written by another: chunks, grouped by
  table, through the same writers and under the same ceiling, which the workers of
  all tables give back.
* The **worker** runs the **flush path** on the head of its queue, retries within
  a cycle's budget, and reports by changing its state under its lock and
  closing `changed`; waiters (`Flush`, `Close`) read that state. A batch that
  cannot be encoded is quarantined in place and the worker moves on; a batch
  that failed keeps the head.
* The **flush path** writes in this order: seal in staging, mirror, spool file, spool
  row, object, snapshot, spool mark, delete rows, prune schemas. Each is durable by
  itself, none is transactional with the next.
* Opening a table **claims** its slot in the registry, drains the **spool backlog**
  (files written in local-only mode or stranded by a kill), each under the shape
  its **descriptor** gives, brings the **live table** to the declaration, scans
  staging, and swaps the claim for the writer; the writer **replays** what the
  scan found, re-encoded by field id where the shape has moved on.
* `DrainSpool` takes the same claim without opening a writer; the **sweeper** runs
  beside all of this over committed spool files.
* `icelake run` is all of it in one process, at most one to a pid file; `check` and
  `rebuild` look at the same deployment without it.

### What is hard in it

A kill between any two durable steps; a commit whose answer is lost; a retry in
a later cycle of something already uploaded or committed; a table handle behind
the catalog; a data directory opened in turn with a bucket, with a bucket and a
cache, and local-only, by binaries that declare the table differently; several
callers waiting for one worker while a timer, a closing caller and an outage
interleave; quarantine of whole batches; a refusal in the middle of a chunk that is
being halved; starts, signals and kills around one pid file; a mirror that may
fail at any call and must not matter; conversions that round or wrap at a width;
limits (the ceiling, one notice slot, the read buffer, millisecond timestamps).
`PROJECT.json` lists each under `hazards` with the line where it bites and the
properties that would catch it.

### What makes each part correct

* Flush path, staging, spool, drain: an accepted record is never lost, never in
  two snapshots, delivered in order; a spool file is evicted only after its
  commit; a store can always be reopened; whatever was accepted settles.
* Worker and writer: a `nil` from `Flush` or `Close` is true; a quarantine is
  told once and not dropped; a failure is reported to those it concerns; calls
  return; a table heals by itself; the slot is free only when the worker is gone.
* Store: one owner per table; the ceiling bounds staging across restarts and is
  charged exactly.
* Ingest: what an answer says was accepted was; records of a table keep their order;
  a stream ends. Framing: the records are those of the bytes, however they arrive.
* Records and declarations: the doors agree; what is accepted is stored as written,
  through any later shape; a declaration survives as a descriptor.
* Evolution: every committed file reads back what was accepted; a backlog can always
  be moved; a running writer has the table it declares.
* Rebuild: no committed batch is out of reach. Mirror: once, or told; never in the way.
* Daemon: one at a time; its reports and exit codes are true; a signal ends it.
  Commands: they agree about a deployment, and numbers are what was written.

## 2. Modules

| Module | What it is |
|---|---|
| `Delivery` | abstract specification: records are pending, then delivered whole and once, or set aside |
| `FlushPath` | the durable path of one table, with the process around it, failures and kills; shown to implement `Delivery` |
| `FlushWorker` | the goroutines of one writer and its callers: worker, timer, Flush, Close |
| `Ingest` | IngestStream over several tables, a ceiling and the workers that empty it |
| `Framing` | the read buffer and the cut of a stream into records, against a reference cut of its bytes |
| `Records` | one record through the three doors, the payload, a later shape and a data file |
| `Declarations` | how a table is declared, its descriptor, its mirror's name |
| `Evolution` | one table across deployments of different declarations |
| `Rebuild` | the catalog database, the writer's commits to it, and its reconstruction |
| `Mirror` | the ClickHouse mirror of one table where the flush path meets it |
| `Daemon` | the processes of several `icelake run` around one pid file |
| `Setup` | what `run`, `check` and `rebuild` make of one deployment; the retry ceiling |
| `MC...` | their instances for TLC. `MCRecords` composes `Declarations`, `Framing` and `Records`; `MCDaemon` composes `Setup` and `Daemon` |
| `FlushPathProofs` | theorems of `FlushPath`: types and the ceiling; exactly once and the refinement; order |
| `FlushWorkerProofs`, `RebuildProofs`, `MirrorProofs`, `EvolutionProofs`, `IngestProofs` | theorems of the module they are named after |
| `DaemonProofs` | theorems of `Daemon` and `Setup` |
| `RecordProofs` | theorems of `Declarations`, `Framing` and `Records` |

### FlushPath

*State.* Three groups that survive a kill: staging (`nextId`, `staged`, `batchKey`,
`quarantined`, and the `spool_files` rows `spoolRow` with their clock), the cache
directory (`file`), and the lake (`object`, `log`). One group that does not: the
configuration the process runs in (`mode`), who holds the table's slot (`owner`),
`batch`, `queue`, the worker's next operation `pc`, what its table handle knows
(`base`), the backlog file a drain is at (`drainKey`) and the ceiling counter
(`held`). `unanswered` is kept for the properties: the rows whose insert was answered
with a failure although its transaction had landed.

*Correspondence.* Each durable operation of `process` and `prepare` is an action
(`Prepare`, `Check`, `Quarantine`, `SpoolFile`, `SpoolRow`, `Upload`, `Commit`,
`MarkSpooled`, `Prune`, `Finish`), so that a kill or a failure falls between any
two. `Fail` is the current operation failing, or the previous one having taken
effect and answered with an error; it ends the attempt, undoes nothing, and the
job's `attempted` makes the next attempt check first. `CommitAnswerLost` and
`CommitConflict` are the two ways a commit goes wrong with their reloads. A COMMIT in
staging may answer with an error too: `InsertAnswerLost` leaves rows staged of which the
writer knows nothing and whose charge was given back, until the next open; `SealAnswerLost`
leaves rows stamped with a key that their job does not have, so that every later attempt of this
writer is refused by the seal. `PrepareRefused` is such an attempt, or one at a batch whose rows
a half-failed prune has deleted. `ClaimForWriter`,
`DrainUpload`/`DrainCommit`/`DrainMark`, `StartWriter` are `OpenWriter`;
`ClaimForDrain` starts `DrainSpool`. `StartClose` with `CloseDrained`,
`CloseReported` or `CloseExpired` is `Writer.Close`; `Store.Close` is that followed
by `StoreClose`, and where it does not wait for a claim the claim's holder fails
(`DrainFail`). `EvictFile` and `EvictRow` are the two halves of the sweeper's
eviction.

*Data.* A record is its row id; a batch is the set of its row ids, since batch
order is id order. `Payload` gives a record's canonical encoding, and a batch's key
is its records' encodings in order: the digest is taken to be collision free and
two batches have one key exactly when their records encode alike, position by
position. A spool row's creation time is the millisecond of the row before it or a
later one, and files of one millisecond are drained in either order, which is what
the order of their hashes comes to. Which committed file the sweeper's bounds select is left open.

### FlushWorker

*State.* The writer (`batch`, `closed`, the timer), the worker's fields under its
lock (`queue`, `enqueued`, `completed`, `failureSeq`, `noticeSeq`, `stopping`), its
channels (`wake`, `cancelled`), where the goroutine is, where each caller is, and
three history variables that no action reads: `fate`, `told`, `heard`.

*Correspondence.* A step is what happens under one hold of a lock, or one channel
operation; in particular the kick, the read of the failure count and the first
look of a wait are three steps, as in the code. Two data abstractions are exact:
`Worker.failures` is only compared with the value a waiter started from, so
`behind` is the set of waiters for which it has grown; `changed` is closed and
replaced, so `woken` is the set of waiters whose channel is closed. An attempt's
outcome depends on whether the operations it needs succeed (`up`, which changes at
any time and without bound) and on whether its batch can be encoded (`Poison`).
A second `Close`, or `Store.Close` behind a `Close`, waits for the first to give the
slot back or for its own context, and may then cancel the worker's context.
The flush-error callback is assumed to return, as its documentation requires: the
worker waits for it, and the code bounds that wait only by the worker's context.

### Ingest and Framing

*State.* `Ingest`: what the framing goroutine has taken, the channel between the two
goroutines, the chunk, the groups still to write, and, for the group being written, how
much is left and how much the next try takes; `limit` and `failure` are the refusal that
cuts the rest; `durable`, `pending` and `charged` are staging, the writers' unflushed
records and the store's counters. `Framing`: the buffer (start, end, size), the reader's
bytes, the frames cut and the refusal.

*Correspondence.* `Framing` (in `Ingest`) is the goroutine, `Calling` the caller's: collect a
chunk, group it, write a group by `InsertBatch`, halve it or wait on a full area, write
again up to a refused record. `Commit(t)` is table t's worker, which `FlushWorker`
details. The groups are a set, one for each table, taken in the order of their first records, and what rows weigh is
the weight of the set of them, which is what the code's loops over a chunk come to. `WriteFails` has the four ways a write fails for no record's fault, a lost COMMIT answer
and an `OnAccept` error among them. In module `Framing` a read returns any number of bytes, and
the property compares the frames, and the refusal that ends them, with what the input says at the place where a record
is looked for: where its line or its item ends, what it would be refused as, and on which line it is. Where that depends on
the reader (an item longer than the ceiling, of which the end may or may not be seen in time) both answers are allowed.

### Records and Declarations

These have little state and many inputs: a `Declarations` behaviour declares, opens,
writes a descriptor and reads it back; a `Records` behaviour decodes or binds a record, checks, encodes,
remaps and builds a column. Widths are constants (a long of 5 bits, a double of 3
bits of precision) and a number is an exact binary fraction, so that rounding and overflow
happen as they do in the code, at magnitudes TLC can enumerate. Text is a few contents
known by what they read as (UTF-8 or not, digits, an instant, base64). A descriptor is a
sequence of numbers, one to a byte or a 32-bit field, and is decoded by the
parser's own rules. The functions over a sequence of columns or bytes are recursive functions, or are defined by
what they return, so that they can be reasoned about.

### Evolution

*State.* The live schema; staged rows with the shape each was encoded under and the batch
key; spool rows and files with theirs; the descriptors kept for each; objects and which are
committed; the running binary's declaration and mode, where its open, drain or worker is.
*Correspondence.* `OpenTable` is `openTable` (create, or reconcile and verify in two commits);
`Drain...` is a backlog file under its own descriptor; `Prepare`, `Encode` are `prepare` with
`Remap`; `Prune` and `Evict` drop the descriptors no row names. It repeats the durable order of
`FlushPath` with shapes and without failures inside a call; a kill may fall anywhere.

### Rebuild

*State.* The database as what it holds checkpointed and what is in its log, every metadata file with the
batches reachable from it, the tables that have a file of which only a part was written, what the writer was told, and the rebuild's temporary file.
*Correspondence.* A commit writes its metadata file, whole or in part, and then swaps the row, so a refused or
interrupted one leaves an orphan; `Scan` steps down from a file that does not parse, refuses a table that has no other, and picks
per table the highest sequence of the rest (ties by identity); `RemoveSidecars` and `Rename` are two steps of the replacement.

### Mirror

*State.* The batches there is a data file of (`recorded`) and those of them the lake's table has (`committed`; a local-only
process leaves the others in the spool), the server (up or not, its table with tokens and rows), the process,
who was told. *Correspondence.* `Worker` is `Ensure` statement by statement (at open, and again by
an insert whose table is not ready) and `process` around `mirror`: insert, then record in the
lake, which may fail after it took effect. `AlreadyCommitted` asks the lake's table alone: a batch that a local-only process spooled
and did not prune is encoded, offered and written again. The server drops tokens beyond its window,
goes away under any statement, loses answers, and removes rows under the table's TTL (`Expire`: which rows are past it is left open).

### Daemon and Setup

`Daemon`'s state is per typed command: where its first process is, its open file description and
lock (the kernel's, shared with a child), the pipe, and the memory of the process that
executes the run; `path` and `named` are the pid file. `RunDaemon` is runDaemon with its
ends: end of input, a refused record, a signal, and the drain, bounded or not. What the library does
under it is one step per `OpenWriter` and `Close`, whose outcomes `FlushPath` and `FlushWorker` justify.

`Setup` has two variables, a deployment and what the last command said about it in some world. Everything else is
operators: `readSettings` and its parsers, `Config` with defaults and `validate`, the launch of a run to its
exit code, check's walk and verdict, rebuild's discovery, and the delay before an attempt. Powers of two are a recursive function
(`TwoTo`), and a quantity without a unit has the unit `bare`. In
`MCDaemon` every deployment is resolved by every command, and `Daemon` starts where
`Setup` lets a plain one through.

## 3. What is checked

| Run | Question | States |
|---|---|---|
| `flush_safety` | nothing lost, committed twice, overwritten, evicted early or overtaken; every step a step of `Delivery` | 1.2 M |
| `flush_liveness` | whatever was accepted settles; a backlog drains | 219 k |
| `worker_calls` | whoever is answered is answered truthfully; the slot is free only after the worker is gone | 5.3 M |
| `worker_returns` | everybody who waits is answered; a table heals alone | 110 k |
| `ingest` | an answer is true about what was accepted; order and charges are exact; a stream ends | 271 k |
| `record` | framing, declarations, and a record from each door to a file | 1.1 M |
| `evolution` | committed files read back what was accepted; backlogs stay readable; the live table is the declared one | 4.2 M |
| `rebuild` | no committed batch is out of a catalog's reach | 11.1 M |
| `daemon` | one daemon, true reports and exit codes; commands that agree; numbers that hold | 446 k |
| `mirror` | each batch once or told; the same values as the lake; the lake never waits | 861 k |
| `flush_repeats`, `rebuild_wal` | two disagreements of section 6 | |

Some properties are conjunctions of named parts, each stated and commented at its definition:
`ExactlyOnce` (`NoRecordLost`, `CommittedOnce`), `FilesStand`, `BatchesWhole`, `MovesInOrder`
(`CommitsInOrder`, `EvictedOnlyCommitted`), `ResultIsTrue`, `AcceptedIsStored`, `DeclaredAlike`
(`DoorsDeclareAlike`, `ShapeSurvives`), `BacklogReadable`, `OnceOrTold`.

**Bounds of the `FlushPath` runs.** `MaxRow` 3 rows with `MaxRecords` 2 give two or
more batches of one and two records, `Bad` one row that cannot be encoded, so that
one batch is quarantined among others that commit; `Ceiling` 2 is reached, and exceeded by a record whose
insert was answered with a failure; two
operations fail over the behaviour (`MaxFaults`), at any step in `FailAt` and in the answers of an insert and a seal, and the
process dies twice (`MaxCrashes`): the hazards listed need a failure or a kill
before the commit and one after it, two lost answers, or two processes in different modes with a
third that meets what they left. Every behaviour may stop and reopen in any of
the three modes any number of times. The records have distinct encodings;
section 6 says what happens otherwise. The liveness run has the same three rows with one
failure and one kill, and leaves out no place a failure may fall.

**Bounds of the `FlushWorker` runs.** Two batches (`MaxBatch`), the first poisonous,
possibly handed over by a replay, one `Flush` without a deadline and two `Close` calls with one
are enough for a notice to be held over a success, for several waits to cover one
batch, and for a second close to overtake or give up on the first. Attempts per
cycle is 1 in the safety run, where a longer cycle only delays its end, and 2
in the liveness run, where the backoff matters. Outages are not bounded. The two
closers are symmetric in the safety run; the liveness runs use no symmetry.

**Bounds of `ingest`.** Streams of three records with every placing of two tables and the four fates,
and of four with the writer's refusals, one record larger than the others; chunks of three over a ceiling of two
records and three bytes, so that a chunk is refused for room, halved to one record, and waits; one write
fails. Every record fits the ceiling on its own: one that does not holds its stream for ever (section 6).

**Bounds of `record`.** Every stream of up to five bytes of seven classes, and of up to seven of
the text ones, and an item longer than the buffer may become, over a limit of three and a slack of two, so that the buffer doubles and moves and a record fills it
exactly, and an item of six bytes, longer than the buffer may become, among up to six more; every number past both ends of a long and of a double's precision, to every kind of column, required or
not, alone and with another column, under the shape it was opened with and two later ones; every document and struct of
up to two fields.

**Bounds of `evolution`, `rebuild`, `mirror`.** Five declarations (a column added and another renamed, one renamed and widened,
omitted, made required) over four starts and two rows: one shape staged, another spooled, a third
running, and a fourth that meets what the third quarantined. Two tables in two shapes, two batches, four metadata files each, with as many kills as fit: an orphan above
and one tied with the current file. Two batches, a deduplication window of one, one failure, outage and drop, any expiries and two
starts: a token that has been forgotten needs a second batch, and a second start another declaration.
`evolution` and `rebuild` are safety runs, and in `rebuild` the two tables are symmetric. Four starts reach disagreement 10 of section 6, for which
`ReadsAsWritten` makes its exception; `EvolutionStranded.cfg` checks it without. In `rebuild` every step of a rebuild but the rename may be where it dies;
`rebuild_wal` is that one.

**Bounds of `daemon`.** A foreground and a background command, each typed again and again, over three inodes; two tries
of the lock instead of five, which reach the same refusal sooner; one process killed. Every deployment one value away from six
working ones, in worlds one thing away from a calm one. Words have 9 bits and a kilobyte is 4 bytes, so that a terabyte
still overflows at the same places.

**Deadlock** is checked in the `FlushPath` runs and switched off where the modelled thing rightly stops: a
writer closed with its calls returned, a stream that ended, a record stored, bounds of starts used up, a command answered.

**Fairness.** `FlushPath`: weak fairness of the worker and of a drain under way (they
are loops that never wait for anything but the operations modelled), of the
timer's trigger, of a close that has started, and of a caller who reopens a store
that is down; strong fairness of claiming the slot for a writer, since `DrainSpool`
calls may take it again and again between two tries. That the caller reopens a table whose head prepare refuses is no fairness: it is
the hypothesis of `EveryRecordSettles` (`[]<>~Refused`), since a caller may well keep one writer open for ever. `FlushWorker`: weak fairness of
the worker goroutine and of each caller's next step; the timer ticks (weak), a
tick is not held back by the flush floor forever and does not win the `select`
against a closed stop channel forever (strong: Go's `select` picks at random); a
context with a deadline ends. Nothing is assumed of outages: `CallsReturn` holds
through a permanent one, `HealsAlone` assumes that it ends and that nobody closes
the writer. `Ingest`: weak fairness of the two goroutines and of each table's worker, which commits
while the bucket answers; nobody owes a cancellation. `Mirror`: weak fairness of the worker alone; the
server owes nothing. `Daemon`: weak fairness of each process's next step, the drain's clock among them;
nobody owes a signal, and batches need never become committable.

**Mutants.** For each property of a passing run `PROJECT.json` names a plausible bug
in one mapped definition (`MustCheckReplayed` for `MustCheck`, `EvictableAny` for
`Evictable`, `NoticeLostOnSuccess` for `Notice`, ...) under which TLC finds the
property violated in the same instance. The type invariants of the modules other than
`FlushPath`, `FlushWorker` and `Ingest` are no run's: `Daemon`'s and, as a lemma, `Rebuild`'s are proved, the others are stated as documentation of the variables.

## 4. What is proved

TLAPS proves the following for every value of the constants allowed by the
named assumptions (`FlushPathAssumption`, `FlushWorkerAssumption`, `DaemonAssumption`, `RebuildAssumption`,
`MirrorAssumption`, `ShapesAssumption`, `LimitsAssumption`, `DeclarationsAssumption`, `SourcesAssumption`, `FramingAssumption`,
`RecordsAssumption`, `Records`'s own `ShapesAssumption`, `ContentsAssumption`, `SentAssumption`,
`SetupAssumption`, `WorldsAssumption`, `DelaysAssumption`, which TLC evaluates on the runs): any number of records, batches, tables,
declarations, streams, values, widths, settings, processes, failures, kills and callers. The last column is what a theorem assumes beyond them.

| Theorem | Statement | Assuming |
|---|---|---|
| `FlushPathProofs!TypeCorrect` | `Spec => []TypeOK` of `FlushPath` | |
| `FlushPathProofs!CeilingHolds` | `Spec => []StagingBounded`: staging exceeds the record ceiling by no more than the unanswered inserts | |
| `FlushPathProofs!DeliveredExactlyOnce` | `Spec => []ExactlyOnce` | `DistinctRecords` |
| `FlushPathProofs!FilesAlwaysStand` | `Spec => []FilesStand` | `DistinctRecords` |
| `FlushPathProofs!BatchesStayWhole` | `Spec => []BatchesWhole` | `DistinctRecords` |
| `FlushPathProofs!PathImplementsDelivery` | `Spec => ImplementsDelivery`, the refinement of `Delivery` | `DistinctRecords` |
| `FlushPathProofs!MovedInOrder` | `Spec => MovesInOrder`, an action property | `DistinctRecords` |
| `FlushWorkerProofs!TypeCorrect` | `Spec => []TypeOK` of `FlushWorker` | |
| `FlushWorkerProofs!SlotFree` | `Spec => []SlotFreedAfterExit` | |
| `FlushWorkerProofs!SealOrder` | `Spec => []SealOrderKept` | |
| `FlushWorkerProofs!ToldOnce` | `Spec => []QuarantineToldOnce` | |
| `FlushWorkerProofs!OwnFailure` | `Spec => []FailureIsItsOwn` | |
| `FlushWorkerProofs!NoticeIsHeld`, `NilIsTrue` | `Spec => []NoticeHeld`, `Spec => []NilMeansDone` | `OnePoison` |
| `DaemonProofs!DaemonTypeCorrect` | `Spec => []TypeOK` of `Daemon` | |
| `DaemonProofs!OneDaemonAlways` | `Spec => []OneDaemon` | |
| `DaemonProofs!ReportsAreTrueAlways` | `Spec => []ReportsAreTrue` | |
| `DaemonProofs!ExitZeroIsCommitted` | `Spec => ExitZeroMeansCommitted`, an action property | |
| `RebuildProofs!CatalogKeeps` | `Spec => []CatalogKeepsCommitted` | `NeverBackNorHalfway` |
| `MirrorProofs!MirroredOnceOrTold` | `Spec => []OnceOrTold` | `WindowedTables` |
| `MirrorProofs!DoorsAlwaysAgree` | `Spec => []TwoDoorsAgree` | `WindowedTables`, `NamesStay` |
| `EvolutionProofs!AlwaysReadable` | `Spec => []BacklogReadable` | |
| `EvolutionProofs!LiveAlwaysMatches` | `Spec => []LiveMatchesDeclaration` | |
| `EvolutionProofs!AlwaysAsWritten` | `Spec => []ReadsAsWritten` | |
| `IngestProofs!TypeCorrect` | `Spec => []TypeOK` of `Ingest` | |
| `IngestProofs!AnswersTruly` | `Spec => []ResultIsTrue` | |
| `IngestProofs!StagedOnceInOrder` | `Spec => []OnceInOrder` | |
| `IngestProofs!ChargedExactly` | `Spec => []ChargeExact` | |
| `RecordProofs!StreamFramedAsWritten` | `FramingSpec => []FramedAsWritten` | |
| `RecordProofs!AcceptedStored` | `RecordSpec => []AcceptedIsStored` | |
| `RecordProofs!DoorsAreTheSame` | `RecordSpec => []DoorsAgree` | |
| `RecordProofs!DeclarationsAgree` | `DeclarationsSpec => []DeclaredAlike` | |
| `RecordProofs!MirrorNamesDiffer` | `DeclarationsSpec => []MirrorTablesApart` | |
| `DaemonProofs!UsageIsForGood` | `SetupSpec => []RefusedForGood` | |
| `DaemonProofs!OneAnswer` | `SetupSpec => []CommandsAgree` | |
| `DaemonProofs!NumbersAlwaysHold` | `SetupSpec => []NumbersHold` | |

**The hypotheses** are conditions on the constants that the runs' instances meet, and none can be dropped:

* `DistinctRecords`: no two records encode alike. `flush_repeats` is what happens when two do.
* `OnePoison`: at most one batch can never be encoded. `FlushWorkerTwoQuarantines.cfg` has two.
* `NeverBackNorHalfway`: an older binary is not deployed again, and no rebuild dies between removing the log and the rename.
  `rebuild_wal` is the second; with `Rollbacks` TRUE a rebuild may take the loser of a tie, and TLC finds the property violated.
* `WindowedTables`: a table an operator made beforehand is empty and remembers tokens; `OwnWithout` is one that does not.
  `NamesStay`: a field id has one name in all the declarations; `DeployedRenames` is two.

**The assumptions on the constants** say what the code's types and the things it reads from can be. Those that are more than ranges:
`SourcesAssumption`, an id fits its word, only a decimal states a precision and a scale, and a struct's columns have distinct
names (two of one name are section 5's); `FramingAssumption`, the slack has room for a line's two bytes of
terminator, which with less would be refused at exactly the limit; `WorldsAssumption`, a staging database that is
not there yet, or has no schema, holds nothing; `DelaysAssumption`, a configured delay is a word;
`RecordsAssumption`, a mantissa is narrower than a word by two bits at least (53 of 64); `ContentsAssumption`, text
that is not UTF-8 reads as no number, instant or base64, and neither does what `encoding/json` replaces it with; `SentAssumption`,
the fields of a record are those of the decoded map, whose keys are distinct, a CBOR float is a double already, and a
struct's field has its column's Go type.

**`FlushPath`.** `TypeOK` is inductive as it stands. It needs three facts beyond the
actions' assignments: a set of row ids is finite, so that what the ceiling counts is a
number; every set of rows hashes to a key; and a scan of staging finds finitely
many sealed batches, so that a queue of them exists (`PendingJobsFinite`).

`StagingBounded` is not inductive: the counter must be related to the rows
(`Charged`), and a prune and the release that follows it are two steps, between which
the charge of the deleted rows is still held. `AttemptHasRows` says so, and that from a
successful prepare to the prune the batch's rows are all staged, so that the prune deletes
as many as will be released. What is staged without a charge is counted by `unanswered`, which only grows: such a row is charged from the
store's next open, and each exceeds the ceiling at most once; `PlaceKept` says the worker is between attempts whenever it has no
batch. None of it depends on what the records encode to.

`FlushInv` is the invariant of the promise. `batchKey` outlives the row it was stamped on, so it says for ever which
batch a record was sealed into, and a key is the hash of exactly the rows that ever carried it (`SealsTell`, with
`HashInjective` from `DistinctRecords`). Whatever bears a key, a queued job, a file, an object or a snapshot, is then that
batch whole (`KeysTell`, `QueueInv`), and no two snapshots are of one key. `AttemptInv` follows a key through an
attempt: past the already-committed check it is not among the snapshots the handle knows, at the mark and the prune it
is committed or owed by a spool row; `HandleInv` says that a key marked committed is among those the handle knows, which is
why a replay's check finds it; `DrainInv` does the same for a drain. The three invariant theorems read off it, and under it each step of
`FlushPath` is a step of `Delivery` or a stutter, action by action: a commit that succeeds, or whose answer is
lost, delivers; `Quarantine` sets aside; everything else stutters but `Insert`.

`OrderInv` adds that a batch is sealed only at the head of the queue, so that at any time at most one batch is both
sealed and live (`OneSealed`: a lost seal wedges the queue before a second), and it is the earliest (`SealedFirst`), but for rows whose insert was not
answered, which a later open finds behind records accepted after them; the queue, a scan after a restart and the creation times of
the spool rows inherit that order (`QueueOrdered`, `SpoolOrdered`), and a writer with a bucket and a cache starts with what it owes drained
(`BacklogDrained`).

**`FlushWorker`.** `TypeOK` needs `Shape`: the queue is exactly the sequence numbers enqueued
and not completed, in order; a cycle under way has a batch and budget left. The safety
theorems add one invariant each:

* `FateKnown`: a batch has met its fate exactly when it has left the queue or the cycle
  that decided it is about to finish; from it the seal order.
* `NoticeFresh`: the notice held is of a completed batch that nobody was told of,
  so taking it is the first telling.
* `AnsweredAfterWaiting` and `FailureHeard`: the failure a waiter would be answered with
  was recorded since its call began.
* `UntoldHeld`: an untold quarantine is the notice, or about to become it. Its
  step is where `OnePoison` is needed, and only there: without it the finish of a second
  quarantine overwrites the first, which is disagreement 5 of section 6. `NilMeansDone`
  then follows, since a `nil` answer saw no notice and every batch covered completed.

**`Daemon`.** A lock excludes other descriptions of its inode, but an inode outlives its name. `NameKept` is what makes the
lock mean one daemon: from the second stat of `acquirePidLock` to its own removal of the file, a keeper's inode is the
one the path leads to. With `LocksExclude` two keepers would hold one inode. `Placed`, `Described` and `Reported` tie each
command's place to who has its description open and to what was written to the pipe. `DrainsInv` says what a drain has
established for the tables it has closed; an exit with code zero comes from nowhere else.

**`Rebuild`.** A rebuild sees files alone and takes any of the highest sequence. `Siblings` and `RowKept` say that files of one sequence come
from one row, each with the batch at the head of the queue or in a later shape, and nothing is committed from a row
behind the declared shape; so every candidate holds whatever was acknowledged (`TopKept`). A file written in part was never a row's, since
whoever put it tries again before the swap.

**`Mirror`.** `Sound`: a table's rows are in the order of their batches, each once; the batch being offered has its token there for as long as
it has its row; and a token whose row is gone is that of a batch that was dropped or has expired.
Batches are offered oldest first and only the oldest waiting is offered again, so a token that was forgotten is never offered again beside its row, however
small the window. `Covered`: a batch there is a data file of was inserted, or somebody was told, or it was taken out of the mirror (`excused`). `DoorsInv` relates each mirrored
row and each data file to the batch they came from.

**`Evolution`.** `Keyed`: the rows a key names are staged under it together, alive or dead together. `WholeFile` and `Bears`: whatever
is under a key, on disk or in the bucket, is of its rows, as they were accepted with nulls behind, and no row of it is staged otherwise. Those
give `BacklogReadable`, with the exemption its definition makes while a replay rewrites a file under another shape: the batch is still staged
then, and `DrainInv` says that the drain has no such file in its list. `Fitting` and `Verified` say that an open writer's shape is one the live table was brought to.
`ReadInv` adds that committed objects are of shapes the live table reads: its columns' types move along promotions
only, which compose (`ShapesAssumption`). It excepts the keys quarantined, whose object may be of a wider shape than the one the drain brought the table to;
what is quarantined stays so (`QuarantineStays`), so no object enters the exception and leaves it.

**`Ingest`.** A record the framing has read is in exactly one place: staged, in the chunk, in the channel, in the framing's
hand, refused or dropped; and the places follow one another in the order of the stream (`OrderInv`). While a chunk
is written, what of it lies below the limit is staged, in the rows being written, or in a group still to come, and each table
has one group, none of whose records precedes one that is staged. The limit falls only to a record that is at fault, of a table
nothing of which is staged at or after it. With that an answer is read off: it is given when one of those places is empty, or
it names the first record of the first group left. `ChargeExact` needs that what writers hold is disjoint from the rows
being written, so that weights add; that a weight adds over disjoint sets of any records is proved by induction on
the length of the stream, through a least element of a set of numbers, since the library's induction theorems cannot be used.

**`Declarations`.** A shape that a store is open with has its columns in the order of their ids, which run from one (`Kept`). Every
way of declaring it sorts, or keeps, that order, so each gives it back; and the bytes of a descriptor are read by a
function of the position, of which it is proved, column by column, that it has read what was written (`DescriptorBack`). A mirror's
name is two parts around a separator neither has, of which the second does not begin with the separator's
character: where the first part ends can be told from the name (`NamesApart`).

**`Framing`.** The buffer is a window on the input (`Windowed`): wherever the bytes were moved, and however it grew, its `Held` bytes are
the last read of the input. What lies before the window (`Passed`) is the records, each where the one before said to look, and white space, whose
newlines outside records are `lines`. `Underway` is what has been decided of the record in the window. The steps that read keep the
first byte where it is; those that consume advance it over bytes that are accounted for. The one step that is not local is a full buffer:
it holds more of one record than is ever accepted, which is where the slack of two is needed.

**`Setup`.** A command answers in one step, so its theorems are about what the three commands compute from one deployment and one world:
which settings and which part of the world each looks at, and in what order. `NumbersHold` rests on two facts of
powers of two, both proved by climbing: shifting is multiplying, so that the check before a
multiplication is exact; and the loop of `ceiling` holds the base doubled or the cap at each attempt, whichever is less.

**`Records`.** `RecordInv` says that a record which was accepted is, wherever it is now, one row (`BoundRow`): the one its door
bound it to, moved by field id to the shape the payload is in; the payload is that row's encoding and a file holds that row's values. Each of its values
*tells* what was meant. Four arguments carry it. A word taken modulo its width and back is the number that went in (`BitsBack`), and there is always
a step to round to, so that a rounded value is a whole number (`RoundedIs`), both by climbing through the powers of two. A door's verdict on a row is its
verdicts on the columns, whatever order they are asked in (`VerdictIs`), and each reads exactly what was meant or refuses, but for `Loses` (`MeantIs`). A
payload is a string of parts, one for each column, and the position the reader has reached after a column is the end of its part (`Laid`,
`ColumnRead`), so decoding gives the row back and leaves nothing over (`RoundTrip`). Moving a row by ids to one compatible shape and
then to another is moving it to the second (`TranscodedIs`). For `DoorsAgree` a CBOR value and its JSON spelling are compared column by column
(`TwinIs`): the two doors take different paths through the coercion table, and meet in the same row or both refuse.

**Only model-checked.**

* Every liveness property (`EveryRecordSettles`, `BacklogDrains`, `CallsReturn`, `HealsAlone`, `LakeNeverWaits`, `StreamEnds`, `SignalledExits`): fairness speaks of ENABLED, which the prover does not treat.

Every safety property of a passing run is a theorem.

## 5. What is not modelled

* *Several tables in one store.* The ceiling is shared by two tables in `Ingest`; the registry, `OpenWriter` and
  `Store.Close` are modelled for one table, since slots are independent and closing several is a loop (`TableSlots`, planned).
* *Which committed file a sweep picks.* `FlushPath` lets a sweep evict any committed file, so its properties cover every
  choice the age and size bounds could make; that the bounds are met is not checked (`RetentionSweep`, planned).
  A system clock set back is not modelled either; a tie of creation times is.
* *The writer's byte trigger, recent-record rings, `Pending`, `Status` and `Counters`*: read-only or one more reason to seal.
* *Concurrent inserts interleaving inside `Insert`*: staging's transaction and the writer's lock make it one step, and the
  ceiling is charged before.
* *Arithmetic of 64 bits and IEEE floats* is checked at small widths with the same rules; NaN's and the zero's signs are not.
* *Struct tags that repeat a column name*, SQL migrations and generated queries, Parquet's bytes, S3 and SQLite beyond what
  the code relies on (marked external in the map), logging and wording.
* *Error types (`internal/errdef`, `errors.go`) and `status.go`*: kinds and text. Which error is returned where is in each module.
* *Terminal handling, help, version, `duckdb-init`*: formatting. *r2check* is a manual acceptance script and *testsubstrate* starts
  containers for the tests; neither is part of the running system.

## 6. Where the code and its own text disagree

Listed as findings in `PROJECT.json`, each with a run that TLC finds violated:

1. `flush_repeats`. A batch's key is the hash of its records alone. A caller that
   hands over the same records twice, in two batches, gets two batches with one key: when
   the second is replayed or retried, the already-committed check takes it for
   the first and prunes its rows. In local-only mode the second spool file overwrites
   the first with no failure at all.
2. `rebuild_wal`. A catalog whose writer was killed holds its last commits in its write-ahead
   log alone. A replacing rebuild removes that log before the rename; if it dies between the two, the old
   database stays without those commits (`rebuild.go:400-404`).

With a configuration beside the runs, to be run as `tlc -config X.cfg M`:

3. `FlushPathRepeatsBad.cfg` (`MCFlushPath`). Two batches of equal records that cannot be encoded leave a sealed
   batch partly quarantined, which a comment says cannot arise (`staging/index.go:204`) and which `Scan`
   refuses, so the store cannot be opened again.
4. `FlushPathPruneFails.cfg` and `FlushPathSealFails.cfg` (`MCFlushPath`). `prune` is Delete then PruneSchemas. If the second half fails
   once, every retry starts by reading rows that are gone. If a seal lands and its COMMIT answers with an error, the job has no
   key (`flush.go:471-479`, `672-678`) and every retry's seal is refused, its rows being stamped already. Either way the batch holds
   the head of the queue until the process restarts or the writer is reopened, which mends it. `EveryRecordSettles` supposes the reopening;
   `SettlesUnaided`, which these two configurations check, does not.
5. `FlushWorkerTwoQuarantines.cfg` (`MCFlushWorker`). One slot holds the quarantine notice. With nobody waiting,
   a second quarantine overwrites an unreported first, and a later `Flush` that covers the first
   answers nil about it (`worker.go:109-118`). The `OnFlushError` callback hears both.
6. `FlushWorkerLostKick.cfg` (`MCFlushWorker`). `Wait` reads the failure count after the kick. A cycle that fails
   entirely between the two is taken for an old one; `Close` has stopped the timer, so
   nothing kicks again, and a `Close` without a deadline never returns.
7. `EvolutionOverwrite.cfg` (`MCEvolution`). A drain uploads over an object that is committed already, whose bytes
   differ when the batch was spooled under one shape and committed by a replay under another (`drain.go:261`, against the comment
   above it and ARCHITECTURE.md:253).
8. `DaemonRefused.cfg` (`MCDaemon`). A run that ends on a refused record removes the pid file and gives the lock up with
   its writers still open, so another start may open the staging database before the process is gone (`daemonize.go:197`, `242`, against `175-179`).
9. `RecordsInexact.cfg` (`MCRecords`). A number written with a fraction is rounded to a double before it is asked
   whether it is integral (`dynamic.go:495`, against SCHEMA.md:191).
10. `EvolutionStranded.cfg` (`MCEvolution`). A replay rewrites a batch's spool file under a wider shape and dies before the
   spool row is moved; a third binary, in which an optional column is required, then quarantines the batch. The file is now the drain's, which
   brings the table to the row's older shape and commits a file of the wider one, where "each file is
   committed against its own recorded shape" (`writer.go:265-266`, `drain.go:214-217`). The live table lacks the extra column, which holds
   nulls alone; whether AddFiles accepts the file (the batch was reported quarantined, and is delivered) or refuses it (the drain is stuck) is the library's.
   `ReadsAsWritten` excepts the columns of a quarantined batch; `EveryColumnLive`, which this configuration checks, does not.
11. `FramingLine.cfg` (`MCRecords`). An item that is longer than the buffer may become is refused by `fill`, which names a line for it
   (`ingest.go:1081`), where "a line number is reported unless the record is known to be a CBOR one" (`ingest.go:936-937`).

Changing a constant shows two more: with `Deployments <- DeployedRenames` the mirror and the lake disagree after a
rename (`TwoDoorsAgree`; `table.go:209`), and with `OperatorTables <- OwnWithout` an operator's table without a deduplication
window holds a batch twice (`OncePerBatch`), both against ARCHITECTURE.md:337.

Met while translating, with the exception each property makes for it stated where it is defined:

* *Order.* Two spool files of one millisecond are drained in the order of their keys, not "in creation order"
  (ARCHITECTURE.md:251; `CommitsInOrder` excepts them). A record whose insert landed and was answered with a failure is found by the next open and
  committed then, after records accepted later (`CommitsInOrder` excepts it).
* *Ceiling.* The charge of such a record is given back with the failure (`writer.go:717-722`, `768-771`), while it is staged: staging may hold more
  than `StagingMaxRecords` by as many (`StagingBounded` counts them).
* *Values.* A timestamp outside the microsecond range wraps (`storage.go:66`); a JSON text that is not UTF-8 is silently
  replaced where CBOR refuses it (`dynamic.go:271`); a CBOR integer below the least long is refused for a float column
  where JSON accepts it (`cbor.go:341`); a double beyond a float's range is stored as an infinity (`dynamic.go:401`).
* *Streams.* A record larger than the whole ceiling holds its stream for ever (`ingest.go:684`); an `OnAccept` error inside a
  stream reports an accepted group as failed (`ingest.go:461`).
* *Schemas.* A rename and an illegal change of type in one declaration commits the rename and then fails (`catalog.go:154`). A
  widening wedges a table that has staged rows of the narrower type, as `errdef.go:298` says. An older binary whose local-only
  backlog is narrower than the widened live table fails every open in the drain (`drain.go:246`).
* *Rebuild.* After a rollback to an older binary two metadata files may tie on sequence (`metascan.go:64`) and a rebuild may take the one without
  a committed batch: with `Rollbacks` TRUE `CatalogKeepsCommitted` is violated. It is FALSE in the runs.
* *Daemon.* The drain at the end of input is not unbounded under an outage (`daemon.go:179-190`, `writer.go:970`): it ends
  with a failure. A parent killed between starting its child and writing the pid leaves the file naming an older process.
* *Exit codes.* `run` exits 1, "restart me", for a TTL on a column of the wrong kind and for a name with the mirror's separator,
  and `rebuild` for the prefix `/`, none of which a restart cures (TESTING.md:319, PLAN.md:139). `check` never runs
  `Config.validate`, so it passes configurations that `run` refuses; in local-only mode it never looks at the mirror, and says that
  records "will upload"; its "nothing is waiting" does not count the spool. A library refusal appears only in the background
  child (PLAN.md:152). `check` calls new a table for whose lack of metadata `rebuild` refuses the whole warehouse (`discover.go:141`).
* *Mirror.* A batch whose rows the operator dropped, or which have expired under the table's TTL (`table.go:93-95`), is not in the mirror and nobody is told
  (`OnceOrTold` excepts it); after the deduplication token has gone too, a batch offered again is inserted again. A table dropped while the process runs is not made again until a restart (`table.go:182`); a batch may be mirrored and
  then quarantined (`flush.go:781`); a failed prepare or send is not reported under the kind ARCHITECTURE.md:648 names (`table.go:371`, `396`).

The passing runs stay inside these limits (distinct encodings in `FlushPath`, at most one poisonous batch in
`worker_calls`, no rollback in `rebuild`); the hazards that remain inside them are what they check.

## 7. Plan

The models planned first are written: `FlushPath`, `FlushWorker`, `Ingest` and `Framing`, `Records` and `Declarations`, `Evolution`,
`Rebuild`, `Daemon` and `Setup`, `Mirror`, and their runs. The safety properties of all of them are proved. What is left:

1. `TableSlots`: the registry with two tables and two openers, `Writer.Close` racing `Store.Close`, claims; one owner per table,
   a slot never lost. Composes with `FlushWorker`'s `Detach`.
2. `RetentionSweep`: age and size bounds against a reference definition of the files a sweep leaves, on a clock that may be set back.
