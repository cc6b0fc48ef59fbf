----------------------------- MODULE Evolution -----------------------------
(***************************************************************************)
(* One table across deployments whose declarations differ: what opening a  *)
(* writer does to the live schema (catalog.go), how rows staged and files  *)
(* spooled under an older shape are carried into the current one           *)
(* (canon/remap.go, flush.prepare), and how a local-only backlog written   *)
(* under several shapes is drained (drain.go).  The process may be killed  *)
(* between any two durable steps and started again with any declaration,   *)
(* with or without a bucket.                                               *)
(*                                                                         *)
(* A shape is the sequence of a declaration's columns: field ids run from  *)
(* 1 in document order (checkPreorderFieldIDs), so a column's place is its *)
(* id.  A row is the sequence of its values, one to a column, and a value  *)
(* is the id of the column it was given for, or Null.                      *)
(***************************************************************************)
EXTENDS Naturals, Sequences, FiniteSets, FiniteSetsExt, SequencesExt, Functions

CONSTANTS
    Declarations,       \* the shapes of the binaries that may be deployed
    Widens,             \* pairs of types, the promotions the library allows
    MaxRows,            \* bound: records accepted in all
    MaxStarts           \* bound: deployments

Null == 0
NoTable == <<>>
NoShape == <<>>
Unsealed == [shape |-> NoShape, rows |-> {}]

\* A name belongs to one id for good (docs/SCHEMA.md: "never reused"), so no two
\* live columns can come to want the same one.  What a promotion of a promotion
\* gives is one too (int to long, float to double, decimals by precision).
ASSUME ShapesAssumption ==
    /\ MaxRows \in Nat /\ MaxStarts \in Nat
    /\ \A d \in Declarations :
          /\ d # NoShape
          /\ d \in Seq([name : STRING, type : STRING, required : BOOLEAN])
    /\ \A d, e \in Declarations : \A i \in DOMAIN d, j \in DOMAIN e :
          d[i].name = e[j].name => i = j
    /\ \A w, x \in Widens : w[2] = x[1] => <<w[1], x[2]>> \in Widens

Modes == {"bucket", "local"}
RowIds == 1..MaxRows

VARIABLES
    live,           \* the table's schema in the catalog
    committed,      \* batch keys whose file the table has
    objects,        \* the bucket: key to the file uploaded under it
    staged,         \* staging rows: id to shape, values, batch key, quarantine
    stagingShapes,  \* staging_schemas
    files,          \* the cache directory: key to the file on disk
    spool,          \* spool_files, in the order the rows were created
    spoolShapes,    \* spool_schemas
    accepted,       \* what Insert acknowledged, by row id
    bin, mode,      \* the running binary's declaration and its configuration
    pc,             \* what the process is doing
    backlog,        \* the keys of the files drainTable still has to move
    replays,        \* the keys of the sealed batches handed to the worker at open
    job,            \* the batch the worker has in hand
    starts

catalogVars == <<live, committed>>
stagingVars == <<staged, stagingShapes>>
spoolVars == <<files, spool, spoolShapes>>
durable == <<catalogVars, objects, stagingVars, spoolVars, accepted>>
process == <<bin, mode, backlog, replays, job, starts>>
vars == <<durable, process, pc>>

NoJob == [key |-> Unsealed, rows |-> {}, replayed |-> FALSE]

\* f with k mapped to v, and f without k.
Put(f, k, v) == [x \in DOMAIN f \union {k} |-> IF x = k THEN v ELSE f[x]]
Without(f, S) == Restrict(f, DOMAIN f \ S)

SpoolKeys == {spool[i].key : i \in DOMAIN spool}
SpoolRow(k) == spool[CHOOSE i \in DOMAIN spool : spool[i].key = k]
Pending == {n \in DOMAIN staged : ~staged[n].dead}
Loose == {n \in Pending : staged[n].key = Unsealed}
StagedKeys == {staged[n].key : n \in Pending} \ {Unsealed}
QuarantinedKeys == {staged[n].key : n \in DOMAIN staged \ Pending}

(***************************************************************************)
(* The catalog: openTable and what it calls.                               *)
(***************************************************************************)
\* The live schema a reconciliation commits: a column the table does not have
\* is added and optional, a renamed one is renamed - whatever its type - and
\* only a column whose name agrees is retyped.  One that the declaration does
\* not have is left alone.
Reconciled(have, want) ==
    [i \in 1..(IF Len(have) > Len(want) THEN Len(have) ELSE Len(want)) |->
        IF i > Len(want) THEN have[i]
        ELSE IF i > Len(have) THEN [want[i] EXCEPT !.required = FALSE]
        ELSE IF have[i].name # want[i].name THEN [have[i] EXCEPT !.name = want[i].name]
        ELSE [have[i] EXCEPT !.type = want[i].type]]

\* What reconcileTable refuses, and what the library refuses it.
NewButRequired(have, want) == \E i \in DOMAIN want : i > Len(have) /\ want[i].required
Narrows(have, want) ==
    \E i \in DOMAIN want \intersect DOMAIN have :
        /\ have[i].name = want[i].name
        /\ have[i].type # want[i].type
        /\ <<have[i].type, want[i].type>> \notin Widens
Reconcilable(have, want) == ~NewButRequired(have, want) /\ ~Narrows(have, want)

\* verifySchema: every declared column is there by id, name and type.
VerifiedByName(have, want) == \A i \in DOMAIN want : i \in DOMAIN have /\ have[i].name = want[i].name
Verified(have, want) ==
    \A i \in DOMAIN want : i \in DOMAIN have /\ have[i].name = want[i].name /\ have[i].type = want[i].type

\* The live schema openTable leaves, and whether it returns the table.
LiveAfter(want) ==
    IF live = NoTable THEN want
    ELSE IF Reconcilable(live, want) THEN Reconciled(live, want) ELSE live
Opens(want) == (live = NoTable \/ Reconcilable(live, want)) /\ Verified(LiveAfter(want), want)

(***************************************************************************)
(* Shapes: CompatibleShapes, and a row carried from one to another by id.  *)
(***************************************************************************)
Compatible(from, to) ==
    /\ Len(from) <= Len(to)
    /\ \A i \in DOMAIN to : i > Len(from) => ~to[i].required
    /\ \A i \in DOMAIN from : from[i].type = to[i].type

RemapByName(from, to, row) ==
    [i \in DOMAIN to |->
        IF \E j \in DOMAIN from : from[j].name = to[i].name
        THEN row[CHOOSE j \in DOMAIN from : from[j].name = to[i].name] ELSE Null]
Remap(from, to, row) == [i \in DOMAIN to |-> IF i \in DOMAIN from THEN row[i] ELSE Null]

\* A null in a column the target requires is the one refusal of a row rather
\* than of a shape.
RemapRefused(from, to, row) == \E i \in DOMAIN from : row[i] = Null /\ to[i].required

(***************************************************************************)
(* Initial state: an empty lake and an empty data directory.               *)
(***************************************************************************)
Init ==
    /\ live = NoTable /\ committed = {} /\ objects = <<>>
    /\ staged = <<>> /\ stagingShapes = {}
    /\ files = <<>> /\ spool = <<>> /\ spoolShapes = {}
    /\ accepted = <<>>
    /\ bin = NoShape /\ mode = "local" /\ pc = "down"
    /\ backlog = {} /\ replays = {} /\ job = NoJob /\ starts = 0

(***************************************************************************)
(* Starting: Open, then OpenWriter or DrainSpool.                          *)
(***************************************************************************)
\* Every backlog file but those whose batch is still staged, which the replay
\* moves; oldest first.
BacklogKeys == {spool[i].key : i \in {i \in DOMAIN spool : ~spool[i].done}} \ StagedKeys
OldestFile == spool[Min({i \in DOMAIN spool : spool[i].key \in backlog})].key

Start(d, m) ==
    /\ pc = "down" /\ starts < MaxStarts
    /\ starts' = starts + 1
    /\ bin' = d /\ mode' = m
    /\ IF m = "bucket"
       THEN backlog' = BacklogKeys /\ pc' = "drain"
       ELSE backlog' = {} /\ pc' = "shapes"
    /\ UNCHANGED <<durable, replays, job>>

OpenWriter == \E d \in Declarations, m \in Modes : Start(d, m)

\* DrainSpool walks a table no writer holds, with no declaration of it.
DrainSpool == Start(NoShape, "bucket")

Down == /\ pc' = "down"
        /\ bin' = NoShape /\ mode' = "local"
        /\ backlog' = {} /\ replays' = {} /\ job' = NoJob
        /\ UNCHANGED starts

\* An open that fails leaves whatever it did, and the process ends.
Kill == pc # "down" /\ Down /\ UNCHANGED durable

(***************************************************************************)
(* drainTable: each file against its own recorded shape, before the table  *)
(* is opened under the current one.                                        *)
(***************************************************************************)
\* No recorded descriptor is an error that fails the drain.
DrainOpens ==
    /\ pc = "drain" /\ backlog # {}
    /\ LET shape == SpoolRow(OldestFile).fp
           known == shape \in spoolShapes
       IN  /\ live' = IF known THEN LiveAfter(shape) ELSE live
           /\ IF known /\ Opens(shape)
              THEN pc' = "drain put" /\ UNCHANGED process
              ELSE Down
    /\ UNCHANGED <<committed, objects, stagingVars, spoolVars, accepted>>

DrainPuts ==
    /\ pc = "drain put"
    /\ IF OldestFile \in DOMAIN files
       THEN /\ objects' = Put(objects, OldestFile, files[OldestFile])
            /\ pc' = "drain commit" /\ UNCHANGED process
       ELSE Down /\ UNCHANGED objects
    /\ UNCHANGED <<catalogVars, stagingVars, spoolVars, accepted>>

\* AlreadyCommitted is asked after the upload; AddFile follows a no.
DrainCommits ==
    /\ pc = "drain commit"
    /\ committed' = committed \union {OldestFile}
    /\ pc' = "drain mark"
    /\ UNCHANGED <<live, objects, stagingVars, spoolVars, accepted, process>>

MarkDone(k) ==
    spool' = [i \in DOMAIN spool |-> IF spool[i].key = k THEN [spool[i] EXCEPT !.done = TRUE] ELSE spool[i]]

DrainMarks ==
    /\ pc = "drain mark"
    /\ MarkDone(OldestFile)
    /\ backlog' = backlog \ {OldestFile} /\ pc' = "drain"
    /\ UNCHANGED <<catalogVars, objects, stagingVars, files, spoolShapes, accepted>>
    /\ UNCHANGED <<bin, mode, replays, job, starts>>

DrainEnds ==
    /\ pc = "drain" /\ backlog = {}
    /\ IF bin = NoShape THEN Down ELSE pc' = "table" /\ UNCHANGED process
    /\ UNCHANGED durable

(***************************************************************************)
(* The rest of openWriter.                                                 *)
(***************************************************************************)
OpenTable ==
    /\ pc = "table"
    /\ live' = LiveAfter(bin)
    /\ IF Opens(bin) THEN pc' = "shapes" /\ UNCHANGED process ELSE Down
    /\ UNCHANGED <<committed, objects, stagingVars, spoolVars, accepted>>

\* checkPendingShapes: a row of the current shape needs nothing recorded.
PendingMappable ==
    \A n \in Pending :
        \/ staged[n].fp = bin
        \/ staged[n].fp \in stagingShapes /\ Compatible(staged[n].fp, bin)

\* The sealed batches of the data directory go in the order of their rows.
OldestBatch == staged[Min({n \in Pending : staged[n].key \in replays})].key

Opened ==
    /\ pc = "shapes"
    /\ IF PendingMappable
       THEN /\ pc' = "idle"
            /\ replays' = StagedKeys
            /\ UNCHANGED <<bin, mode, backlog, job, starts>>
       ELSE Down
    /\ UNCHANGED durable

(***************************************************************************)
(* An open writer: Insert, and the worker's process() one effect at a time.*)
(***************************************************************************)
Running == pc \in {"idle", "prepare", "asked", "encode", "spool row", "upload", "commit", "mark", "prune"}

\* A record of the declaration, its optional columns filled or left null.
Insert ==
    /\ Running
    /\ Cardinality(DOMAIN accepted) < MaxRows
    /\ LET n == Cardinality(DOMAIN accepted) + 1
       IN  \E filled \in BOOLEAN :
              LET row == [i \in DOMAIN bin |-> IF bin[i].required \/ filled THEN i ELSE Null]
              IN  /\ accepted' = Put(accepted, n, [shape |-> bin, values |-> row])
                  /\ staged' = Put(staged, n, [fp |-> bin, values |-> row, key |-> Unsealed, dead |-> FALSE])
    /\ stagingShapes' = stagingShapes \union {bin}
    /\ UNCHANGED <<catalogVars, objects, spoolVars, process, pc>>

\* The worker takes the replayed batches first, then a batch a trigger cut from
\* the rows accepted or replayed unsealed.
TakeJob ==
    /\ pc = "idle"
    /\ IF replays # {}
       THEN /\ job' = [key |-> OldestBatch, rows |-> {n \in Pending : staged[n].key = OldestBatch}, replayed |-> TRUE]
            /\ replays' = replays \ {OldestBatch}
       ELSE /\ \E n \in Loose : job' = [key |-> Unsealed, rows |-> {m \in Loose : m <= n}, replayed |-> FALSE]
            /\ UNCHANGED replays
    /\ pc' = "prepare"
    /\ UNCHANGED <<durable, bin, mode, backlog, starts>>

ToCurrent(n) == Remap(staged[n].fp, bin, staged[n].values)
Unencodable == \E n \in job.rows : RemapRefused(staged[n].fp, bin, staged[n].values)
ShapesRead == \A n \in job.rows : staged[n].fp = bin \/ staged[n].fp \in stagingShapes

\* prepare, a sealed batch: the stored key stands, whatever the shape.
PrepareSealed ==
    /\ job.key # Unsealed
    /\ pc' = IF job.replayed /\ mode = "bucket" THEN "asked" ELSE "encode"
    /\ UNCHANGED <<stagingVars, job>>

SealedRow(n) == [staged[n] EXCEPT !.key = job'.key, !.fp = bin, !.values = ToCurrent(n)]
\* prepare, a new one: rows of another shape are recoded and the batch is
\* sealed under the hash of shape and payloads, in one transaction.
PrepareNew ==
    /\ job.key = Unsealed
    /\ job' = [job EXCEPT !.key = [shape |-> bin, rows |-> job.rows]]
    /\ staged' = [n \in DOMAIN staged |-> IF n \in job.rows THEN SealedRow(n) ELSE staged[n]]
    /\ stagingShapes' = stagingShapes \union {bin}
    /\ pc' = "encode"

\* A row that cannot be carried over quarantines its whole batch.
Quarantine ==
    /\ staged' = [n \in DOMAIN staged |-> IF n \in job.rows THEN [staged[n] EXCEPT !.dead = TRUE] ELSE staged[n]]
    /\ job' = NoJob /\ pc' = "idle"
    /\ UNCHANGED stagingShapes

Prepare ==
    /\ pc = "prepare" /\ ShapesRead
    /\ IF Unencodable THEN Quarantine ELSE PrepareSealed \/ PrepareNew
    /\ UNCHANGED <<catalogVars, objects, spoolVars, accepted, bin, mode, backlog, replays, starts>>

\* alreadyCommitted, asked of a replayed batch before anything is uploaded.
Ask ==
    /\ pc = "asked"
    /\ pc' = IF job.key \in committed THEN "mark" ELSE "encode"
    /\ UNCHANGED <<durable, process>>

\* Build and encodeParquet under the declaration's file schema, then the file
\* renamed into the cache directory.
File == [shape |-> bin, rows |-> [n \in job.rows |-> ToCurrent(n)]]
Encode ==
    /\ pc = "encode"
    /\ files' = Put(files, job.key, File)
    /\ pc' = "spool row"
    /\ UNCHANGED <<catalogVars, objects, stagingVars, spool, spoolShapes, accepted, process>>

\* RecordSpoolFile: a conflict moves the shape and leaves the rest.
RewrittenKept(r) == r
Rewritten(r) == [r EXCEPT !.fp = bin]
RecordSpoolFile ==
    /\ pc = "spool row"
    /\ spool' = IF job.key \in SpoolKeys
                THEN [i \in DOMAIN spool |-> IF spool[i].key = job.key THEN Rewritten(spool[i]) ELSE spool[i]]
                ELSE Append(spool, [key |-> job.key, fp |-> bin, done |-> FALSE])
    /\ spoolShapes' = spoolShapes \union {bin}
    /\ pc' = IF mode = "bucket" THEN "upload" ELSE "prune"
    /\ UNCHANGED <<catalogVars, objects, stagingVars, files, accepted, process>>

Upload ==
    /\ pc = "upload"
    /\ objects' = Put(objects, job.key, File)
    /\ pc' = "commit"
    /\ UNCHANGED <<catalogVars, stagingVars, spoolVars, accepted, process>>

\* AddFile.  The library checks the file against the live table; that it also
\* takes a file whose column is optional where the live one is required is
\* assumed here.
Commit ==
    /\ pc = "commit"
    /\ committed' = committed \union {job.key}
    /\ pc' = "mark"
    /\ UNCHANGED <<live, objects, stagingVars, spoolVars, accepted, process>>

MarkCommitted ==
    /\ pc = "mark"
    /\ MarkDone(job.key)
    /\ pc' = "prune"
    /\ UNCHANGED <<catalogVars, objects, stagingVars, files, spoolShapes, accepted, process>>

\* Delete, then PruneSchemas: no staged row of any state names what goes.
NamedShapes(rows) == {rows[n].fp : n \in DOMAIN rows}
Prune ==
    /\ pc = "prune"
    /\ staged' = Without(staged, job.rows)
    /\ stagingShapes' = stagingShapes \intersect NamedShapes(staged')
    /\ job' = NoJob /\ pc' = "idle"
    /\ UNCHANGED <<catalogVars, objects, spoolVars, accepted, bin, mode, backlog, replays, starts>>

\* The retention sweeper, which runs in bucket mode only.
Evict(i) ==
    /\ Running /\ mode = "bucket"
    /\ spool[i].done
    /\ files' = Without(files, {spool[i].key})
    /\ spool' = RemoveAt(spool, i)
    /\ spoolShapes' = spoolShapes \intersect {spool'[j].fp : j \in DOMAIN spool'}
    /\ UNCHANGED <<catalogVars, objects, stagingVars, accepted, process, pc>>

Next ==
    \/ OpenWriter \/ DrainSpool \/ Kill
    \/ DrainOpens \/ DrainPuts \/ DrainCommits \/ DrainMarks \/ DrainEnds
    \/ OpenTable \/ Opened
    \/ Insert \/ TakeJob \/ Prepare \/ Ask \/ Encode \/ RecordSpoolFile
    \/ Upload \/ Commit \/ MarkCommitted \/ Prune
    \/ \E i \in DOMAIN spool : Evict(i)

Spec == Init /\ [][Next]_vars

(***************************************************************************)
(* Properties.                                                             *)
(***************************************************************************)
Shapes == Declarations \union {NoShape}

\* The types of the state: keys name rows that were accepted, shapes are those
\* of deployed binaries.
TypeOK ==
    /\ DOMAIN staged \subseteq DOMAIN accepted /\ DOMAIN accepted \subseteq RowIds
    /\ \A n \in DOMAIN staged :
          /\ staged[n].fp \in Declarations /\ Len(staged[n].values) = Len(staged[n].fp)
          /\ staged[n].dead \in BOOLEAN
    /\ stagingShapes \union spoolShapes \subseteq Declarations
    /\ \A k \in DOMAIN files \union DOMAIN objects \union committed \union StagedKeys :
          k.shape \in Declarations /\ k.rows \subseteq DOMAIN accepted
    /\ IsInjective([i \in DOMAIN spool |-> spool[i].key])
    /\ bin \in Shapes /\ mode \in Modes
    /\ job.rows \subseteq Pending

Agrees(type, liveType) == type = liveType \/ <<type, liveType>> \in Widens

\* Every row of a file holds under each id exactly the value it was given for it,
\* and nothing under an id it was not given one for.
HoldsWhatWasGiven(k) ==
    LET file == objects[k]
    IN  /\ DOMAIN file.rows = k.rows
        /\ \A n \in k.rows :
              LET given == accepted[n].values
              IN  /\ \A i \in DOMAIN given : file.rows[n][i] = given[i]
                  /\ \A i \in DOMAIN file.rows[n] \ DOMAIN given : file.rows[n][i] = Null

\* Every column of a file is a live column of its id whose type holds the file's.
ColumnsLive(k) ==
    \A i \in DOMAIN objects[k].shape : i \in DOMAIN live /\ Agrees(objects[k].shape[i].type, live[i].type)

\* A committed file reads back what was accepted, whichever binary encoded it,
\* whatever the columns are called by then.  A batch quarantined after it was
\* spooled is excepted for its columns alone: its file can be of a later shape
\* than its row records, and the drain opens the table under the row's
\* (writer.go:265, drain.go:214).
ReadsAsWritten ==
    \A k \in committed :
        /\ k \in DOMAIN objects /\ HoldsWhatWasGiven(k)
        /\ k \notin QuarantinedKeys => ColumnsLive(k)

\* Without the exception: what drain.go says of every file it moves, and what a
\* fourth deployment refutes.
EveryColumnLive == \A k \in committed : ColumnsLive(k)

\* Whatever is still to be moved can be read: the descriptor of every staged
\* row's shape and of every spooled file's shape is in its table, however many
\* prunes and evictions ran between (staging PruneSchemas, PruneSpoolSchemas).
DescriptorsKept ==
    /\ \A n \in DOMAIN staged : staged[n].fp \in stagingShapes
    /\ \A i \in DOMAIN spool : spool[i].fp \in spoolShapes

\* A file the drain will move is on disk and has the shape its row records: a
\* replay that rewrites it under a new shape and the old key moves the row too
\* (UpsertSpoolFile), and until it has, the batch is staged and the drain leaves
\* it alone.  A batch quarantined after it was spooled is excepted: its rows no
\* longer hold the drain off, and a kill between file and row has gone unmended.
BacklogShapeAgrees ==
    \A i \in DOMAIN spool :
        ~spool[i].done /\ spool[i].key \notin StagedKeys \union QuarantinedKeys =>
            spool[i].key \in DOMAIN files /\ files[spool[i].key].shape = spool[i].fp

\* The backlog of staged rows and spooled files can be moved at any time, by any
\* binary.
BacklogReadable == DescriptorsKept /\ BacklogShapeAgrees

\* While a writer runs against a bucket the live table has its columns, by id,
\* name and type ("the declared schema being the live one is not a hope",
\* catalog.go): neither a rename that also retypes nor a backlog drained to an
\* older shape on the way leaves it otherwise.
LiveMatchesDeclaration ==
    Running /\ mode = "bucket" =>
        \A i \in DOMAIN bin :
            i \in DOMAIN live /\ live[i].name = bin[i].name /\ live[i].type = bin[i].type

\* The bytes under a committed key are never replaced by others: an upload over
\* it is "the same bytes, read from the same file, under the same key"
\* (drain.go).
CommittedBytesStand ==
    [][\A k \in committed : objects'[k] = objects[k]]_vars

=============================================================================
