------------------------------ MODULE Rebuild ------------------------------
(***************************************************************************)
(* The catalog database and its reconstruction (rebuild/, metascan,        *)
(* catalogdb): a writer that creates tables and commits to them through    *)
(* the catalog's compare-and-swap, and is closed or killed; and the        *)
(* rebuild that reads each table's current metadata file off the bucket,   *)
(* with the writer stopped, and puts a whole new database in place.        *)
(*                                                                         *)
(* A metadata file says which batches are reachable from it.  Its name is  *)
(* its sequence number and a random identity, which breaks a tie between   *)
(* two files of one sequence any way.  One of which only a part was written *)
(* says nothing.  The database is SQLite in WAL mode:                      *)
(* what is committed sits in the -wal file until a checkpoint, and a clean *)
(* close checkpoints.                                                      *)
(***************************************************************************)
EXTENDS Naturals, FiniteSets, FiniteSetsExt, Functions

CONSTANTS
    Tables, Shapes,     \* a table's declarations, numbered in deployment order
    Rollbacks,          \* an older binary may be deployed again
    KillAt,             \* the steps a rebuild can fail or die before
    MaxBatches,         \* bound on the batches of a table
    MaxFiles            \* bound on the metadata files of a table

Steps == {"scan", "temp", "rows", "sidecars", "rename"}

ASSUME RebuildAssumption ==
    /\ Shapes \subseteq Nat \ {0} /\ Shapes # {}
    /\ KillAt \subseteq Steps /\ Rollbacks \in BOOLEAN
    /\ MaxBatches \in Nat /\ MaxFiles \in Nat

VARIABLES
    files,      \* per table, the metadata files in the bucket that parse
    torn,       \* the tables that have one that does not
    acked,      \* per table, the batches the writer has been told are committed
    exists,     \* there is a catalog database
    main, wal,  \* per table, its row in the database file, and the newer row in the log
    writer,     \* "down" or "up"
    declared,   \* the shape the writer's binary declares
    opened,     \* tables that are open
    put,        \* per table, the metadata file put and not yet swapped in
    step,       \* where the rebuild is, "idle" when none runs
    found,      \* per table, the file the rebuild registers
    temp        \* per table, its row in the temporary database

bucket == <<files, torn, acked>>
catalog == <<exists, main, wal>>
process == <<writer, declared, opened, put>>
rebuild == <<step, found, temp>>
vars == <<bucket, catalog, process, rebuild>>

Batches == 1..MaxBatches
Files == [seq : Nat, id : Nat, holds : SUBSET Batches, shape : Shapes]
NoFile == [seq |-> 0, id |-> 0, holds |-> {}, shape |-> 0]
Rows == [Tables -> Files \union {NoFile}]
NoRows == [t \in Tables |-> NoFile]

TypeOK ==
    /\ files \in [Tables -> SUBSET Files] /\ torn \subseteq Tables /\ acked \in [Tables -> SUBSET Batches]
    /\ exists \in BOOLEAN /\ {main, wal, found, temp, put} \subseteq Rows
    /\ writer \in {"down", "up"} /\ declared \in Shapes /\ opened \subseteq Tables
    /\ step \in Steps \union {"idle"}

Init ==
    /\ files = [t \in Tables |-> {}] /\ torn = {} /\ acked = [t \in Tables |-> {}]
    /\ exists = FALSE /\ main = NoRows /\ wal = NoRows
    /\ writer = "down" /\ declared = Min(Shapes) /\ opened = {} /\ put = NoRows
    /\ step = "idle" /\ found = NoRows /\ temp = NoRows

\* The row a reader of the database sees.
Row(t) == IF wal[t] # NoFile THEN wal[t] ELSE main[t]

-----------------------------------------------------------------------------
\* The writer.

\* store.Open, which creates a database where there is none.  Over a bucket that
\* has tables it must not be asked to: that is what a rebuild is for.
Start ==
    /\ writer = "down" /\ step = "idle"
    /\ exists \/ \A t \in Tables : files[t] = {}
    /\ writer' = "up" /\ exists' = TRUE
    /\ \E d \in Shapes : (Rollbacks \/ d >= declared) /\ declared' = d
    /\ UNCHANGED <<bucket, main, wal, opened, put, rebuild>>

\* iceberg-go writes a metadata file one sequence past the row's, with an
\* identity of its own, before it touches the row; whoever asked for one that is
\* written in part tries again.
Put(t, seq, holds, shape) ==
    /\ put[t] = NoFile /\ Cardinality(files[t]) < MaxFiles
    /\ LET f == [seq |-> seq, id |-> Cardinality(files[t]) + 1, holds |-> holds, shape |-> shape]
       IN  \/ /\ files' = [files EXCEPT ![t] = @ \union {f}] /\ put' = [put EXCEPT ![t] = f]
              /\ UNCHANGED torn
           \/ /\ torn' = torn \union {t}
              /\ UNCHANGED <<files, put>>
    /\ UNCHANGED <<acked, catalog, writer, declared, opened, rebuild>>

CreateTable(t) ==
    /\ writer = "up" /\ t \notin opened /\ Row(t) = NoFile
    /\ Put(t, 0, {}, declared)

Reconcile(t) ==
    /\ writer = "up" /\ t \notin opened
    /\ Row(t) # NoFile /\ Row(t).shape < declared
    /\ Put(t, Row(t).seq + 1, Row(t).holds, declared)

\* The table is there and shows what is declared, or more.
OpenTable(t) ==
    /\ writer = "up" /\ t \notin opened /\ put[t] = NoFile
    /\ Row(t) # NoFile /\ Row(t).shape >= declared
    /\ opened' = opened \union {t}
    /\ UNCHANGED <<bucket, catalog, writer, declared, put, rebuild>>

\* The batch at the head of the table's queue; one already in the table is only
\* acknowledged.
Head(t) == Cardinality(acked[t]) + 1

CommitBatch(t) ==
    /\ t \in opened /\ Head(t) \in Batches
    /\ Head(t) \notin Row(t).holds
    /\ Put(t, Row(t).seq + 1, Row(t).holds \union {Head(t)}, Row(t).shape)

AlreadyCommitted(t) ==
    /\ t \in opened /\ Head(t) \in Batches /\ put[t] = NoFile
    /\ Head(t) \in Row(t).holds
    /\ acked' = [acked EXCEPT ![t] = @ \union {Head(t)}]
    /\ UNCHANGED <<files, torn, catalog, process, rebuild>>

\* The compare-and-swap of the row.
Swap(t) ==
    /\ put[t] # NoFile
    /\ wal' = [wal EXCEPT ![t] = put[t]]
    /\ put' = [put EXCEPT ![t] = NoFile]
    /\ acked' = [acked EXCEPT ![t] = @ \union (IF t \in opened THEN put[t].holds ELSE {})]
    /\ UNCHANGED <<files, torn, exists, main, writer, declared, opened, rebuild>>

\* The catalog refuses; the file stays in the bucket, and whoever asked tries again.
SwapFails(t) ==
    /\ put[t] # NoFile
    /\ put' = [put EXCEPT ![t] = NoFile]
    /\ UNCHANGED <<bucket, catalog, writer, declared, opened, rebuild>>

Checkpointed ==
    /\ main' = [t \in Tables |-> Row(t)] /\ wal' = NoRows
    /\ UNCHANGED exists

Checkpoint ==
    /\ writer = "up" /\ wal # NoRows
    /\ Checkpointed
    /\ UNCHANGED <<bucket, process, rebuild>>

Stop == writer' = "down" /\ opened' = {} /\ put' = NoRows /\ UNCHANGED declared

\* Store.Close, once nothing is in flight.
CloseStore ==
    /\ writer = "up" /\ put = NoRows
    /\ Stop /\ Checkpointed
    /\ UNCHANGED <<bucket, rebuild>>

\* A kill leaves the log beside the database; whoever opens it next reads both.
Kill ==
    /\ writer = "up" /\ Stop
    /\ UNCHANGED <<bucket, catalog, rebuild>>

\* The disk the database is on is lost.
LoseCatalog ==
    /\ writer = "down" /\ step = "idle" /\ exists
    /\ exists' = FALSE /\ main' = NoRows /\ wal' = NoRows
    /\ UNCHANGED <<bucket, process, rebuild>>

-----------------------------------------------------------------------------
\* Rebuild, with the writer stopped.

\* What the scan can take for a table's current metadata file: any of the
\* highest sequence of those that parse.
Candidates(t) == {f \in files[t] : \A g \in files[t] : g.seq <= f.seq}

Registered == {t \in Tables : found[t] # NoFile}

\* An existing database is refused without Replace, and a bucket with no table
\* in it always.
Begin(replace) ==
    /\ step = "idle" /\ writer = "down"
    /\ ~exists \/ replace
    /\ step' = "scan"
    /\ UNCHANGED <<bucket, catalog, process, found, temp>>

\* A file that does not parse is stepped down from; a table that has no other
\* fails the scan.
Scan ==
    /\ step = "scan" /\ step' = "temp"
    /\ \E t \in Tables : files[t] # {}
    /\ \A t \in torn : files[t] # {}
    /\ found' \in {r \in [Tables -> (UNION Range(files)) \union {NoFile}] : \A t \in Tables :
                     IF files[t] = {} THEN r[t] = NoFile ELSE r[t] \in Candidates(t)}
    /\ UNCHANGED <<bucket, catalog, process, temp>>

RemoveTemp ==
    /\ step = "temp" /\ step' = "rows"
    /\ temp' = NoRows
    /\ UNCHANGED <<bucket, catalog, process, found>>

\* mutant: the rows go straight to the database's own path
RegisterInPlace(t) ==
    /\ step = "rows" /\ found[t] # NoFile /\ temp[t] = NoFile
    /\ temp' = [temp EXCEPT ![t] = found[t]]
    /\ exists' = TRUE /\ wal' = NoRows
    /\ main' = [u \in Tables |-> IF temp'[u] # NoFile THEN temp'[u] ELSE NoFile]

\* One row is one transaction.
RegisterTable(t) ==
    /\ step = "rows" /\ found[t] # NoFile /\ temp[t] = NoFile
    /\ temp' = [temp EXCEPT ![t] = found[t]]
    /\ UNCHANGED catalog

RegisterStep(t) ==
    /\ RegisterTable(t)
    /\ UNCHANGED <<bucket, process, step, found>>

\* Every row is in and the temporary database is closed.
Built ==
    /\ step = "rows" /\ \A t \in Registered : temp[t] # NoFile
    /\ step' = "sidecars"
    /\ UNCHANGED <<bucket, catalog, process, found, temp>>

RemoveSidecars ==
    /\ step = "sidecars" /\ step' = "rename"
    /\ wal' = NoRows
    /\ UNCHANGED <<bucket, exists, main, process, found, temp>>

Idle == step' = "idle" /\ found' = NoRows /\ temp' = NoRows

Rename ==
    /\ step = "rename" /\ Idle
    /\ exists' = TRUE /\ main' = temp /\ UNCHANGED wal
    /\ UNCHANGED <<bucket, process>>

\* An error, a signal or a kill; the temporary database is removed now, or by
\* the next rebuild.
Abort ==
    /\ step \in KillAt /\ Idle
    /\ UNCHANGED <<bucket, catalog, process>>

Next ==
    \/ Start \/ Checkpoint \/ CloseStore \/ Kill \/ LoseCatalog
    \/ \E t \in Tables :
         \/ CreateTable(t) \/ Reconcile(t) \/ OpenTable(t) \/ CommitBatch(t)
         \/ AlreadyCommitted(t) \/ Swap(t) \/ SwapFails(t) \/ RegisterStep(t)
    \/ (\E replace \in BOOLEAN : Begin(replace))
    \/ Scan \/ RemoveTemp \/ Built \/ RemoveSidecars \/ Rename \/ Abort

Spec == Init /\ [][Next]_vars

-----------------------------------------------------------------------------
(***************************************************************************)
(* Properties.                                                             *)
(***************************************************************************)

\* Whenever there is a catalog and no rebuild is at work, every batch the
\* writer has been told is committed is reachable through its table's row:
\* neither a kill of the writer nor a rebuild, whole, failed or interrupted,
\* takes a committed batch out of a table (register, Rebuild).
CatalogKeepsCommitted ==
    exists /\ step = "idle" =>
        \A t \in Tables : acked[t] # {} => Row(t) # NoFile /\ acked[t] \subseteq Row(t).holds

=============================================================================
