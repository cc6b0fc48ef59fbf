------------------------------- MODULE Mirror -------------------------------
(***************************************************************************)
(* The ClickHouse mirror of one table (internal/chmirror), where the flush *)
(* of a batch meets it: opening the writer prepares the mirror's table,    *)
(* and every attempt at a batch offers the encoded rows to the server      *)
(* before it commits them to the lake.  The server comes and goes, answers *)
(* are lost, the operator drops the table, the process is killed between   *)
(* any two calls and started again under another declaration.              *)
(*                                                                         *)
(* A declaration is the sequence of its columns, a column's place its      *)
(* field id.  Each batch holds one record; a value is the id of the column *)
(* it was given for.                                                       *)
(***************************************************************************)
EXTENDS Naturals, Sequences, FiniteSets, SequencesExt, FiniteSetsExt, Functions

CONSTANTS
    Deployments,        \* what may be started: a declaration, its MirrorTTL, LocalOnly
    OperatorTables,     \* the tables an operator may have made beforehand
    DedupWindow,        \* non_replicated_deduplication_window, 1000 in the code
    MaxBatches,         \* bound: batches sealed in all
    Poisoned,           \* batches that do not encode
    MaxFailures,        \* bound: failed calls to the lake
    MaxOutages,         \* bound: outages of the server
    MaxDrops,           \* bound: tables the operator drops
    MaxStarts           \* bound: process starts

ASSUME MirrorAssumption ==
    /\ DedupWindow \in Nat \ {0}
    /\ {MaxBatches, MaxFailures, MaxOutages, MaxDrops, MaxStarts} \subseteq Nat

Null == 0
Zero == 99
NoTTL == [column |-> "", seconds |-> 0]
NoTable == [columns |-> <<>>, ttl |-> NoTTL, dedup |-> FALSE, tokens |-> <<>>, rows |-> <<>>]
NoDeployment == [decl |-> <<>>, ttl |-> NoTTL, localOnly |-> FALSE]
BatchKeyColumn == "_batch_key"
Keys == 1..MaxBatches

VARIABLES
    waiting,    \* staged batches, oldest first: key, shape and values
    sealed,     \* batches sealed so far
    recorded,   \* what a data file holds of a batch: key to the file's row
    committed,  \* batches whose file the lake's table has, not the spool alone
    gone,       \* batches that left staging, committed or quarantined
    up,         \* the server answers
    table,      \* the mirror's table: columns, expiry, tokens, rows
    bin,        \* the deployment that is running
    ready,      \* Table.ready
    pc,         \* where the process is
    caller,     \* who is preparing the table: the open or an insert
    live,       \* the columns Ensure read from the server
    fresh,      \* batches sealed by this process and not attempted yet
    told,       \* batches OnClickHouseError was called with
    excused,    \* batches whose rows the operator dropped or their expiry removed
    spent       \* what is used of each bound

lake == <<waiting, sealed, recorded, committed, gone>>
server == <<up, table>>
process == <<bin, ready, pc, caller, live, fresh>>
ghosts == <<told, excused>>
vars == <<lake, server, process, ghosts, spent>>

Head1 == Head(waiting)
MayUse(k, bound) == spent[k] < bound
Use(k) == spent' = [spent EXCEPT ![k] = @ + 1]

(***************************************************************************)
(* The declared table: columnType, columnsFor, validateTTL.                *)
(***************************************************************************)
ServerType ==
    [boolean |-> "Bool", int |-> "Int32", long |-> "Int64", float |-> "Float32",
     double |-> "Float64", decimal |-> "Decimal", timestamptz |-> "DateTime64",
     string |-> "String", binary |-> "String"]

columnTypePlain(c) == [base |-> ServerType[c.type], nullable |-> FALSE]
columnType(c) == [base |-> ServerType[c.type], nullable |-> ~c.required]
KeyType == [base |-> "String", nullable |-> FALSE]

\* In the order of the declaration, the batch key last.
Columns(d) ==
    Append([i \in DOMAIN d |-> [name |-> d[i].name, type |-> columnType(d[i])]],
           [name |-> BatchKeyColumn, type |-> KeyType])
ColumnMap(d) ==
    [n \in {c.name : c \in ToSet(Columns(d))} |->
        (CHOOSE c \in ToSet(Columns(d)) : c.name = n).type]

ValidTTL(d, t) ==
    t = NoTTL \/ \E c \in ToSet(d) : c.name = t.column /\ c.type = "timestamptz" /\ c.required
NewTable(d, t) == BatchKeyColumn \notin {c.name : c \in ToSet(d)} /\ ValidTTL(d, t)

(***************************************************************************)
(* A row as it is written: to the data file by field id, to the mirror by  *)
(* name (appendColumn), a column the insert does not name left to the      *)
(* server.                                                                 *)
(***************************************************************************)
Remap(values, d) == [i \in DOMAIN d |-> IF i \in DOMAIN values THEN values[i] ELSE Null]
Appended(type, v) == IF v = Null /\ ~type.nullable THEN Zero ELSE v
MirrorRow(b, d) ==
    [n \in {c.name : c \in ToSet(d)} |->
        LET i == CHOOSE i \in DOMAIN d : d[i].name = n
        IN  Appended(columnType(d[i]), Remap(b.values, d)[i])]
Read(row, n) == IF n \in DOMAIN row THEN row[n] ELSE Null

(***************************************************************************)
(* The server: what its statements do.                                     *)
(***************************************************************************)
Created(d, t) == [columns |-> ColumnMap(d), ttl |-> t, dedup |-> TRUE, tokens |-> <<>>, rows |-> <<>>]
createTable == IF table = NoTable THEN Created(bin.decl, bin.ttl) ELSE table
addColumn(c) ==
    IF table = NoTable \/ c.name \in DOMAIN table.columns THEN table
    ELSE [table EXCEPT !.columns = [n \in DOMAIN @ \union {c.name} |-> IF n = c.name THEN c.type ELSE @[n]]]
modifyTTL == IF table = NoTable THEN table ELSE [table EXCEPT !.ttl = bin.ttl]

TokenOfAttempt(b) == <<b.key, b.key \in fresh>>
Token(b) == b.key
Takes == table # NoTable /\ {c.name : c \in ToSet(Columns(bin.decl))} \subseteq DOMAIN table.columns
Newest(s) == SubSeq(s, (IF Len(s) > DedupWindow THEN Len(s) - DedupWindow ELSE 0) + 1, Len(s))
Inserted(b) ==
    IF table.dedup /\ Token(b) \in ToSet(table.tokens) THEN table
    ELSE [table EXCEPT !.rows = Append(@, [key |-> b.key, row |-> MirrorRow(b, bin.decl)]),
                       !.tokens = Newest(Append(@, Token(b)))]

\* One statement to the server.  Its answer can be lost whether or not it took
\* effect: the server went away under it, or the call's thirty seconds passed.
Answered(after) == up /\ table' = after /\ UNCHANGED <<up, spent>>
Refused(why) == why /\ Answered(table)
Unanswered(after) ==
    \/ ~up /\ UNCHANGED <<up, table, spent>>
    \/ up /\ MayUse("outages", MaxOutages) /\ Use("outages")
       /\ up' = FALSE /\ table' \in {table, after}

-----------------------------------------------------------------------------
(***************************************************************************)
(* Initial state: nothing staged, and the server with or without a table.  *)
(***************************************************************************)
Init ==
    /\ waiting = <<>> /\ sealed = 0 /\ recorded = <<>> /\ committed = {} /\ gone = {}
    /\ up = TRUE /\ table \in {NoTable} \union OperatorTables
    /\ bin = NoDeployment
    /\ ready = FALSE /\ pc = "down" /\ caller = "open" /\ live = <<>> /\ fresh = {}
    /\ told = {} /\ excused = {}
    /\ spent = [failures |-> 0, outages |-> 0, drops |-> 0, starts |-> 0]

(***************************************************************************)
(* Opening the writer: mirrorFor.  A declaration the mirror cannot hold is *)
(* refused before any server is asked.                                     *)
(***************************************************************************)
\* checkPendingShapes: rows staged under a shape that this one cannot carry
\* refuse the open, as does the lake.
Carries(d) ==
    \A b \in ToSet(waiting) :
        /\ Len(b.shape) <= Len(d)
        /\ \A i \in DOMAIN b.shape : b.shape[i].type = d[i].type
        /\ \A i \in DOMAIN d : i > Len(b.shape) => ~d[i].required

Start ==
    /\ pc = "down" /\ MayUse("starts", MaxStarts)
    /\ \E d \in Deployments :
          /\ Carries(d.decl)
          /\ NewTable(d.decl, d.ttl)
          /\ bin' = d
    /\ Use("starts")
    /\ ready' = FALSE /\ pc' = "create" /\ caller' = "open" /\ live' = <<>> /\ fresh' = {}
    /\ UNCHANGED <<lake, server, ghosts>>

\* A live table the reconciliation will not touch refuses the open; anything
\* else that goes wrong is told, and the writer opens.  In a flush both are told,
\* and the batch goes on to the lake.
TellAndGoOn == pc' = "commit" /\ told' = told \union {Head1.key}
Conflict == IF caller = "open" THEN pc' = "down" /\ UNCHANGED told ELSE TellAndGoOn
FailsTheAttempt ==
    /\ pc' = "idle"
    /\ told' = told \union (IF caller = "open" THEN {} ELSE {Head1.key})
Fails == IF caller = "open" THEN pc' = "idle" /\ UNCHANGED told ELSE TellAndGoOn
Ready == ready' = TRUE /\ pc' = (IF caller = "open" THEN "idle" ELSE "insert")

(***************************************************************************)
(* Ensure: the table created if absent, its columns read, the missing ones *)
(* added, its expiry set.  One action per call to the server.              *)
(***************************************************************************)
EnsureUnchanged == UNCHANGED <<lake, bin, caller, fresh, excused>>

EnsureCreate ==
    /\ pc = "create"
    /\ \/ Answered(createTable) /\ pc' = "read" /\ UNCHANGED told
       \/ Unanswered(createTable) /\ Fails
    /\ UNCHANGED <<ready, live>> /\ EnsureUnchanged

liveColumns ==
    /\ pc = "read"
    /\ \/ /\ Answered(table) /\ pc' = "columns" /\ UNCHANGED told
          /\ live' = IF table = NoTable THEN <<>> ELSE table.columns
       \/ Unanswered(table) /\ Fails /\ UNCHANGED live
    /\ UNCHANGED ready /\ EnsureUnchanged

\* The declared columns in order: one that agrees is passed over, one that
\* disagrees or is required and missing is a conflict, an optional one is added.
Disagreeing == {i \in DOMAIN Columns(bin.decl) :
    LET c == Columns(bin.decl)[i] IN c.name \notin DOMAIN live \/ live[c.name] # c.type}

ReconcileColumn ==
    /\ pc = "columns" /\ Disagreeing # {}
    /\ LET c == Columns(bin.decl)[Min(Disagreeing)]
       IN  \/ /\ c.name \in DOMAIN live \/ ~c.type.nullable
              /\ Conflict /\ UNCHANGED <<live, server, spent>>
           \/ /\ c.name \notin DOMAIN live /\ c.type.nullable
              /\ \/ /\ table # NoTable /\ Answered(addColumn(c))
                    /\ live' = [n \in DOMAIN live \union {c.name} |->
                                   IF n = c.name THEN c.type ELSE live[n]]
                    /\ UNCHANGED <<pc, told>>
                 \/ /\ Refused(table = NoTable) \/ Unanswered(addColumn(c))
                    /\ Fails /\ UNCHANGED live
    /\ UNCHANGED ready /\ EnsureUnchanged

\* The expiry is overwritten where it disagrees, and left alone when none is
\* declared.
EnsureTTL ==
    /\ pc = "columns" /\ Disagreeing = {}
    /\ \/ bin.ttl = NoTTL /\ Ready /\ UNCHANGED <<server, told, spent>>
       \/ bin.ttl # NoTTL /\ table # NoTable /\ Answered(modifyTTL) /\ Ready /\ UNCHANGED told
       \/ /\ bin.ttl # NoTTL
          /\ Refused(table = NoTable) \/ Unanswered(modifyTTL)
          /\ Fails /\ UNCHANGED ready
    /\ UNCHANGED live /\ EnsureUnchanged

-----------------------------------------------------------------------------
(***************************************************************************)
(* The flush of the oldest batch: process, with the mirror at its encode   *)
(* seam.                                                                   *)
(***************************************************************************)
Idle == pc = "idle" /\ waiting # <<>>

\* The lake's table is asked, and it alone: a batch that a local-only process
\* spooled and did not prune is encoded, offered and written again.
AlreadyCommitted == ~bin.localOnly /\ Head1.key \notin fresh /\ Head1.key \in committed

Encodes ==
    /\ Head1.key \notin Poisoned
    /\ \A i \in DOMAIN bin.decl : bin.decl[i].required => Remap(Head1.values, bin.decl)[i] # Null

SkipToPrune ==
    /\ Idle /\ AlreadyCommitted
    /\ pc' = "prune"
    /\ UNCHANGED <<lake, server, bin, ready, caller, live, fresh, ghosts, spent>>

Quarantine ==
    /\ Idle /\ ~AlreadyCommitted /\ ~Encodes
    /\ waiting' = Tail(waiting) /\ gone' = gone \union {Head1.key}
    /\ UNCHANGED <<sealed, recorded, committed, server, process, ghosts, spent>>

Offer ==
    /\ Idle /\ ~AlreadyCommitted /\ Encodes
    /\ caller' = "insert" /\ pc' = IF ready THEN "insert" ELSE "create"
    /\ UNCHANGED <<lake, server, bin, ready, live, fresh, ghosts, spent>>

Insert ==
    /\ pc = "insert"
    /\ \/ Takes /\ Answered(Inserted(Head1)) /\ pc' = "commit" /\ UNCHANGED told
       \/ /\ Refused(~Takes) \/ Unanswered(IF Takes THEN Inserted(Head1) ELSE table)
          /\ Fails
    /\ UNCHANGED <<lake, bin, ready, caller, live, fresh, excused>>

\* The file, in the spool or the bucket, and after it the commit, which a
\* local-only process does not make.  A failure may come before either, between
\* them, or hide that both were done.
Recorded ==
    [k \in DOMAIN recorded \union {Head1.key} |->
        IF k = Head1.key THEN [shape |-> bin.decl, values |-> Remap(Head1.values, bin.decl)] ELSE recorded[k]]
Landed == IF bin.localOnly THEN committed ELSE committed \union {Head1.key}

Commit ==
    /\ pc = "commit"
    /\ \/ recorded' = Recorded /\ committed' = Landed
          /\ pc' = "prune" /\ UNCHANGED <<fresh, spent>>
       \/ /\ MayUse("failures", MaxFailures) /\ Use("failures")
          /\ \/ UNCHANGED <<recorded, committed>>
             \/ recorded' = Recorded /\ committed' \in {committed, Landed}
          /\ pc' = "idle" /\ fresh' = fresh \ {Head1.key}
    /\ UNCHANGED <<waiting, sealed, gone, server, bin, ready, caller, live, ghosts>>

Prune ==
    /\ pc = "prune"
    /\ waiting' = Tail(waiting) /\ gone' = gone \union {Head1.key}
    /\ pc' = "idle"
    /\ UNCHANGED <<sealed, recorded, committed, server, bin, ready, caller, live, fresh, ghosts, spent>>

-----------------------------------------------------------------------------
(***************************************************************************)
(* The callers, the operator, the server and the machine.                  *)
(***************************************************************************)
WriterOpen == pc = "idle" \/ (pc # "down" /\ caller = "insert")

Seal ==
    /\ WriterOpen /\ sealed < MaxBatches
    /\ \E full \in BOOLEAN :
          waiting' = Append(waiting,
              [key |-> sealed + 1, shape |-> bin.decl,
               values |-> [i \in DOMAIN bin.decl |-> IF full \/ bin.decl[i].required THEN i ELSE Null]])
    /\ sealed' = sealed + 1 /\ fresh' = fresh \union {sealed + 1}
    /\ UNCHANGED <<recorded, committed, gone, server, bin, ready, pc, caller, live, ghosts, spent>>

Kill ==
    /\ pc # "down" /\ MayUse("starts", MaxStarts)
    /\ pc' = "down"
    /\ bin' = NoDeployment
    /\ ready' = FALSE /\ caller' = "open" /\ live' = <<>> /\ fresh' = {}
    /\ UNCHANGED <<lake, server, ghosts, spent>>

Outage ==
    /\ up /\ MayUse("outages", MaxOutages) /\ Use("outages")
    /\ up' = FALSE
    /\ UNCHANGED <<lake, table, process, ghosts>>

ServerBack == ~up /\ up' = TRUE /\ UNCHANGED <<lake, table, process, ghosts, spent>>

DropTable ==
    /\ up /\ table # NoTable /\ MayUse("drops", MaxDrops) /\ Use("drops")
    /\ table' = NoTable /\ excused' = excused \union {table.rows[i].key : i \in DOMAIN table.rows}
    /\ UNCHANGED <<lake, up, process, told>>

\* The server removes a row that has expired, whenever it gets to it, and may
\* forget the token of its insert with it.
Expire ==
    /\ table # NoTable /\ table.ttl # NoTTL
    /\ \E i \in DOMAIN table.rows :
          LET its == {j \in DOMAIN table.tokens : table.tokens[j] = Token(table.rows[i])}
          IN  /\ \E tokens \in {table.tokens} \union {RemoveAt(table.tokens, j) : j \in its} :
                    table' = [table EXCEPT !.rows = RemoveAt(@, i), !.tokens = tokens]
              /\ excused' = excused \union {table.rows[i].key}
    /\ UNCHANGED <<lake, up, process, told, spent>>

Worker ==
    \/ EnsureCreate \/ liveColumns \/ ReconcileColumn \/ EnsureTTL
    \/ SkipToPrune \/ Quarantine \/ Offer \/ Insert \/ Commit \/ Prune
Next == Start \/ Worker \/ Seal \/ Kill \/ Outage \/ ServerBack \/ DropTable \/ Expire

Spec == Init /\ [][Next]_vars /\ WF_vars(Worker)

-----------------------------------------------------------------------------
(***************************************************************************)
(* Properties.                                                             *)
(***************************************************************************)
MirroredRows == IF table = NoTable THEN {} ELSE ToSet(table.rows)

\* A batch is in the mirror once, however often its insert is sent again after
\* a failure, a lost answer or a crash (table.go, Insert's deduplication token).
OncePerBatch ==
    table # NoTable => \A i, j \in DOMAIN table.rows : table.rows[i].key = table.rows[j].key => i = j

\* A batch of which there is a data file is in the mirror, or somebody was told
\* that it is not, or it was there and the operator dropped it or the expiry of
\* the table removed it (flush.go, mirror: "reports what happens").
MissedIsTold ==
    DOMAIN recorded \subseteq {r.key : r \in MirroredRows} \union told \union excused

\* A batch is in the mirror once, or not at all: told, dropped or expired.
OnceOrTold == OncePerBatch /\ MissedIsTold

\* The two doors: what the mirror holds of a batch is what its data file holds,
\* column by column, a null a null (docs/ARCHITECTURE.md, two-door identity).
TwoDoorsAgree ==
    \A r \in MirroredRows : r.key \in DOMAIN recorded =>
        LET file == recorded[r.key]
        IN  \A i \in DOMAIN file.shape : Read(r.row, file.shape[i].name) = file.values[i]

\* Whatever the server does, an open writer's batches leave staging, until the
\* process ends: the mirror never holds the lake (flush.go, mirror).
LakeNeverWaits ==
    \A k \in Keys : (WriterOpen /\ \E i \in DOMAIN waiting : waiting[i].key = k) ~> (k \in gone \/ pc = "down")

=============================================================================
