------------------------------- MODULE Setup -------------------------------
(***************************************************************************)
(* What the three commands make of one deployment (cmd/icelake: env.go,    *)
(* check.go, rebuild.go, the first part of daemon.go; config.go;           *)
(* inspect/inspect.go; rebuild/discover.go; internal/flush/retry.go).      *)
(*                                                                         *)
(* A deployment is an environment, the schema document it names, and the   *)
(* retry settings, which only a program that imports the library can give. *)
(* A world is what a command finds: directory, pid file, staging database, *)
(* catalog, bucket and mirror.  `run`, `check` and `rebuild` each resolve  *)
(* the same environment; said is what the one that was typed told.         *)
(*                                                                         *)
(* A value is a text, a tuple: Unset, a word <<w>>, a quantity <<n, unit>>,*)
(* or, for the TTL, entries <<table, half seconds, column>>.  A word of    *)
(* the machine has WordBits bits and a sign; a byte unit is KiloBits bits  *)
(* above the one below it.  A parser returns the set of what it accepted.  *)
(***************************************************************************)
EXTENDS Integers, Sequences, FiniteSets

CONSTANTS
    WordBits,          \* 63
    KiloBits,          \* 10
    DefaultBaseDelay, DefaultMaxDelay,
    MaxAttempt,        \* bound on the attempts whose delay is looked at
    Deployments,       \* [env, retry, doc]
    Worlds             \* [dir, pid, staging, catalog, bucket, tables, mirror]

ASSUME SetupAssumption ==
    /\ WordBits \in Nat \ {0} /\ KiloBits \in Nat \ {0} /\ 4 * KiloBits < WordBits
    /\ DefaultBaseDelay \in Nat \ {0} /\ DefaultMaxDelay \in Nat
    /\ DefaultBaseDelay <= DefaultMaxDelay

\* What a metadata file of the bucket is: torn, whole, or not to be had.
MetadataFiles == {"torn", "parses", "unfetched"}
StagingFiles ==
    [file : {"readable", "absent", "unreadable"}, migrated : BOOLEAN, waiting : Nat, quarantined : Nat]

\* A staging database that is not there yet, or has no schema, holds nothing.
ASSUME WorldsAssumption ==
    \A w \in Worlds :
        /\ w \in [dir : BOOLEAN, pid : {"free", "held", "unreadable"}, staging : StagingFiles,
                 catalog : BOOLEAN, bucket : BOOLEAN, misnamed : BOOLEAN, tables : {w.tables},
                 mirror : BOOLEAN]
        /\ \A t \in DOMAIN w.tables : w.tables[t] \in Seq(MetadataFiles)
        /\ w.staging.file = "absent" \/ ~w.staging.migrated => w.staging.waiting = 0

VARIABLES
    deployment,   \* chosen once
    said          \* the command typed, the world it met, how it ended

setup == <<deployment, said>>
Silent == [cmd |-> "none"]

Unset == <<>>
Word(w) == <<w>>

\* Two to the n-th, by doubling.
TwoTo(n) == LET power[i \in 0..n] == IF i = 0 THEN 1 ELSE 2 * power[i - 1] IN power[n]

WordMax == TwoTo(WordBits) - 1
Wrapped(n) == ((n + TwoTo(WordBits)) % TwoTo(WordBits + 1)) - TwoTo(WordBits)

\* A delay is a word of the machine.
ASSUME DelaysAssumption ==
    /\ MaxAttempt \in Nat /\ DefaultMaxDelay <= WordMax
    /\ \A d \in Deployments : {d.retry.base, d.retry.max} \subseteq -(WordMax + 1)..WordMax

-----------------------------------------------------------------------------
\* env.go

Always == {"dataDir", "schemaFile"}
BucketOnly == {"catalogPath", "endpoint", "bucket", "prefix", "accessKeyID", "secretAccessKey",
               "cacheMaxAge", "cacheMaxBytes"}
Sizes == {"flushMaxBytes", "stagingMaxBytes", "maxLineBytes", "cacheMaxBytes"}
Counts == {"flushMaxRecords", "stagingMaxRecords", "zstdLevel"}
Durations == {"flushInterval", "cacheMaxAge", "shutdownTimeout"}
Booleans == {"localOnly", "clickHouseTLS"}
EnvVars == UNION {Always, BucketOnly, Sizes, Counts, Durations, Booleans,
                  {"cacheDir", "logLevel", "clickHouseAddr", "clickHouseUsername", "clickHouseTTL"}}

\* At the model's scale; a path that is derived from the data directory is a
\* word.  Variables whose value decides nothing below are left out.
Given ==
    [localOnly |-> Word("false"), clickHouseTLS |-> Word("false"),
     catalogPath |-> Word("derived"), cacheDir |-> Word("derived"), logLevel |-> Word("info"),
     shutdownTimeout |-> <<3, "s">>, flushInterval |-> <<1, "s">>, flushMaxBytes |-> <<4, "KB">>,
     flushMaxRecords |-> <<2, "bare">>, cacheMaxAge |-> <<2, "s">>, cacheMaxBytes |-> <<8, "KB">>,
     stagingMaxRecords |-> <<4, "bare">>, stagingMaxBytes |-> <<8, "KB">>, zstdLevel |-> <<19, "bare">>,
     maxLineBytes |-> <<4, "KB">>]
Defaults == [v \in EnvVars |-> IF v \in DOMAIN Given THEN Given[v] ELSE Unset]

IsSet(e, v) == e[v] # Unset
Value(e, v) == IF IsSet(e, v) THEN e[v] ELSE Defaults[v]

parseBool(t) ==
    CASE t = Word("true") -> {TRUE} [] t = Word("false") -> {FALSE} [] OTHER -> {}

logLevel(t) == {t} \cap {Word("debug"), Word("info"), Word("warn"), Word("error")}

Number(t) == Len(t) = 2 /\ t[1] \in -(WordMax + 1)..WordMax
parseInt(t) == {n \in {t[1]} : Number(t) /\ t[2] = "bare"}
parseDuration(t) == {n \in {t[1]} : Number(t) /\ t[2] = "s" /\ n >= 0}

Units == <<"KB", "MB", "GB", "TB">>
Power ==
    [u \in {"bare", "B", "KB", "MB", "GB", "TB"} |->
        IF u \in {"bare", "B"} THEN 0 ELSE CHOOSE i \in DOMAIN Units : Units[i] = u]
Scale(u) == TwoTo(KiloBits * Power[u])
Addressable == TwoTo(WordBits - 1)

\* mutant: the product is compared, after it has wrapped
FitsAfterwards(n, u) == Wrapped(n * Scale(u)) <= Addressable
Fits(n, u) == n <= Addressable \div Scale(u)

parseByteSize(t) ==
    IF Number(t) /\ t[2] \in DOMAIN Power /\ t[1] >= 0 /\ Fits(t[1], t[2])
    THEN {Wrapped(t[1] * Scale(t[2]))}
    ELSE {}

\* Half seconds: whole seconds, at least one; every table once, with its column.
parseClickHouseTTL(t) ==
    LET wellFormed(i) ==
            /\ t[i][1] # "" /\ t[i][3] # "" /\ t[i][2] >= 2 /\ t[i][2] % 2 = 0
            /\ \A j \in 1..(i - 1) : t[j][1] # t[i][1]
    IN IF \A i \in DOMAIN t : wellFormed(i)
       THEN {{[table |-> t[i][1], seconds |-> t[i][2] \div 2, column |-> t[i][3]]
               : i \in DOMAIN t}}
       ELSE {}

Parsed(e, v) ==
    LET t == Value(e, v)
    IN CASE v \in Booleans -> parseBool(t)
         [] v \in Durations -> parseDuration(t)
         [] v \in Counts -> parseInt(t)
         [] v \in Sizes -> parseByteSize(t)
         [] v = "logLevel" -> logLevel(t)
         [] v = "clickHouseTTL" -> parseClickHouseTTL(t)
         [] OTHER -> {t}

\* What was parsed, or the zero value beside the error.
Setting(e, v) ==
    IF Parsed(e, v) = {} THEN IF v \in Booleans THEN FALSE ELSE 0
    ELSE CHOOSE x \in Parsed(e, v) : TRUE

LocalOnly(e) == Setting(e, "localOnly")

\* The required-and-forbidden matrix.
Matrix(m, e) ==
    {v \in Always : ~IsSet(e, v) /\ ~(m = "rebuild" /\ v = "schemaFile")} \union
    {v \in BucketOnly : IF LocalOnly(e) THEN IsSet(e, v) ELSE ~IsSet(e, v) /\ Defaults[v] = Unset}

\* The variables readSettings refuses.
readSettings(m, e) ==
    Matrix(m, e)
      \union {v \in EnvVars : Parsed(e, v) = {} /\ ~(LocalOnly(e) /\ v \in {"cacheMaxAge", "cacheMaxBytes"})}
      \union {v \in {"zstdLevel"} : Setting(e, v) \notin 1..22}
      \union {v \in {"maxLineBytes"} : Setting(e, v) < 1}

\* daemon.go: the document, and the expiries bound to its tables.  A document is
\* [readable, valid, tables]; a table has a name and columns [kind, required].
loadTables(e, doc) ==
    /\ doc.readable /\ doc.valid /\ doc.tables # {}
    /\ \A entry \in Setting(e, "clickHouseTTL") : \E t \in doc.tables : t.name = entry.table

-----------------------------------------------------------------------------
\* config.go

\* settings.config, with the retry settings of the library's own callers.
Config(d) ==
    LET e == d.env
        remote(v) == IF LocalOnly(e) THEN Unset ELSE Value(e, v)
        bound(v) == IF LocalOnly(e) THEN 0 ELSE Setting(e, v)
    IN [LocalOnly |-> LocalOnly(e),
        CacheDir |-> Value(e, "cacheDir"),
        CatalogPath |-> remote("catalogPath"),
        Endpoint |-> Value(e, "endpoint"), Bucket |-> Value(e, "bucket"),
        WarehousePrefix |-> Value(e, "prefix"),
        AccessKeyID |-> Value(e, "accessKeyID"), SecretAccessKey |-> Value(e, "secretAccessKey"),
        CacheMaxAge |-> bound("cacheMaxAge"), CacheMaxBytes |-> bound("cacheMaxBytes"),
        FlushMaxRecords |-> Setting(e, "flushMaxRecords"),
        FlushMaxBytes |-> Setting(e, "flushMaxBytes"),
        FlushInterval |-> Setting(e, "flushInterval"),
        StagingMaxRecords |-> Setting(e, "stagingMaxRecords"),
        StagingMaxBytes |-> Setting(e, "stagingMaxBytes"),
        ZSTDLevel |-> Setting(e, "zstdLevel"),
        ClickHouse |-> IsSet(e, "clickHouseAddr"),
        Username |-> e["clickHouseUsername"],
        RetryBaseDelay |-> d.retry.base, RetryMaxDelay |-> d.retry.max]

cmpOrDefault(v, default) == IF v = 0 THEN default ELSE v

retrySettings(c) ==
    [BaseDelay |-> cmpOrDefault(c.RetryBaseDelay, DefaultBaseDelay),
     MaxDelay |-> cmpOrDefault(c.RetryMaxDelay, DefaultMaxDelay)]

Forbidden == {"Endpoint", "Bucket", "WarehousePrefix", "AccessKeyID", "SecretAccessKey"}

\* s3cfg; the command has no provider to give.
ValidateCredentials(c) ==
    {f \in {"AccessKeyID"} : c.AccessKeyID = Unset \/ c.SecretAccessKey = Unset}

validateMode(c) ==
    IF c.LocalOnly
    THEN {f \in {"CacheDir"} : c.CacheDir = Unset}
         \union {f \in Forbidden \union {"CatalogPath"} : c[f] # Unset}
         \union {f \in {"CacheMaxBytes", "CacheMaxAge"} : c[f] # 0}
    ELSE {f \in {"CatalogPath", "Endpoint", "Bucket", "WarehousePrefix"} : c[f] = Unset}
         \union ValidateCredentials(c)
         \union {f \in {"CacheMaxBytes", "CacheMaxAge"} : c[f] < 0 \/ (c[f] > 0 /\ c.CacheDir = Unset)}
         \union {f \in {"CacheDir"} : c[f] # Unset /\ c.CacheMaxBytes <= 0 /\ c.CacheMaxAge <= 0}

\* resolved.validate, and the two rules that relate it to the ceiling.
Exceeds(c, threshold, ceiling) == c[ceiling] > 0 /\ c[threshold] > 0 /\ c[ceiling] < c[threshold]
Thresholds(c) ==
    {f \in {"FlushMaxRecords", "FlushMaxBytes", "FlushInterval"} : c[f] <= 0}
      \union {f \in {"ZSTDLevel"} : c[f] \notin 1..22}
      \union {f \in {"FlushMaxRecords"} : Exceeds(c, f, "StagingMaxRecords")}
      \union {f \in {"FlushMaxBytes"} : Exceeds(c, f, "StagingMaxBytes")}

\* The fields Config.validate refuses.
validate(c) ==
    validateMode(c)
      \union {f \in {"RetryBaseDelay", "RetryMaxDelay"} : c[f] < 0}
      \union {f \in {"RetryBaseDelay"} :
                c[f] >= 0 /\ c.RetryMaxDelay >= 0
                  /\ retrySettings(c).BaseDelay > retrySettings(c).MaxDelay}
      \union {f \in {"Username"} : c.ClickHouse /\ c[f] = Unset}
      \union {f \in {"StagingMaxRecords", "StagingMaxBytes"} : c[f] <= 0}
      \union Thresholds(c)

\* retry.go: the un-jittered bound of the sleep after an attempt.

Doubled(d, max) == IF d > max \div 2 THEN max ELSE Wrapped(2 * d)

ceiling(r, attempt) ==
    LET after[k \in 0..attempt - 1] ==
            IF k = 0 THEN r.BaseDelay ELSE Doubled(after[k - 1], r.MaxDelay)
        d == after[attempt - 1]
    IN IF attempt < 1 \/ r.BaseDelay <= 0 THEN 0 ELSE IF d > r.MaxDelay THEN r.MaxDelay ELSE d

-----------------------------------------------------------------------------
\* The bucket: per table prefix, what its metadata files are, highest first.

\* inspect.go, probeTable: the first that is not torn.
probeTable(files) ==
    LET standing == {i \in DOMAIN files : files[i] # "torn"}
        current == CHOOSE i \in standing : \A j \in standing : i <= j
    IN IF files = <<>> THEN "new"
       ELSE IF standing = {} \/ files[current] = "unfetched" THEN "failed"
       ELSE "exists"

\* mutant: the highest-numbered file that can be fetched, read or torn
RegisteredTorn(files) == {i \in DOMAIN files : i = 1 /\ files[i] # "unfetched"}

\* discover.go, table: the file a rebuild registers, none when it gives up.
Registered(files) ==
    {i \in DOMAIN files : files[i] = "parses" /\ \A j \in 1..(i - 1) : files[j] = "torn"}

\* The prefixes discovery returns: all of them, or none when one is refused.
discovered(w) ==
    IF w.bucket /\ ~w.misnamed /\ \A t \in DOMAIN w.tables : Registered(w.tables[t]) # {}
    THEN DOMAIN w.tables ELSE {}

-----------------------------------------------------------------------------
\* run: launch, icelake.Open, OpenDynamicWriter.

\* The mirror's own refusals of a table, made after the store is open.
validateTTL(entry, t) ==
    \E c \in t.columns : c.name = entry.column /\ c.kind = "timestamptz" /\ c.required
MirrorRefuses(d) ==
    /\ IsSet(d.env, "clickHouseAddr")
    /\ \E t \in d.doc.tables :
         \/ t.separator
         \/ \E entry \in Setting(d.env, "clickHouseTTL") :
              entry.table = t.name /\ ~validateTTL(entry, t)

\* A bucket, or a table in it, that cannot be read fails an open that reads it.
Unread(d, w) ==
    /\ ~LocalOnly(d.env)
    /\ ~w.bucket \/ \E t \in d.doc.tables : t.name \in DOMAIN w.tables /\ probeTable(w.tables[t.name]) = "failed"

\* mutant: a ConfigError of the library's is not recognised
OpenRefusedPlain == "runtime"

\* The exit code of a ConfigError from icelake.Open.
OpenRefused == "usage"

runDaemon(d, w) ==
    IF validate(Config(d)) # {} THEN {OpenRefused}
    ELSE IF w.staging.file = "unreadable" \/ MirrorRefuses(d) THEN {"runtime"}
    ELSE {"serving"} \union {c \in {"runtime"} : Unread(d, w)}

launch(d, w) ==
    IF readSettings("run", d.env) # {} \/ ~loadTables(d.env, d.doc) THEN {"usage"}
    ELSE IF ~w.dir \/ w.pid # "free" THEN {"runtime"}
    ELSE runDaemon(d, w)

-----------------------------------------------------------------------------
\* check: runCheck and inspect.Inspect.

Trimmed(t) == IF t = Word("/") THEN Unset ELSE t

\* inspect.Options.validate
Inspectable(c) ==
    IF c.LocalOnly THEN \A f \in Forbidden : c[f] = Unset
    ELSE /\ c.Endpoint # Unset /\ c.Bucket # Unset /\ Trimmed(c.WarehousePrefix) # Unset
         /\ ValidateCredentials(c) = {}

\* staging.Summarize, and the stat before it.  A table the schema lacks is empty.
Summarize(f) ==
    [err |-> f.file = "unreadable",
     waiting |-> IF f.file = "readable" /\ f.migrated THEN f.waiting ELSE 0,
     quarantined |-> IF f.file = "readable" /\ f.migrated THEN f.quarantined ELSE 0]

\* The lines of the report that failed.
failedLines(d, w) ==
    LET remote == ~LocalOnly(d.env)
    IN {l \in {"daemon"} : w.pid = "unreadable"}
         \union {l \in {"staging"} : Summarize(w.staging).err}
         \union {l \in {"bucket"} : remote /\ ~w.bucket}
         \union {n \in {t.name : t \in d.doc.tables} :
                   remote /\ (~w.bucket \/ (n \in DOMAIN w.tables /\ probeTable(w.tables[n]) = "failed"))}
         \union {l \in {"clickhouse"} : remote /\ IsSet(d.env, "clickHouseAddr") /\ ~w.mirror}

verdict(failed, s, running) ==
    IF s.err THEN "unknown"
    ELSE IF s.waiting = 0 THEN "nothing is waiting"
    ELSE IF failed # {} THEN "will upload once every check passes"
    ELSE IF running THEN "will upload as it drains" ELSE "will upload when it next runs"

\* The exit code and the verdict.
runCheck(d, w) ==
    IF readSettings("run", d.env) # {} \/ ~loadTables(d.env, d.doc) \/ ~Inspectable(Config(d))
    THEN [code |-> "usage", verdict |-> "none"]
    ELSE [code |-> IF failedLines(d, w) = {} THEN "ok" ELSE "runtime",
          verdict |-> verdict(failedLines(d, w), Summarize(w.staging), w.pid = "held")]

-----------------------------------------------------------------------------
\* rebuild: runRebuild and rebuild.Rebuild, with its two flags.

\* RebuildOptions.validate
Rebuildable(c) ==
    /\ c.Endpoint # Unset /\ c.Bucket # Unset /\ c.CatalogPath # Unset
    /\ Trimmed(c.WarehousePrefix) # Unset /\ ValidateCredentials(c) = {}

runRebuild(d, w, replace, dryRun) ==
    IF readSettings("rebuild", d.env) # {} \/ LocalOnly(d.env) THEN "usage"
    ELSE IF /\ Rebuildable(Config(d))
            /\ dryRun \/ replace \/ ~w.catalog
            /\ discovered(w) # {}
            /\ dryRun \/ w.dir
         THEN "ok" ELSE "runtime"

-----------------------------------------------------------------------------
\* One command is typed.

Told(cmd, w, code, verd, tables) ==
    said' = [cmd |-> cmd, world |-> w, code |-> code, verdict |-> verd, tables |-> tables]

Run ==
    \E w \in Worlds : \E c \in launch(deployment, w) : Told("run", w, c, "none", {})

Check ==
    \E w \in Worlds :
       LET end == runCheck(deployment, w)
       IN Told("check", w, end.code, end.verdict, {})

Rebuild ==
    \E w \in Worlds, replace, dryRun \in BOOLEAN :
       LET code == runRebuild(deployment, w, replace, dryRun)
       IN Told("rebuild", w, code, "none", IF code = "ok" THEN discovered(w) ELSE {})

SetupInit == deployment \in Deployments /\ said = Silent

SetupNext ==
    /\ said = Silent /\ UNCHANGED deployment
    /\ Run \/ Check \/ Rebuild

SetupSpec == SetupInit /\ [][SetupNext]_setup

-----------------------------------------------------------------------------
(***************************************************************************)
(* Properties.                                                             *)
(***************************************************************************)

Calm(w) ==
    /\ w.dir /\ w.bucket /\ w.mirror /\ ~w.misnamed /\ w.pid = "free"
    /\ w.staging.file # "unreadable"
    /\ \A t \in DOMAIN w.tables : Registered(w.tables[t]) # {}

Serves(d) == \E w \in Worlds : "serving" \in launch(d, w)

\* Exit code 2 is for good: no world lets the same command in, nor, when it is
\* check or rebuild that was refused, the daemon, except the one prefix they
\* alone refuse, and except that a local-only store has nothing to rebuild.
\* Exit code 1 of a run that met nothing wrong is a refusal of the mirror's
\* (main.go: "the code that means restarting will not help").
RefusedForGood ==
    /\ said # Silent /\ said.code = "usage" =>
         IF said.cmd = "rebuild" /\ LocalOnly(deployment.env)
         THEN \A w \in Worlds : runRebuild(deployment, w, TRUE, TRUE) = "usage"
         ELSE Serves(deployment) => deployment.env["prefix"] = Word("/") /\ said.cmd = "check"
    /\ said # Silent /\ said.code = "runtime" /\ said.cmd = "run" /\ Calm(said.world) =>
         MirrorRefuses(deployment)

\* What one command told is what the others meet in the same world.  A check
\* that passed is of a deployment a run can open, unless the library or the
\* mirror refuses it; what it says of the records is what the staging database
\* holds; and a rebuild that succeeded registered every table there is, each of
\* them one that check finds (inspect.go: "exactly as rebuild takes it").
CommandsAgree ==
    /\ said # Silent /\ said.cmd = "check" /\ said.code = "ok" =>
         \/ launch(deployment, [said.world EXCEPT !.dir = TRUE, !.pid = "free"]) = {"serving"}
         \/ validate(Config(deployment)) # {} \/ MirrorRefuses(deployment)
    /\ said # Silent /\ said.cmd = "check" /\ said.verdict = "nothing is waiting" =>
         LET f == said.world.staging IN f.file # "unreadable" /\ f.waiting = 0
    /\ said # Silent /\ said.cmd = "rebuild" /\ said.code = "ok" =>
         /\ said.tables = DOMAIN said.world.tables
         /\ \A t \in said.tables :
              LET files == said.world.tables[t]
              IN probeTable(files) = "exists" /\ \A i \in Registered(files) : files[i] = "parses"

\* A quantity that is accepted is the one that was written, and leaves a word
\* room for a count to be added to it; every delay is the base doubled, exactly,
\* up to the cap, whatever the attempt (parseByteSize: "multiplying first and
\* checking afterwards would wrap silently"; ceiling: "cannot overflow").
NumbersHold ==
    said = Silent =>
      /\ \A v \in Sizes : \A n \in Parsed(deployment.env, v) :
           LET t == Value(deployment.env, v)
           IN n = t[1] * Scale(t[2]) /\ 2 * n <= WordMax + 1
      /\ LET c == Config(deployment) r == retrySettings(c)
         IN validate(c) = {} => \A k \in 1..MaxAttempt :
              LET exact == r.BaseDelay * TwoTo(k - 1)
              IN ceiling(r, k) = IF exact > r.MaxDelay THEN r.MaxDelay ELSE exact

=============================================================================
