------------------------------ MODULE MCDaemon ------------------------------
(***************************************************************************)
(* Small instances of Setup and of Daemon: every deployment is resolved by *)
(* every command, and the daemons of Daemon are those of the plain one,    *)
(* once a run in it has been let through.                                  *)
(***************************************************************************)
EXTENDS Daemon, Setup, TLC

FirstInodes == 1..(Cardinality(Starters) + 1)

-----------------------------------------------------------------------------
\* Deployments: working environments, one variable of which is given another
\* value, under each document; and other retry settings.

BucketEnv ==
    [v \in EnvVars |->
       IF v \in Always \union {"endpoint", "bucket", "prefix", "accessKeyID", "secretAccessKey"}
       THEN Word("w") ELSE Unset]
LocalEnv ==
    [v \in EnvVars |-> IF v \in Always THEN Word("w")
                       ELSE IF v = "localOnly" THEN Word("true") ELSE Unset]
Mirrored(e) == [e EXCEPT !["clickHouseAddr"] = Word("w"), !["clickHouseUsername"] = Word("w")]
Bases ==
    {BucketEnv, LocalEnv, Mirrored(BucketEnv), Mirrored(LocalEnv),
     [BucketEnv EXCEPT !["cacheMaxAge"] = <<0, "s">>],
     [BucketEnv EXCEPT !["stagingMaxBytes"] = <<1, "TB">>]}

Values ==
    [v \in {"dataDir", "schemaFile", "endpoint", "bucket", "accessKeyID", "secretAccessKey",
            "catalogPath", "cacheDir", "clickHouseAddr", "clickHouseUsername"} |->
       {Unset, Word("w")}]
    @@ ("prefix" :> {Unset, Word("w"), Word("/")}
        @@ "localOnly" :> {Word("true"), Word("maybe")}
        @@ "logLevel" :> {Word("junk")}
        @@ "shutdownTimeout" :> {<<-1, "s">>}
        @@ "clickHouseTLS" :> {Word("maybe")}
        @@ "flushMaxBytes" :> {<<0, "B">>, <<-1, "B">>, <<16, "KB">>, <<1, "TB">>, <<2, "TB">>}
        @@ "stagingMaxBytes" :> {<<0, "bare">>, <<1, "TB">>, <<3, "TB">>, Word("junk")}
        @@ "maxLineBytes" :> {<<0, "B">>}
        @@ "flushMaxRecords" :> {<<0, "bare">>, <<5, "bare">>, <<1, "B">>}
        @@ "stagingMaxRecords" :> {<<0, "bare">>, <<-1, "bare">>}
        @@ "zstdLevel" :> {<<23, "bare">>}
        @@ "flushInterval" :> {<<0, "s">>, <<-1, "s">>}
        @@ "cacheMaxAge" :> {<<0, "s">>, <<1, "bare">>}
        @@ "cacheMaxBytes" :> {<<0, "B">>, <<2, "TB">>}
        @@ "clickHouseTTL" :>
             {<<<<"a.t", 2, "at">>>>, <<<<"a.t", 2, "seen">>>>, <<<<"b.u", 2, "at">>>>,
              <<<<"a.t", 3, "at">>>>, <<<<"a.t", 2, "at">>, <<"a.t", 4, "at">>>>})
Changes == UNION {{<<v, x>> : x \in Values[v]} : v \in DOMAIN Values}

Columns == {[name |-> "at", kind |-> "timestamptz", required |-> TRUE],
            [name |-> "seen", kind |-> "timestamptz", required |-> FALSE]}
Table(n, sep) == [name |-> n, separator |-> sep, columns |-> Columns]
Document(ts) == [readable |-> TRUE, valid |-> TRUE, tables |-> ts]
PlainDoc == Document({Table("a.t", FALSE)})
Documents ==
    {[PlainDoc EXCEPT !.readable = FALSE], [PlainDoc EXCEPT !.valid = FALSE], Document({}),
     Document({Table("a.t", FALSE), Table("a.x__u", TRUE)})}

PlainRetry == [base |-> 0, max |-> 0]
Retries == {[base |-> b, max |-> m] : b \in {-1, 0, 1, 3}, m \in {-1, 0, 2, 100, WordMax}}

Plain == [env |-> BucketEnv, retry |-> PlainRetry, doc |-> PlainDoc]
Change(e, p) == [e EXCEPT ![p[1]] = p[2]]
SmallDeployments ==
    {[Plain EXCEPT !.env = Change(b, p)] : b \in Bases, p \in Changes}
      \union {[Plain EXCEPT !.env = b, !.doc = t] : b \in Bases, t \in Documents}
      \union {[Plain EXCEPT !.retry = r] : r \in Retries}

-----------------------------------------------------------------------------
\* Worlds: one thing of a calm one is otherwise.

Staged(n, q) ==
    [file |-> "readable", migrated |-> TRUE, waiting |-> n, quarantined |-> q]
CalmWorld ==
    [dir |-> TRUE, pid |-> "free", staging |-> Staged(0, 0), catalog |-> FALSE, bucket |-> TRUE,
     misnamed |-> FALSE, tables |-> "a.t" :> <<"torn", "parses", "unfetched">>, mirror |-> TRUE]
SmallWorlds ==
    {CalmWorld,
     [CalmWorld EXCEPT !.dir = FALSE], [CalmWorld EXCEPT !.catalog = TRUE],
     [CalmWorld EXCEPT !.bucket = FALSE], [CalmWorld EXCEPT !.misnamed = TRUE],
     [CalmWorld EXCEPT !.mirror = FALSE]}
      \union {[CalmWorld EXCEPT !.pid = p] : p \in {"held", "unreadable"}}
      \union {[CalmWorld EXCEPT !.staging = f] :
                f \in {Staged(2, 0), Staged(0, 1), [Staged(2, 0) EXCEPT !.file = "unreadable"],
                       [Staged(0, 0) EXCEPT !.file = "absent"],
                       [Staged(0, 0) EXCEPT !.migrated = FALSE]}}
      \union {[CalmWorld EXCEPT !.tables = t] :
                t \in {"a.t" :> <<>>, "a.t" :> <<"unfetched", "parses">>, "a.t" :> <<"torn">>,
                       "a.t" :> <<"parses">> @@ "b.u" :> <<"torn", "parses">>,
                       "a.t" :> <<"parses">> @@ "b.u" :> <<>>, <<>>}}

-----------------------------------------------------------------------------
\* What the composition does.

LetThrough ==
    deployment = Plain /\ said # Silent /\ said.cmd = "run" /\ said.world = CalmWorld

CommandsInit == Init /\ SetupInit
CommandsNext ==
    \/ SetupNext /\ UNCHANGED vars
    \/ LetThrough /\ Next /\ UNCHANGED setup
CommandsSpec == CommandsInit /\ [][CommandsNext]_<<vars, setup>> /\ Fairness

=============================================================================
