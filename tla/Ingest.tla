------------------------------- MODULE Ingest -------------------------------
(***************************************************************************)
(* IngestStream (ingest.go): a stream of envelopes read on one goroutine,  *)
(* collected into chunks, grouped by table and written through each        *)
(* table's batch door (Writer.InsertBatch), under the byte and record      *)
(* ceiling of the staging database that the flush workers give back.       *)
(*                                                                         *)
(* A record is a number, its place in the stream counted from one.         *)
(* stream[n] says what the code can tell of it: its table, its size, and   *)
(* its fate -                                                              *)
(*   good        it is accepted if there is room,                          *)
(*   refused     the writer's door refuses it (Bind, poison, encode),      *)
(*   unreadable  no envelope, no such table, or a row that cannot be       *)
(*               decoded: refused while the chunk is grouped,              *)
(*   unframed    refused by the framing, which reads nothing after it.     *)
(***************************************************************************)
EXTENDS Naturals, Sequences, FiniteSets, SequencesExt

CONSTANTS
    Tables,             \* tables that have a writer
    Streams,            \* the inputs: sequences of records
    ReadAhead,          \* buffer of the channel between framing and chunks
    ChunkMaxRecords, ChunkMaxBytes,
    StagingMaxRecords, StagingMaxBytes,
    MaxFaults           \* bound on failures met by the writes

Fates == {"good", "refused", "unreadable", "unframed"}
Record == [table : Tables, size : Nat \ {0}, fate : Fates]

ASSUME LimitsAssumption ==
    /\ {ReadAhead, ChunkMaxRecords, ChunkMaxBytes} \subseteq Nat \ {0}
    /\ {StagingMaxRecords, StagingMaxBytes} \subseteq Nat \ {0}
    /\ MaxFaults \in Nat
    /\ Streams \subseteq Seq(Record)

VARIABLES
    stream,      \* what the reader will yield
    cancelled,   \* the caller's context is done
    framed,      \* records the framing has taken from the reader
    framer,      \* "reading", "sending" (a record in hand) or "closed"
    readErr,     \* the record the framing refused, 0 for none
    queue,       \* the records channel
    pc,          \* where the calling goroutine is
    chunk,       \* the chunk being collected
    outcome,     \* why nextChunk stopped: "more", "ended", "stopped"
    groups,      \* the chunk's groups still to write, each in input order
    limit,       \* nothing at or after it may be written; 0 is no limit
    failure,     \* the refusal to report once the chunk is written
    rows, take,  \* writeGroup: what is left of the group, and how much to try
    again,       \* the group is being written a second time, cut
    held,        \* writeGroup has told the caller it is waiting
    durable,     \* per table, the records ever committed to staging, in order
    pending,     \* per table, the accepted records not yet committed
    charged,     \* the store's in-memory counters
    faults,      \* failures met so far
    result       \* what IngestStream returned

framing == <<framed, framer, readErr>>
chunking == <<chunk, outcome>>
writing == <<groups, limit, failure, rows, take, again, held>>
store == <<durable, pending, charged>>
vars == <<stream, cancelled, framing, queue, pc, chunking, writing, store, faults, result>>

Numbers == DOMAIN stream

\* What a set of records of a stream weighs, and so what a slice of them does:
\* no slice the code passes around holds a record twice.
WeightIn(st, S) ==
    LET upTo[n \in 0..Len(st)] ==
            IF n = 0 THEN 0 ELSE upTo[n - 1] + (IF n \in S THEN st[n].size ELSE 0)
    IN upTo[Len(st)]
Weight(S) == WeightIn(stream, S)
Bytes(s) == Weight(ToSet(s))

\* What IngestStream can return: nothing yet, nil, or an IngestError naming a
\* record, refused for itself or because a write failed.
Nothing == [kind |-> "none", at |-> 0]
Nil == [kind |-> "nil", at |-> 0]
Refusal(n) == [kind |-> "refused", at |-> n]
WriteFailed(n) == [kind |-> "write", at |-> n]
Results == {Nothing, Nil} \union [kind : {"refused", "write"}, at : Nat \ {0}]

Init ==
    /\ stream \in Streams
    /\ cancelled = FALSE
    /\ framed = 0 /\ framer = "reading" /\ readErr = 0 /\ queue = <<>>
    /\ pc = "first" /\ chunk = <<>> /\ outcome = "more"
    /\ groups = {} /\ limit = 0 /\ failure = Nothing
    /\ rows = <<>> /\ take = 0 /\ again = FALSE /\ held = FALSE
    /\ durable = [t \in Tables |-> <<>>] /\ pending = [t \in Tables |-> <<>>]
    /\ charged = [records |-> 0, bytes |-> 0]
    /\ faults = 0
    /\ result = Nothing

(***************************************************************************)
(* The framing goroutine, readRecords: one record in hand at a time, sent  *)
(* over the bounded channel or dropped when the context ends.              *)
(***************************************************************************)
Frame ==
    /\ framer = "reading"
    /\ IF framed = Len(stream)
       THEN framer' = "closed" /\ UNCHANGED <<framed, readErr>>
       ELSE /\ framed' = framed + 1
            /\ IF stream[framed + 1].fate = "unframed"
               THEN framer' = "closed" /\ readErr' = framed + 1
               ELSE framer' = "sending" /\ UNCHANGED readErr
    /\ UNCHANGED <<stream, cancelled, queue, pc, chunking, writing, store, faults, result>>

Send ==
    /\ framer = "sending"
    /\ Len(queue) < ReadAhead
    /\ queue' = Append(queue, framed)
    /\ framer' = "reading"
    /\ UNCHANGED <<stream, cancelled, framed, readErr, pc, chunking, writing, store, faults, result>>

FramerStops ==
    /\ framer = "sending" /\ cancelled
    /\ framer' = "closed"
    /\ UNCHANGED <<stream, cancelled, framed, readErr, queue, pc, chunking, writing, store, faults, result>>

\* The channel's end is seen only once what it holds has been taken.
Drained == queue = <<>> /\ framer = "closed"

(***************************************************************************)
(* nextChunk: wait for one record, then take what has already arrived.     *)
(***************************************************************************)
Take == /\ queue # <<>>
        /\ chunk' = Append(chunk, Head(queue))
        /\ queue' = Tail(queue)

Collected(why) == /\ outcome' = why /\ pc' = "group"
                  /\ UNCHANGED <<chunk, queue>>

FirstRecord ==
    /\ pc = "first"
    /\ \/ Take /\ pc' = "drain" /\ UNCHANGED outcome
       \/ Drained /\ Collected("ended")
       \/ cancelled /\ Collected("stopped")
    /\ UNCHANGED <<stream, cancelled, framing, writing, store, faults, result>>

\* Both bounds are looked at before a record is taken, never after.
Fits(c) == Len(c) < ChunkMaxRecords /\ Bytes(c) < ChunkMaxBytes

DrainQueue ==
    /\ pc = "drain"
    /\ \/ Fits(chunk) /\ Take /\ UNCHANGED <<pc, outcome>>
       \/ Fits(chunk) /\ Drained /\ Collected("ended")
       \/ (Fits(chunk) => queue = <<>> /\ ~Drained) /\ Collected("more")
    /\ UNCHANGED <<stream, cancelled, framing, writing, store, faults, result>>

(***************************************************************************)
(* groupChunk and upTo: the chunk up to the first record this layer does   *)
(* not read, one group per table, in the order the tables first appear.    *)
(***************************************************************************)
FirstUnreadable(c) ==
    LET i == SelectInSeq(c, LAMBDA n : stream[n].fate = "unreadable")
    IN IF i = 0 THEN 0 ELSE c[i]

\* A prefix: the records of a group are in ascending order.
UpTo(g, lim) ==
    LET beyond == {i \in DOMAIN g : lim # 0 /\ g[i] >= lim}
    IN IF beyond = {} THEN g ELSE SubSeq(g, 1, Min(beyond) - 1)

GroupOf(t, c) ==
    LET upTo[i \in 0..Len(c)] ==
            IF i = 0 THEN <<>>
            ELSE IF stream[c[i]].table = t THEN Append(upTo[i - 1], c[i]) ELSE upTo[i - 1]
    IN upTo[Len(c)]
GroupsOf(c) == {GroupOf(t, UpTo(c, FirstUnreadable(c))) : t \in Tables} \ {<<>>}

GroupChunk ==
    /\ pc = "group"
    /\ groups' = GroupsOf(chunk)
    /\ limit' = FirstUnreadable(chunk)
    /\ failure' = IF limit' = 0 THEN Nothing ELSE Refusal(limit')
    /\ pc' = "next"
    /\ UNCHANGED <<stream, cancelled, framing, queue, chunking, rows, take, again, held,
                   store, faults, result>>

(***************************************************************************)
(* writeChunk: the groups in order, which is that of their first records,  *)
(* each cut at the limit of the moment.                                    *)
(***************************************************************************)
Leading == CHOOSE g \in groups : \A h \in groups : Head(g) <= Head(h)
Group == UpTo(Leading, limit)
GroupTable == stream[Head(Leading)].table

StartGroup ==
    /\ pc = "next" /\ groups # {}
    /\ IF Group = <<>>
       THEN groups' = groups \ {Leading} /\ UNCHANGED <<rows, take, held, again, pc>>
       ELSE /\ rows' = Group /\ take' = Len(Group)
            /\ held' = FALSE /\ again' = FALSE
            /\ pc' = "write"
            /\ UNCHANGED groups
    /\ UNCHANGED <<stream, cancelled, framing, queue, chunking, limit, failure, store, faults, result>>

Return(r) == result' = r /\ pc' = "done"

\* The chunk is written: its refusal, the end of the stream, or the next chunk.
ChunkWritten ==
    /\ pc = "next" /\ groups = {}
    /\ \/ failure # Nothing /\ Return(failure) /\ UNCHANGED chunk
       \/ /\ failure = Nothing /\ outcome = "more"
          /\ chunk' = <<>> /\ pc' = "first" /\ UNCHANGED result
       \/ /\ failure = Nothing /\ outcome = "stopped"
          /\ Return(Nil) /\ UNCHANGED chunk
       \/ /\ failure = Nothing /\ outcome = "ended"
          /\ Return(IF readErr = 0 THEN Nil ELSE Refusal(readErr)) /\ UNCHANGED chunk
    /\ UNCHANGED <<stream, cancelled, framing, queue, outcome, writing, store, faults>>

(***************************************************************************)
(* Writer.InsertBatch on rows[:take]. Every row is bound, checked and      *)
(* encoded before the ceiling is charged, so a row's own refusal is met    *)
(* before ErrStagingFull can be.                                           *)
(***************************************************************************)
Attempt == SubSeq(rows, 1, take)
Room(s) == /\ charged.records + Len(s) <= StagingMaxRecords
           /\ charged.bytes + Bytes(s) <= StagingMaxBytes
RefusedInRoomOnly(s) == IF Room(s) THEN SelectInSeq(s, LAMBDA n : stream[n].fate = "refused") ELSE 0
RefusedIn(s) == SelectInSeq(s, LAMBDA n : stream[n].fate = "refused")

Staging == RefusedIn(Attempt) = 0 /\ Room(Attempt)

Stage(s) == durable' = [durable EXCEPT ![GroupTable] = @ \o s]

Charge(s) == /\ charged' = [records |-> charged.records + Len(s),
                            bytes |-> charged.bytes + Bytes(s)]
             /\ pending' = [pending EXCEPT ![GroupTable] = @ \o s]

\* The batch is staged and charged; the rest of the group is tried whole.
WriteAccepted ==
    /\ pc = "write"
    /\ RefusedIn(Attempt) = 0 /\ Room(Attempt)
    /\ Stage(Attempt) /\ Charge(Attempt)
    /\ held' = FALSE
    /\ rows' = SubSeq(rows, take + 1, Len(rows))
    /\ take' = Len(rows')
    /\ IF rows' = <<>> THEN pc' = "next" /\ groups' = groups \ {Leading}
                       ELSE UNCHANGED <<pc, groups>>
    /\ UNCHANGED <<stream, cancelled, framing, queue, chunking, limit, failure, again, faults, result>>

\* ErrStagingFull: half as many, and only a single record makes the reader wait.
NeverHalve == FALSE
MayHalve == take > 1

WriteFull ==
    /\ pc = "write"
    /\ RefusedIn(Attempt) = 0 /\ ~Room(Attempt)
    /\ IF MayHalve THEN take' = take \div 2 /\ UNCHANGED <<pc, held>>
                   ELSE pc' = "wait" /\ held' = TRUE /\ UNCHANGED take
    /\ UNCHANGED <<stream, cancelled, framing, queue, chunking, groups, limit, failure, rows,
                   again, store, faults, result>>

\* A BatchError: its index counts from the start of the slice of this attempt,
\* and the caller reads it against the numbers it passed to writeGroup. The
\* group is written again, cut at that record, and so is every later one; a
\* refusal of the second writing is reported as a failed write.
Blamed == Group[RefusedIn(Attempt)]
CutAway(n) == <<>>
CutAt(n) == UpTo(Leading, n)

WriteRefused ==
    /\ pc = "write" /\ RefusedIn(Attempt) # 0
    /\ IF again
       THEN Return(WriteFailed(Head(Group))) /\ UNCHANGED <<groups, limit, failure, rows, take, again, held>>
       ELSE LET cut == CutAt(Blamed) IN
            /\ limit' = Blamed /\ failure' = Refusal(Blamed)
            /\ rows' = cut /\ take' = Len(cut) /\ held' = FALSE
            /\ again' = (cut # <<>>)
            /\ IF cut = <<>> THEN pc' = "next" /\ groups' = groups \ {Leading}
                             ELSE UNCHANGED <<pc, groups>>
            /\ UNCHANGED result
    /\ UNCHANGED <<stream, cancelled, framing, queue, chunking, store, faults>>

\* The write fails for no row's sake, and the failure is reported against the
\* first record of the group: a closed writer, which is asked before the rows
\* are; a staging error that left nothing behind; a COMMIT that took effect and
\* answered with an error, whose charge is given back all the same; or an
\* OnAccept callback's error, which comes after the batch was accepted.
KeptCharge(s) == /\ charged' = [records |-> charged.records + Len(s), bytes |-> charged.bytes + Bytes(s)]
                 /\ UNCHANGED pending
GivenBack(s) == UNCHANGED <<pending, charged>>

WriteFails ==
    /\ pc = "write" /\ faults < MaxFaults
    /\ faults' = faults + 1
    /\ \/ UNCHANGED store
       \/ Staging /\ GivenBack(Attempt) /\ UNCHANGED durable
       \/ Staging /\ GivenBack(Attempt) /\ Stage(Attempt)
       \/ Staging /\ Charge(Attempt) /\ Stage(Attempt)
    /\ Return(WriteFailed(Head(Group)))
    /\ UNCHANGED <<stream, cancelled, framing, queue, chunking, writing>>

\* The staging transaction reports the caller's own context: the run was told
\* to stop, which is not a failure.
WriteStopped ==
    /\ pc = "write" /\ Staging /\ cancelled
    /\ Return(Nil)
    /\ UNCHANGED <<stream, cancelled, framing, queue, chunking, writing, store, faults>>

BackoffEnds ==
    /\ pc = "wait"
    /\ pc' = "write"
    /\ UNCHANGED <<stream, cancelled, framing, queue, chunking, writing, store, faults, result>>

WaitStopped ==
    /\ pc = "wait" /\ cancelled
    /\ Return(Nil)
    /\ UNCHANGED <<stream, cancelled, framing, queue, chunking, writing, store, faults>>

(***************************************************************************)
(* A table's worker commits and prunes its oldest batch, wherever the      *)
(* triggers cut it, and gives the charge back. The counters stop at zero.  *)
(***************************************************************************)
Less(a, b) == IF a < b THEN 0 ELSE a - b

Release(s) == charged' = [records |-> Less(charged.records, Len(s)),
                          bytes |-> Less(charged.bytes, Bytes(s))]

Commit(t) ==
    \E k \in 1..Len(pending[t]) :
        /\ Release(SubSeq(pending[t], 1, k))
        /\ pending' = [pending EXCEPT ![t] = SubSeq(@, k + 1, Len(@))]
        /\ UNCHANGED <<stream, cancelled, framing, queue, pc, chunking, writing, durable, faults, result>>

Cancel ==
    /\ ~cancelled /\ pc # "done"
    /\ cancelled' = TRUE
    /\ UNCHANGED <<stream, framing, queue, pc, chunking, writing, store, faults, result>>

Framing == Frame \/ Send \/ FramerStops
Calling == \/ FirstRecord \/ DrainQueue \/ GroupChunk \/ StartGroup \/ ChunkWritten
           \/ WriteAccepted \/ WriteFull \/ WriteRefused \/ WriteFails \/ WriteStopped
           \/ BackoffEnds \/ WaitStopped

Next == Framing \/ Calling \/ (\E t \in Tables : Commit(t)) \/ Cancel

\* Both goroutines run, and every table's interval trigger reaches its worker,
\* which commits while the bucket answers. Nobody owes a cancellation.
Spec == /\ Init /\ [][Next]_vars
        /\ WF_vars(Framing) /\ WF_vars(Calling)
        /\ \A t \in Tables : WF_vars(Commit(t))

-----------------------------------------------------------------------------
(***************************************************************************)
(* Properties.                                                             *)
(***************************************************************************)
TypeOK ==
    /\ stream \in Streams /\ cancelled \in BOOLEAN
    /\ framed \in 0..Len(stream) /\ readErr \in 0..Len(stream)
    /\ framer \in {"reading", "sending", "closed"}
    /\ queue \in Seq(Numbers) /\ Len(queue) <= ReadAhead
    /\ pc \in {"first", "drain", "group", "next", "write", "wait", "done"}
    /\ chunk \in Seq(Numbers) /\ Len(chunk) <= ChunkMaxRecords
    /\ outcome \in {"more", "ended", "stopped"}
    /\ groups \subseteq Seq(Numbers) \ {<<>>} /\ limit \in 0..Len(stream) /\ failure \in Results
    /\ rows \in Seq(Numbers) /\ take \in 0..Len(rows)
    /\ {again, held} \subseteq BOOLEAN
    /\ durable \in [Tables -> Seq(Numbers)] /\ pending \in [Tables -> Seq(Numbers)]
    /\ charged \in [records : 0..StagingMaxRecords, bytes : 0..StagingMaxBytes]
    /\ faults \in 0..MaxFaults /\ result \in Results

IsDurable(n) == \E t \in Tables : Contains(durable[t], n)

\* "Every record accepted before the refused one is durable in staging when
\* this returns": an error that names record n leaves no record before n out,
\* however the chunks, the groups, the second writing and the halving cut it.
NothingBeforeIsMissing ==
    result.kind \in {"refused", "write"} =>
        \A n \in Numbers : n < result.at => IsDurable(n)

\* A nil answer without a cancellation means the whole stream was accepted.
NilMeansAll == result = Nil /\ ~cancelled => \A n \in Numbers : IsDurable(n)

\* The rows of a table enter staging once each and in input order, though a
\* group may be cut, halved, held and written again.
OnceInOrder ==
    \A t \in Tables : \A i, j \in DOMAIN durable[t] : i < j => durable[t][i] < durable[t][j]

\* A refusal names a record that is itself at fault - the index the batch door
\* answers is read in the right coordinates - and no later record of its table
\* has been written.
NamesTheCulprit ==
    result.kind = "refused" =>
        /\ stream[result.at].fate # "good"
        /\ \A n \in result.at..Len(stream) :
              stream[n].table = stream[result.at].table => ~IsDurable(n)

\* The answer is true, whichever way the stream went.
ResultIsTrue == NilMeansAll /\ NothingBeforeIsMissing /\ NamesTheCulprit

\* The records the writers hold: accepted, and not committed yet.
Uncommitted == UNION {ToSet(pending[t]) : t \in Tables}

\* The counters charge exactly what the writers hold: nothing leaks when a
\* write fails half way, nothing is given back twice.
ChargeExact == charged = [records |-> Cardinality(Uncommitted), bytes |-> Weight(Uncommitted)]

\* A stream that is not cancelled ends, though one group be larger than the
\* whole ceiling: halving finds the prefix that fits, and the workers' commits
\* make room for the next. (Every record must fit on its own: see the README.)
StreamEnds == <>(pc = "done")
=============================================================================
