---------------------------- MODULE FlushWorker ----------------------------
(***************************************************************************)
(* One writer's concurrency: the flush worker goroutine, the timer         *)
(* goroutine, and the callers that insert, flush and close.  What one      *)
(* attempt does to a batch is FlushPath's subject; here an attempt has an  *)
(* outcome, and the question is who is told, when, and whether everybody   *)
(* who waits is answered.                                                  *)
(*                                                                         *)
(* A step is what happens under one hold of a lock, or one receive, send   *)
(* or select.  Two abstractions of data: the counter Worker.failures is    *)
(* only ever compared with the value a waiter started from, so it is kept  *)
(* as the set of waiters for which it has grown; and a closed and replaced *)
(* Worker.changed is the set of waiters whose channel has been closed.     *)
(***************************************************************************)
EXTENDS Naturals, Sequences, FiniteSets

CONSTANTS
    MaxBatch,    \* bound: batches sealed in this writer's life
    Replayed,    \* bound: batches handed over by a replay, ahead of any other
    Poison,      \* batches that can never be encoded
    Attempts,    \* Retry.MaxAttempts: one cycle's budget
    Flushers,    \* calls of Writer.Flush
    Closers,     \* calls of Writer.Close, or of Store.Close behind one
    Deadline     \* the calls whose context has a deadline

ASSUME FlushWorkerAssumption ==
    /\ MaxBatch \in Nat /\ Replayed \in 0..MaxBatch
    /\ Poison \subseteq 1..MaxBatch
    /\ Attempts \in Nat \ {0}
    /\ Flushers \cap Closers = {}
    /\ Deadline \subseteq Flushers \cup Closers

Batch == 1..MaxBatch
Caller == Flushers \cup Closers

VARIABLES
    \* the writer
    batch,        \* Writer.batch holds records not yet sealed
    closed,       \* Writer.closed
    timerStop,    \* the channel the timer goroutine is stopped by is closed
    timer,        \* the timer goroutine: "ticking", "kick" or "done"
    attached,     \* the writer holds its table's slot
    \* the worker, under its lock
    queue,        \* sequence numbers of the queued batches, head first
    enqueued, completed,
    failureSeq,   \* the batch Worker.failure belongs to, 0 for none
    noticeSeq,    \* quarantinedSeq: the batch whose quarantine is unreported
    stopping,
    \* the worker goroutine and its channels
    wake,         \* the one buffered signal
    cancelled,    \* the worker's context
    worker,       \* where the goroutine is; "exited" is Worker.done closed
    attempts, result,
    \* the callers
    pc, seq, outcome,
    behind,       \* waiters that started before the last recorded failure
    woken,        \* waiters whose `changed' has been closed
    expired,      \* callers whose context is done
    \* the world and what has happened in it
    up,           \* the operations an attempt needs succeed
    fate,         \* what became of each batch
    told,         \* batch -> the callers its quarantine was reported to
    heard         \* caller -> batches that failed a cycle since its call began

writer   == <<batch, closed, timerStop, timer, attached>>
state    == <<queue, enqueued, completed, failureSeq, noticeSeq, stopping>>
goroutine == <<worker, attempts, result>>
callers  == <<pc, seq, outcome, behind, woken, expired>>
history  == <<fate, told, heard>>
vars == <<writer, state, wake, cancelled, goroutine, callers, up, history>>

Results == {"none", "committed", "quarantined", "failed", "cut"}

Waiting == {c \in Caller : pc[c] \in {"look", "parked"}}

\* broadcastLocked: every waiter's channel is closed.
Broadcast == woken' = Waiting

\* Enqueue, with its broadcast and its signal, of the batch in memory.
SealNow ==
    IF batch
    THEN /\ batch' = FALSE
         /\ enqueued' = enqueued + 1
         /\ queue' = Append(queue, enqueued + 1)
         /\ wake' = TRUE
         /\ Broadcast
    ELSE UNCHANGED <<batch, enqueued, queue, wake, woken>>

(***************************************************************************)
(* Inserts and the timer.                                                  *)
(***************************************************************************)

\* A record is accepted.  The size trigger may find the batch large enough, and
\* the flush floor elapsed, and seal it on the way out.
Insert ==
    /\ ~closed
    /\ enqueued < MaxBatch
    /\ \/ /\ batch' = TRUE
          /\ UNCHANGED <<enqueued, queue, wake, woken>>
       \/ /\ batch' = FALSE
          /\ enqueued' = enqueued + 1
          /\ queue' = Append(queue, enqueued + 1)
          /\ wake' = TRUE
          /\ Broadcast
    /\ UNCHANGED <<closed, timerStop, timer, attached, completed, failureSeq, noticeSeq, stopping,
                   cancelled, goroutine, pc, seq, outcome, behind, expired, up, history>>

\* A tick seals what there is, unless the flush floor holds it back.
TickSeals ==
    /\ timer = "ticking"
    /\ timer' = "kick"
    /\ IF closed THEN UNCHANGED <<batch, enqueued, queue, wake, woken>> ELSE SealNow
    /\ UNCHANGED <<closed, timerStop, attached, completed, failureSeq, noticeSeq, stopping,
                   cancelled, goroutine, pc, seq, outcome, behind, expired, up, history>>

TickHeldByFloor ==
    /\ timer = "ticking" /\ batch /\ ~closed
    /\ timer' = "kick"
    /\ UNCHANGED <<batch, closed, timerStop, attached, state, wake, cancelled, goroutine,
                   callers, up, history>>

\* The tick kicks the worker whether or not there was anything to seal.
KickedOnlyWithWork == wake
Kicked == TRUE

TickKicks ==
    /\ timer = "kick"
    /\ timer' = "ticking"
    /\ wake' = Kicked
    /\ UNCHANGED <<batch, closed, timerStop, attached, state, cancelled, goroutine,
                   callers, up, history>>

TimerExits ==
    /\ timer = "ticking" /\ timerStop
    /\ timer' = "done"
    /\ UNCHANGED <<batch, closed, timerStop, attached, state, wake, cancelled, goroutine,
                   callers, up, history>>

(***************************************************************************)
(* Flush and Close.                                                        *)
(***************************************************************************)
Goto(c, p) == pc' = [pc EXCEPT ![c] = p]

Settle(c, a) ==
    /\ outcome' = [outcome EXCEPT ![c] = a]
    /\ Goto(c, IF c \in Flushers \/ a = "errclosed" THEN "returned" ELSE "stop")

\* Flush seals what is in memory, however little.
BeginFlush(c) ==
    /\ pc[c] = "ready" /\ c \in Flushers
    /\ IF closed
       THEN /\ Settle(c, "errclosed")
            /\ UNCHANGED <<batch, enqueued, queue, wake, woken>>
       ELSE /\ Goto(c, "sequence")
            /\ SealNow
            /\ UNCHANGED outcome
    /\ UNCHANGED <<closed, timerStop, timer, attached, completed, failureSeq, noticeSeq, stopping,
                   cancelled, goroutine, seq, behind, expired, up, history>>

\* Close refuses any further record and seals; whoever comes second only waits.
BeginClose(c) ==
    /\ pc[c] = "ready" /\ c \in Closers
    /\ closed' = TRUE
    /\ IF closed
       THEN /\ Goto(c, "second")
            /\ UNCHANGED <<batch, enqueued, queue, wake, woken>>
       ELSE /\ Goto(c, "stoptimer")
            /\ SealNow
    /\ UNCHANGED <<timerStop, timer, attached, completed, failureSeq, noticeSeq, stopping,
                   cancelled, goroutine, seq, outcome, behind, expired, up, history>>

\* The second to close waits for the first, or gives up on its own context; a
\* Store.Close that has given up goes on to cancel what the worker runs under.
SecondClose(c) ==
    /\ pc[c] = "second"
    /\ ~attached \/ c \in expired
    /\ Settle(c, "errclosed")
    /\ cancelled' \in {cancelled, TRUE}
    /\ UNCHANGED <<writer, state, wake, goroutine, seq, behind, woken, expired, up, history>>

StopTimer(c) ==
    /\ pc[c] = "stoptimer"
    /\ timerStop' = TRUE
    /\ Goto(c, "timerdone")
    /\ UNCHANGED <<batch, closed, timer, attached, state, wake, cancelled, goroutine,
                   seq, outcome, behind, woken, expired, up, history>>

TimerStopped(c) ==
    /\ pc[c] = "timerdone" /\ timer = "done"
    /\ Goto(c, "sequence")
    /\ UNCHANGED <<writer, state, wake, cancelled, goroutine,
                   seq, outcome, behind, woken, expired, up, history>>

Sequence(c) ==
    /\ pc[c] = "sequence"
    /\ seq' = [seq EXCEPT ![c] = enqueued]
    /\ Goto(c, "kick")
    /\ UNCHANGED <<writer, state, wake, cancelled, goroutine,
                   outcome, behind, woken, expired, up, history>>

Kick(c) ==
    /\ pc[c] = "kick"
    /\ wake' = TRUE
    /\ Goto(c, "since")
    /\ UNCHANGED <<writer, state, cancelled, goroutine,
                   seq, outcome, behind, woken, expired, up, history>>

\* Wait records how many cycles have failed so far: only a later one concerns it.
SinceAnyFailure(c) == behind \cup {c}
SinceNow(c) == behind \ {c}

Since(c) ==
    /\ pc[c] = "since"
    /\ behind' = SinceNow(c)
    /\ Goto(c, "look")
    /\ UNCHANGED <<writer, state, wake, cancelled, goroutine,
                   seq, outcome, woken, expired, up, history>>

\* What the state answers a waiter, in the order the code asks.
Answer(c) ==
    IF noticeSeq # 0 /\ noticeSeq <= seq[c] THEN "quarantined"
    ELSE IF c \in behind /\ failureSeq # 0 /\ failureSeq <= seq[c] THEN "failed"
    ELSE IF completed >= seq[c] THEN "nil"
    ELSE "none"

\* A quarantine is cleared by being reported, exactly once.
NoticeKept(a) == noticeSeq
NoticeAfter(a) == IF a = "quarantined" THEN 0 ELSE noticeSeq

Told(c, a) ==
    told' = IF a = "quarantined" THEN [told EXCEPT ![noticeSeq] = @ \cup {c}] ELSE told

Look(c) ==
    /\ pc[c] = "look"
    /\ LET a == Answer(c) IN
       /\ noticeSeq' = NoticeAfter(a)
       /\ Told(c, a)
       /\ IF a = "none"
          THEN Goto(c, "parked") /\ UNCHANGED outcome
          ELSE Settle(c, a)
    /\ woken' = woken \ {c}
    /\ UNCHANGED <<writer, queue, enqueued, completed, failureSeq, stopping, wake, cancelled,
                   goroutine, seq, behind, expired, up, fate, heard>>

Woken(c) ==
    /\ pc[c] = "parked" /\ c \in woken
    /\ Goto(c, "look")
    /\ UNCHANGED <<writer, state, wake, cancelled, goroutine,
                   seq, outcome, behind, woken, expired, up, history>>

WaitExpires(c) ==
    /\ pc[c] = "parked" /\ c \in expired
    /\ Settle(c, "expired")
    /\ UNCHANGED <<writer, state, wake, cancelled, goroutine,
                   seq, behind, woken, expired, up, history>>

\* The worker is gone: one last look.
SeesExit(c) ==
    /\ pc[c] = "parked" /\ worker = "exited"
    /\ LET a == Answer(c) IN
       /\ noticeSeq' = NoticeAfter(a)
       /\ Told(c, a)
       /\ Settle(c, IF a = "none" THEN "canceled" ELSE a)
    /\ UNCHANGED <<writer, queue, enqueued, completed, failureSeq, stopping, wake, cancelled,
                   goroutine, seq, behind, woken, expired, up, fate, heard>>

\* Worker.Close: stop, signal, wait for the goroutine to exit, and cancel what it
\* is doing when the context ends first.
Stop(c) ==
    /\ pc[c] = "stop"
    /\ stopping' = TRUE
    /\ Goto(c, "signal")
    /\ UNCHANGED <<writer, queue, enqueued, completed, failureSeq, noticeSeq, wake, cancelled,
                   goroutine, seq, outcome, behind, woken, expired, up, history>>

Signal(c) ==
    /\ pc[c] = "signal"
    /\ wake' = TRUE
    /\ Goto(c, "exit")
    /\ UNCHANGED <<writer, state, cancelled, goroutine,
                   seq, outcome, behind, woken, expired, up, history>>

CancelWorker(c) ==
    /\ pc[c] = "exit" /\ c \in expired
    /\ cancelled' = TRUE
    /\ Goto(c, "cancelled")
    /\ UNCHANGED <<writer, state, wake, goroutine,
                   seq, outcome, behind, woken, expired, up, history>>

\* The slot goes back once the goroutine has exited for certain.
MayDetachOnExpiry(c) == pc[c] = "cancelled" \/ (pc[c] = "exit" /\ worker = "exited")
MayDetach(c) == pc[c] \in {"exit", "cancelled"} /\ worker = "exited"

Detach(c) ==
    /\ MayDetach(c)
    /\ attached' = FALSE
    /\ cancelled' = TRUE
    /\ Goto(c, "returned")
    /\ UNCHANGED <<batch, closed, timerStop, timer, state, wake, goroutine,
                   seq, outcome, behind, woken, expired, up, history>>

ContextDone(c) ==
    /\ c \in Deadline \ expired
    /\ pc[c] \notin {"ready", "returned"}
    /\ expired' = expired \cup {c}
    /\ UNCHANGED <<writer, state, wake, cancelled, goroutine,
                   pc, seq, outcome, behind, woken, up, history>>

(***************************************************************************)
(* The worker goroutine (run, head, cycle, finish, notify, idle).          *)
(***************************************************************************)
Resume(p) == worker' = p /\ UNCHANGED <<attempts, result>>

WorkerOnly == UNCHANGED <<writer, state, cancelled, callers, up, history>>

HeadStep ==
    /\ worker = "head"
    /\ \/ cancelled /\ Resume("exited")
       \/ ~cancelled /\ queue # <<>> /\ worker' = "attempt" /\ attempts' = 0 /\ UNCHANGED result
       \/ ~cancelled /\ queue = <<>> /\ Resume(IF stopping THEN "exited" ELSE "idle")
    /\ UNCHANGED wake /\ WorkerOnly

\* The cycle is over, and finish is next.
EndCycle(r) ==
    /\ worker' = "finish"
    /\ result' = r

\* process succeeds, and an operation in flight when the context ends may too.
AttemptCommits ==
    /\ worker = "attempt"
    /\ up /\ Head(queue) \notin Poison
    /\ fate' = [fate EXCEPT ![Head(queue)] = "committed"]
    /\ EndCycle("committed")
    /\ UNCHANGED <<writer, state, wake, cancelled, attempts, callers, up, told, heard>>

AttemptQuarantines ==
    /\ worker = "attempt"
    /\ up /\ Head(queue) \in Poison
    /\ fate' = [fate EXCEPT ![Head(queue)] = "quarantined"]
    /\ EndCycle("quarantined")
    /\ UNCHANGED <<writer, state, wake, cancelled, attempts, callers, up, told, heard>>

\* The marking itself fails: a failure like any other, whatever the budget.
QuarantineFails ==
    /\ worker = "attempt"
    /\ ~up \/ cancelled
    /\ Head(queue) \in Poison
    /\ EndCycle("failed")
    /\ UNCHANGED <<wake, attempts>> /\ WorkerOnly

\* The cycle's budget.
SpentLate(n) == n > Attempts
Spent(n) == n >= Attempts

AttemptFails ==
    /\ worker = "attempt"
    /\ ~up \/ cancelled
    /\ attempts' = attempts + 1
    /\ \/ cancelled /\ EndCycle("cut")
       \/ ~cancelled /\ Spent(attempts + 1) /\ EndCycle("failed")
       \/ ~cancelled /\ ~Spent(attempts + 1) /\ worker' = "sleep" /\ UNCHANGED result
    /\ UNCHANGED wake /\ WorkerOnly

SleepEnds ==
    /\ worker = "sleep"
    /\ IF cancelled
       THEN EndCycle("cut") /\ UNCHANGED attempts
       ELSE Resume("attempt")
    /\ UNCHANGED wake /\ WorkerOnly

\* A batch leaves the queue when it is committed or quarantined, and only then.
LeavesAnyway(r) == TRUE
Leaves(r) == r \in {"committed", "quarantined"}

\* The unreported quarantine survives every later success.
NoticeLostOnSuccess(r) ==
    IF r = "quarantined" THEN Head(queue) ELSE IF r = "committed" THEN 0 ELSE noticeSeq
Notice(r) == IF r = "quarantined" THEN Head(queue) ELSE noticeSeq

NoBroadcastOnFailure == IF result = "committed" THEN woken' = Waiting ELSE UNCHANGED woken
FinishBroadcast == Broadcast

FinishStep ==
    LET b == Head(queue) IN
    /\ worker = "finish"
    /\ noticeSeq' = Notice(result)
    /\ IF Leaves(result)
       THEN queue' = Tail(queue) /\ completed' = completed + 1
       ELSE UNCHANGED <<queue, completed>>
    /\ IF result \in {"failed", "cut"}
       THEN /\ failureSeq' = b
            /\ behind' = behind \cup Waiting
            /\ heard' = [c \in Caller |->
                  IF pc[c] \in {"ready", "returned"} THEN heard[c] ELSE heard[c] \cup {b}]
       ELSE /\ failureSeq' = IF result = "committed" THEN 0 ELSE failureSeq
            /\ UNCHANGED <<behind, heard>>
    /\ FinishBroadcast
    /\ worker' = CASE result \in {"failed", "quarantined"} -> "notify"
                   [] result = "cut" -> "idle"
                   [] result = "committed" -> "head"
    /\ attempts' = 0
    /\ result' = IF result \in {"failed", "quarantined"} THEN result ELSE "none"
    /\ UNCHANGED <<writer, enqueued, stopping, wake, cancelled,
                   pc, seq, outcome, expired, up, fate, told>>

\* The caller's callback returns, or is no longer waited for.
NotifyStep ==
    /\ worker = "notify"
    /\ worker' = IF result = "quarantined" THEN "head" ELSE "idle"
    /\ result' = "none"
    /\ UNCHANGED attempts
    /\ UNCHANGED wake /\ WorkerOnly

IdleStep ==
    /\ worker = "idle"
    /\ Resume(IF stopping THEN "exited" ELSE "select")
    /\ UNCHANGED wake /\ WorkerOnly

SelectStep ==
    /\ worker = "select"
    /\ \/ wake /\ wake' = FALSE /\ Resume("woke")
       \/ cancelled /\ UNCHANGED wake /\ Resume("exited")
    /\ WorkerOnly

WokeStep ==
    /\ worker = "woke"
    /\ Resume(IF stopping /\ queue = <<>> THEN "exited" ELSE "head")
    /\ UNCHANGED wake /\ WorkerOnly

\* The bucket, the catalog or the disk goes away, or comes back.
WorldChanges ==
    /\ up' = ~up
    /\ UNCHANGED <<writer, state, wake, cancelled, goroutine, callers, history>>

(***************************************************************************)
Init ==
    /\ enqueued \in 0..Replayed /\ completed = 0
    /\ batch \in {b \in BOOLEAN : b => enqueued < MaxBatch} /\ closed = FALSE
    /\ timerStop = FALSE /\ timer = "ticking" /\ attached = TRUE
    /\ queue = [i \in 1..enqueued |-> i]
    /\ failureSeq = 0 /\ noticeSeq = 0 /\ stopping = FALSE
    /\ wake = (enqueued > 0) /\ cancelled = FALSE
    /\ worker = "head" /\ attempts = 0 /\ result = "none"
    /\ pc = [c \in Caller |-> "ready"]
    /\ seq = [c \in Caller |-> 0]
    /\ outcome = [c \in Caller |-> "none"]
    /\ behind = {} /\ woken = {} /\ expired = {}
    /\ up = TRUE
    /\ fate = [b \in Batch |-> "none"]
    /\ told = [b \in Batch |-> {}]
    /\ heard = [c \in Caller |-> {}]

Timer == TickSeals \/ TickHeldByFloor \/ TickKicks \/ TimerExits

Call(c) ==
    \/ SecondClose(c) \/ StopTimer(c) \/ TimerStopped(c)
    \/ Sequence(c) \/ Kick(c) \/ Since(c) \/ Look(c)
    \/ Woken(c) \/ WaitExpires(c) \/ SeesExit(c)
    \/ Stop(c) \/ Signal(c) \/ CancelWorker(c) \/ Detach(c)

Worker ==
    \/ HeadStep \/ AttemptCommits \/ AttemptQuarantines \/ QuarantineFails \/ AttemptFails
    \/ SleepEnds \/ FinishStep \/ NotifyStep \/ IdleStep \/ SelectStep \/ WokeStep

Next ==
    \/ Insert \/ Timer \/ Worker \/ WorldChanges
    \/ \E c \in Caller : BeginFlush(c) \/ BeginClose(c) \/ Call(c) \/ ContextDone(c)

Spec == Init /\ [][Next]_vars

(***************************************************************************)
(* Fairness.  Goroutines that can run do run; the interval elapses and so  *)
(* does the flush floor; a tick does not win the select against a closed   *)
(* stop channel forever; a context with a deadline ends.                   *)
(***************************************************************************)
Fairness ==
    /\ WF_vars(Worker)
    /\ WF_vars(TickSeals \/ TickHeldByFloor) /\ SF_vars(TickSeals)
    /\ WF_vars(TickKicks) /\ SF_vars(TimerExits)
    /\ \A c \in Caller : WF_vars(Call(c)) /\ WF_vars(ContextDone(c))

FairSpec == Spec /\ Fairness

(***************************************************************************)
(* What the callers are promised.                                          *)
(***************************************************************************)
TypeOK ==
    /\ batch \in BOOLEAN /\ closed \in BOOLEAN
    /\ timerStop \in BOOLEAN /\ timer \in {"ticking", "kick", "done"} /\ attached \in BOOLEAN
    /\ queue \in Seq(Batch)
    /\ enqueued \in 0..MaxBatch /\ completed \in 0..MaxBatch
    /\ failureSeq \in 0..MaxBatch /\ noticeSeq \in 0..MaxBatch
    /\ stopping \in BOOLEAN /\ wake \in BOOLEAN /\ cancelled \in BOOLEAN
    /\ worker \in {"head", "attempt", "sleep", "finish", "notify", "idle", "select", "woke", "exited"}
    /\ attempts \in 0..Attempts /\ result \in Results
    /\ pc \in [Caller -> {"ready", "second", "stoptimer", "timerdone", "sequence", "kick", "since",
                          "look", "parked", "stop", "signal", "exit", "cancelled", "returned"}]
    /\ seq \in [Caller -> 0..MaxBatch]
    /\ outcome \in [Caller -> {"none", "nil", "failed", "quarantined", "expired", "canceled", "errclosed"}]
    /\ behind \in SUBSET Caller /\ woken \in SUBSET Caller /\ expired \in SUBSET Caller
    /\ up \in BOOLEAN
    /\ fate \in [Batch -> {"none", "committed", "quarantined"}]
    /\ told \in [Batch -> SUBSET Caller]
    /\ heard \in [Caller -> SUBSET Batch]

\* Flush and Close answer nil only when every batch their wait covers has been
\* committed, or was quarantined and some caller has been told so.
NilMeansDone ==
    \A c \in Caller : outcome[c] = "nil" =>
        \A b \in 1..seq[c] : fate[b] = "committed" \/ (fate[b] = "quarantined" /\ told[b] # {})

\* A quarantine that nobody has been told of is held for whoever asks next.
NoticeHeld ==
    \A b \in Batch : fate[b] = "quarantined" /\ told[b] = {} =>
        noticeSeq = b \/ (worker = "finish" /\ Head(queue) = b)

\* A quarantine is reported to one call and no more: the writer moves on.
QuarantineToldOnce == \A b \in Batch : Cardinality(told[b]) <= 1

\* A call answered with a failure is answered by a cycle that ended after the
\* call began, of a batch the call covers: never by one from before it asked.
FailureIsItsOwn ==
    \A c \in Caller : outcome[c] = "failed" => \E b \in heard[c] : b <= seq[c]

\* Nothing overtakes a batch that has failed: snapshots are in seal order.
SealOrderKept ==
    \A a, b \in Batch : a < b /\ fate[b] = "committed" => fate[a] # "none"

\* The table's slot is free only once the worker goroutine has exited, so that a
\* writer opened next never meets a worker still holding one of its batches.
SlotFreedAfterExit == ~attached => worker = "exited"

\* Every call returns, outage or not, as long as the timer ticks or the call's
\* own context ends.
CallsReturn == \A c \in Caller : (pc[c] # "ready") ~> (pc[c] = "returned")

\* A table stuck on an outage heals by itself once the outage has ended: nobody
\* has to insert, flush or close for what was accepted to be committed.
HealsAlone ==
    (<>[]up /\ []~closed) =>
        \A b \in Batch : (enqueued >= b \/ (batch /\ enqueued = b - 1)) ~> (completed >= b)

=============================================================================
