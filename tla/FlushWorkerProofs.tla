------------------------- MODULE FlushWorkerProofs -------------------------
(***************************************************************************)
(* What holds of FlushWorker for every value of its constants: any number  *)
(* of batches, of them any that cannot be encoded, any budget, any number  *)
(* of calls of Flush and Close, and outages at any time.                   *)
(***************************************************************************)
EXTENDS FlushWorker, FiniteSetTheorems, TLAPS

(***************************************************************************)
(* The shape of the worker's state, which its types rest on.               *)
(***************************************************************************)

\* There is a sequence number left for the batch in memory.
RoomForBatch == batch => enqueued < MaxBatch

\* The queue is the batches enqueued and not completed, in order.
QueueIsTheRest ==
    /\ completed <= enqueued
    /\ Len(queue) = enqueued - completed
    /\ \A i \in 1..Len(queue) : queue[i] = completed + i

\* A cycle has a batch, is within its budget, and ends with an outcome.
CycleUnderway ==
    /\ worker \in {"attempt", "sleep", "finish"} => queue # <<>>
    /\ worker \in {"attempt", "sleep"} => attempts < Attempts
    /\ worker = "finish" => result \in {"committed", "quarantined", "failed", "cut"}

Shape == RoomForBatch /\ QueueIsTheRest /\ CycleUnderway

TInv == TypeOK /\ Shape

\* The batch a cycle works on is the first not completed.
LEMMA HeadIsNext ==
    ASSUME TypeOK, QueueIsTheRest, queue # <<>>
    PROVE  Head(queue) = completed + 1 /\ completed < enqueued /\ Head(queue) \in Batch
<1>1. Len(queue) \in Nat /\ Len(queue) > 0
  BY DEF TypeOK
<1>2. Head(queue) = queue[1]
  BY <1>1
<1>3. queue[1] = completed + 1 /\ completed < enqueued
  BY <1>1 DEF QueueIsTheRest, TypeOK
<1> QED
  BY <1>2, <1>3, FlushWorkerAssumption DEF Batch, TypeOK

\* Sealing a batch takes the next sequence number and the queue's last place.
LEMMA Enqueues ==
    ASSUME TypeOK, Shape, enqueued < MaxBatch,
           enqueued' = enqueued + 1, queue' = Append(queue, enqueued + 1), completed' = completed
    PROVE  /\ enqueued' \in 0..MaxBatch /\ queue' \in Seq(Batch)
           /\ QueueIsTheRest' /\ queue' # <<>>
<1>1. enqueued + 1 \in Batch /\ queue \in Seq(Batch) /\ enqueued \in Nat /\ completed \in Nat
  BY FlushWorkerAssumption DEF TypeOK, Batch
<1>2. queue' \in Seq(Batch) /\ Len(queue') = Len(queue) + 1 /\ Len(queue) \in Nat
  BY <1>1
<1>3. \A i \in 1..Len(queue') : queue'[i] = IF i = Len(queue) + 1 THEN enqueued + 1 ELSE queue[i]
  BY <1>1, <1>2
<1>4. \A i \in 1..Len(queue') : queue'[i] = completed + i
  BY <1>1, <1>2, <1>3 DEF Shape, QueueIsTheRest
<1>5. queue' # <<>>
  BY <1>2
<1> QED
  BY <1>1, <1>2, <1>4, <1>5, FlushWorkerAssumption DEF Shape, QueueIsTheRest

\* A batch that leaves the queue makes the next one its head.
LEMMA LeavesHead ==
    ASSUME TypeOK, QueueIsTheRest, queue # <<>>,
           queue' = Tail(queue), completed' = completed + 1, enqueued' = enqueued
    PROVE  queue' \in Seq(Batch) /\ completed' \in 0..MaxBatch /\ QueueIsTheRest'
<1>1. completed < enqueued /\ completed \in Nat /\ enqueued \in 0..MaxBatch
  BY HeadIsNext DEF TypeOK
<1>2. queue \in Seq(Batch) /\ Len(queue) \in Nat /\ Len(queue) > 0
  BY DEF TypeOK
<1>3. queue' \in Seq(Batch) /\ Len(queue') = Len(queue) - 1
  BY <1>2
<1>4. \A i \in 1..Len(queue') : queue'[i] = queue[i + 1] /\ i + 1 \in 1..Len(queue)
  BY <1>2, <1>3
<1>5. \A i \in 1..Len(queue') : queue'[i] = completed' + i
  BY <1>1, <1>2, <1>3, <1>4 DEF QueueIsTheRest
<1> QED
  BY <1>1, <1>2, <1>3, <1>5, FlushWorkerAssumption DEF QueueIsTheRest

LEMMA Seals ==
    ASSUME TypeOK, Shape, SealNow, completed' = completed
    PROVE  /\ batch' = FALSE /\ enqueued' \in 0..MaxBatch /\ queue' \in Seq(Batch)
           /\ wake' \in BOOLEAN /\ woken' \in SUBSET Caller
           /\ QueueIsTheRest' /\ (queue # <<>> => queue' # <<>>)
<1>1. CASE batch
  <2>1. enqueued < MaxBatch
    BY <1>1 DEF Shape, RoomForBatch
  <2> QED
    BY <1>1, <2>1, Enqueues DEF SealNow, Broadcast, Waiting
<1>2. CASE ~batch
  BY <1>2 DEF SealNow, TypeOK, Shape, QueueIsTheRest
<1> QED
  BY <1>1, <1>2

LEMMA Answers ==
    ASSUME NEW c \in Caller
    PROVE  /\ Answer(c) \in {"nil", "failed", "quarantined", "none"}
           /\ Answer(c) = "quarantined" => noticeSeq # 0 /\ noticeSeq <= seq[c]
           /\ Answer(c) = "failed" => c \in behind /\ failureSeq # 0 /\ failureSeq <= seq[c]
           /\ Answer(c) = "nil" => completed >= seq[c] /\ ~(noticeSeq # 0 /\ noticeSeq <= seq[c])
  BY DEF Answer

\* What a waiter's look does to the notice and to who has been told.
LEMMA LookTypes ==
    ASSUME TypeOK, NEW c \in Caller, Told(c, Answer(c)), noticeSeq' = NoticeAfter(Answer(c))
    PROVE  noticeSeq' \in 0..MaxBatch /\ told' \in [Batch -> SUBSET Caller]
<1>1. noticeSeq' \in 0..MaxBatch
  BY FlushWorkerAssumption DEF NoticeAfter, TypeOK
<1>2. CASE Answer(c) = "quarantined"
  <2>1. noticeSeq \in Batch
    BY <1>2, Answers DEF TypeOK, Batch
  <2> QED
    BY <1>1, <1>2, <2>1 DEF Told, TypeOK
<1>3. CASE Answer(c) # "quarantined"
  BY <1>1, <1>3 DEF Told, TypeOK
<1> QED
  BY <1>2, <1>3

LEMMA Goes ==
    ASSUME TypeOK, NEW c \in Caller, NEW p, Goto(c, p),
           p \in {"ready", "second", "stoptimer", "timerdone", "sequence", "kick", "since",
                  "look", "parked", "stop", "signal", "exit", "cancelled", "returned"}
    PROVE  pc' \in [Caller -> {"ready", "second", "stoptimer", "timerdone", "sequence", "kick", "since",
                               "look", "parked", "stop", "signal", "exit", "cancelled", "returned"}]
  BY DEF Goto, TypeOK

LEMMA Settles ==
    ASSUME TypeOK, NEW c \in Caller, NEW a, Settle(c, a),
           a \in {"nil", "failed", "quarantined", "expired", "canceled", "errclosed"}
    PROVE  /\ outcome' \in [Caller -> {"none", "nil", "failed", "quarantined", "expired", "canceled", "errclosed"}]
           /\ pc' \in [Caller -> {"ready", "second", "stoptimer", "timerdone", "sequence", "kick", "since",
                                  "look", "parked", "stop", "signal", "exit", "cancelled", "returned"}]
  BY DEF Settle, Goto, TypeOK

\* Shape speaks of these variables only.
LEMMA ShapeStutters ==
    ASSUME Shape, UNCHANGED <<batch, queue, enqueued, completed, worker, attempts, result>>
    PROVE  Shape'
  BY DEF Shape, RoomForBatch, QueueIsTheRest, CycleUnderway

LEMMA TInvInit == Init => TInv
<1> SUFFICES ASSUME Init PROVE TInv
  OBVIOUS
<1>1. enqueued \in 0..MaxBatch /\ enqueued \in Nat /\ MaxBatch \in Nat /\ Attempts \in Nat \ {0}
  BY FlushWorkerAssumption DEF Init
<1>2. queue = [i \in 1..enqueued |-> i] /\ completed = 0
  BY DEF Init
<1>3. queue \in Seq(Batch) /\ Len(queue) = enqueued
  BY <1>1, <1>2 DEF Batch
<1>4. TypeOK
  <2>1. batch \in BOOLEAN /\ queue \in Seq(Batch) /\ completed \in 0..MaxBatch
    BY <1>1, <1>2, <1>3 DEF Init
  <2>2. /\ fate \in [Batch -> {"none", "committed", "quarantined"}]
        /\ told \in [Batch -> SUBSET Caller] /\ heard \in [Caller -> SUBSET Batch]
        /\ seq \in [Caller -> 0..MaxBatch]
    BY <1>1 DEF Init
  <2>3. /\ pc \in [Caller -> {"ready", "second", "stoptimer", "timerdone", "sequence", "kick", "since",
                             "look", "parked", "stop", "signal", "exit", "cancelled", "returned"}]
        /\ outcome \in [Caller -> {"none", "nil", "failed", "quarantined", "expired", "canceled", "errclosed"}]
    BY DEF Init
  <2>4. /\ closed \in BOOLEAN /\ timerStop \in BOOLEAN /\ attached \in BOOLEAN
        /\ stopping \in BOOLEAN /\ cancelled \in BOOLEAN /\ up \in BOOLEAN
    BY Zenon DEF Init
  <2>7. wake \in BOOLEAN
    <3>1. wake = (enqueued > 0)
      BY Zenon DEF Init
    <3> QED
      BY <3>1
  <2>5. /\ enqueued \in 0..MaxBatch /\ failureSeq \in 0..MaxBatch /\ noticeSeq \in 0..MaxBatch
        /\ attempts \in 0..Attempts
    BY <1>1 DEF Init
  <2>6. /\ timer \in {"ticking", "kick", "done"} /\ result \in Results
        /\ worker \in {"head", "attempt", "sleep", "finish", "notify", "idle", "select", "woke", "exited"}
        /\ behind \in SUBSET Caller /\ woken \in SUBSET Caller /\ expired \in SUBSET Caller
    BY DEF Init, Results
  <2> QED
    BY <2>1, <2>2, <2>3, <2>4, <2>5, <2>6, <2>7 DEF TypeOK
<1>5. Shape
  BY <1>1, <1>2, <1>3 DEF Init, Shape, RoomForBatch, QueueIsTheRest, CycleUnderway
<1> QED
  BY <1>4, <1>5 DEF TInv

(***************************************************************************)
(* One step at a time.                                                     *)
(***************************************************************************)

LEMMA TInvTimer ==
    ASSUME TypeOK, Shape, Insert \/ Timer
    PROVE  TypeOK' /\ Shape'
<1>1. CASE Insert
  <2>1. completed' = completed /\ enqueued < MaxBatch
    BY <1>1 DEF Insert
  <2>2. CASE batch' = TRUE /\ UNCHANGED <<enqueued, queue, wake, woken>>
    <3>1. TypeOK'
      BY <1>1, <2>2 DEF Insert, goroutine, history, TypeOK
    <3>2. Shape'
      BY <1>1, <2>1, <2>2 DEF Insert, goroutine, Shape, RoomForBatch, QueueIsTheRest, CycleUnderway
    <3> QED
      BY <3>1, <3>2
  <2>3. CASE batch' = FALSE /\ enqueued' = enqueued + 1 /\ queue' = Append(queue, enqueued + 1)
               /\ wake' = TRUE /\ Broadcast
    <3>1. enqueued' \in 0..MaxBatch /\ queue' \in Seq(Batch) /\ QueueIsTheRest' /\ queue' # <<>>
      BY <2>1, <2>3, Enqueues
    <3>2. TypeOK'
      BY <1>1, <2>3, <3>1 DEF Insert, Broadcast, Waiting, goroutine, history, TypeOK
    <3>3. Shape'
      BY <1>1, <2>3, <3>1 DEF Insert, goroutine, Shape, RoomForBatch, CycleUnderway
    <3> QED
      BY <3>2, <3>3
  <2> QED
    BY <1>1, <2>2, <2>3 DEF Insert
<1>2. CASE TickSeals
  <2>1. CASE closed
    <3>1. TypeOK'
      BY <1>2, <2>1 DEF TickSeals, goroutine, history, TypeOK
    <3> QED
      BY <1>2, <2>1, <3>1, ShapeStutters DEF TickSeals, goroutine
  <2>2. CASE ~closed
    <3>1. SealNow /\ completed' = completed
      BY <1>2, <2>2 DEF TickSeals
    <3>2. TypeOK'
      BY <1>2, <3>1, Seals DEF TickSeals, goroutine, history, TypeOK
    <3>3. Shape'
      BY <1>2, <3>1, Seals DEF TickSeals, goroutine, Shape, RoomForBatch, CycleUnderway
    <3> QED
      BY <3>2, <3>3
  <2> QED
    BY <2>1, <2>2
<1>3. CASE TickHeldByFloor
  <2>1. TypeOK'
    BY <1>3 DEF TickHeldByFloor, state, goroutine, callers, history, TypeOK
  <2> QED
    BY <1>3, <2>1, ShapeStutters DEF TickHeldByFloor, state, goroutine, callers, history
<1>4. CASE TickKicks
  <2>1. TypeOK'
    BY <1>4 DEF TickKicks, Kicked, state, goroutine, callers, history, TypeOK
  <2> QED
    BY <1>4, <2>1, ShapeStutters DEF TickKicks, Kicked, state, goroutine, callers, history
<1>5. CASE TimerExits
  <2>1. TypeOK'
    BY <1>5 DEF TimerExits, state, goroutine, callers, history, TypeOK
  <2> QED
    BY <1>5, <2>1, ShapeStutters DEF TimerExits, state, goroutine, callers, history
<1> QED
  BY <1>1, <1>2, <1>3, <1>4, <1>5 DEF Timer

LEMMA TInvBegin ==
    ASSUME TypeOK, Shape, NEW c \in Caller, BeginFlush(c) \/ BeginClose(c) \/ ContextDone(c)
    PROVE  TypeOK' /\ Shape'
<1>1. CASE BeginFlush(c)
  <2>1. CASE closed
    <3>1. Settle(c, "errclosed")
      BY <1>1, <2>1 DEF BeginFlush
    <3>2. TypeOK'
      BY <1>1, <2>1, <3>1, Settles DEF BeginFlush, goroutine, history, TypeOK
    <3> QED
      BY <1>1, <2>1, <3>2, ShapeStutters DEF BeginFlush, goroutine
  <2>2. CASE ~closed
    <3>1. SealNow /\ completed' = completed /\ Goto(c, "sequence")
      BY <1>1, <2>2 DEF BeginFlush
    <3>2. TypeOK'
      <4>1. pc' \in [Caller -> {"ready", "second", "stoptimer", "timerdone", "sequence", "kick", "since",
                               "look", "parked", "stop", "signal", "exit", "cancelled", "returned"}]
        BY <3>1, Goes
      <4>2. /\ batch' \in BOOLEAN /\ enqueued' \in 0..MaxBatch /\ queue' \in Seq(Batch)
            /\ wake' \in BOOLEAN /\ woken' \in SUBSET Caller
        BY <3>1, Seals
      <4> QED
        BY <1>1, <2>2, <4>1, <4>2 DEF BeginFlush, goroutine, history, TypeOK
    <3>3. Shape'
      BY <1>1, <3>1, Seals DEF BeginFlush, goroutine, Shape, RoomForBatch, CycleUnderway
    <3> QED
      BY <3>2, <3>3
  <2> QED
    BY <2>1, <2>2
<1>2. CASE BeginClose(c)
  <2>1. CASE closed
    <3>1. Goto(c, "second")
      BY <1>2, <2>1 DEF BeginClose
    <3>2. TypeOK'
      BY <1>2, <2>1, <3>1, Goes DEF BeginClose, goroutine, history, TypeOK
    <3> QED
      BY <1>2, <2>1, <3>2, ShapeStutters DEF BeginClose, goroutine
  <2>2. CASE ~closed
    <3>1. SealNow /\ completed' = completed /\ Goto(c, "stoptimer")
      BY <1>2, <2>2 DEF BeginClose
    <3>2. TypeOK'
      <4>1. pc' \in [Caller -> {"ready", "second", "stoptimer", "timerdone", "sequence", "kick", "since",
                               "look", "parked", "stop", "signal", "exit", "cancelled", "returned"}]
        BY <3>1, Goes
      <4>2. /\ batch' \in BOOLEAN /\ enqueued' \in 0..MaxBatch /\ queue' \in Seq(Batch)
            /\ wake' \in BOOLEAN /\ woken' \in SUBSET Caller
        BY <3>1, Seals
      <4> QED
        BY <1>2, <2>2, <4>1, <4>2 DEF BeginClose, goroutine, history, TypeOK
    <3>3. Shape'
      BY <1>2, <3>1, Seals DEF BeginClose, goroutine, Shape, RoomForBatch, CycleUnderway
    <3> QED
      BY <3>2, <3>3
  <2> QED
    BY <2>1, <2>2
<1>3. CASE ContextDone(c)
  <2>1. TypeOK'
    BY <1>3 DEF ContextDone, writer, state, goroutine, history, TypeOK
  <2> QED
    BY <1>3, <2>1, ShapeStutters DEF ContextDone, writer, state, goroutine, history
<1> QED
  BY <1>1, <1>2, <1>3

LEMMA TInvCall ==
    ASSUME TypeOK, Shape, NEW c \in Caller, Call(c)
    PROVE  TypeOK' /\ Shape'
<1>1. CASE SecondClose(c)
  <2>1. TypeOK'
    <3>1. cancelled' \in BOOLEAN
      BY <1>1 DEF SecondClose, TypeOK
    <3>2. Settle(c, "errclosed")
      BY <1>1 DEF SecondClose
    <3> QED
      BY <1>1, <3>1, <3>2, Settles DEF SecondClose, writer, state, goroutine, history, TypeOK
  <2> QED
    BY <1>1, <2>1, ShapeStutters DEF SecondClose, writer, state, goroutine, history
<1>2. CASE StopTimer(c)
  <2>1. TypeOK'
    BY <1>2, Goes DEF StopTimer, writer, state, goroutine, history, TypeOK
  <2> QED
    BY <1>2, <2>1, ShapeStutters DEF StopTimer, writer, state, goroutine, history
<1>3. CASE TimerStopped(c)
  <2>1. TypeOK'
    BY <1>3, Goes DEF TimerStopped, writer, state, goroutine, history, TypeOK
  <2> QED
    BY <1>3, <2>1, ShapeStutters DEF TimerStopped, writer, state, goroutine, history
<1>4. CASE Sequence(c)
  <2>1. TypeOK'
    BY <1>4, Goes DEF Sequence, writer, state, goroutine, history, TypeOK
  <2> QED
    BY <1>4, <2>1, ShapeStutters DEF Sequence, writer, state, goroutine, history
<1>5. CASE Kick(c)
  <2>1. TypeOK'
    BY <1>5, Goes DEF Kick, writer, state, goroutine, history, TypeOK
  <2> QED
    BY <1>5, <2>1, ShapeStutters DEF Kick, writer, state, goroutine, history
<1>6. CASE Since(c)
  <2>1. TypeOK'
    BY <1>6, Goes DEF Since, SinceNow, writer, state, goroutine, history, TypeOK
  <2> QED
    BY <1>6, <2>1, ShapeStutters DEF Since, SinceNow, writer, state, goroutine, history
<1>7. CASE Look(c)
  <2>1. noticeSeq' \in 0..MaxBatch /\ told' \in [Batch -> SUBSET Caller]
    BY <1>7, LookTypes DEF Look
  <2>2. TypeOK'
    <3>1. CASE Answer(c) = "none"
      BY <1>7, <2>1, <3>1, Goes DEF Look, writer, goroutine, TypeOK
    <3>2. CASE Answer(c) # "none"
      <4>1. Settle(c, Answer(c)) /\ Answer(c) \in {"nil", "failed", "quarantined"}
        BY <1>7, <3>2, Answers DEF Look
      <4> QED
        BY <1>7, <2>1, <4>1, Settles DEF Look, writer, goroutine, TypeOK
    <3> QED
      BY <3>1, <3>2
  <2> QED
    BY <1>7, <2>2, ShapeStutters DEF Look, writer, goroutine
<1>8. CASE Woken(c)
  <2>1. TypeOK'
    BY <1>8, Goes DEF Woken, writer, state, goroutine, history, TypeOK
  <2> QED
    BY <1>8, <2>1, ShapeStutters DEF Woken, writer, state, goroutine, history
<1>9. CASE WaitExpires(c)
  <2>1. TypeOK'
    BY <1>9, Settles DEF WaitExpires, writer, state, goroutine, history, TypeOK
  <2> QED
    BY <1>9, <2>1, ShapeStutters DEF WaitExpires, writer, state, goroutine, history
<1>10. CASE SeesExit(c)
  <2>1. noticeSeq' \in 0..MaxBatch /\ told' \in [Batch -> SUBSET Caller]
    BY <1>10, LookTypes DEF SeesExit
  <2>2. PICK a \in {"nil", "failed", "quarantined", "canceled"} : Settle(c, a)
    BY <1>10, Answers DEF SeesExit
  <2>3. TypeOK'
    BY <1>10, <2>1, <2>2, Settles DEF SeesExit, writer, goroutine, TypeOK
  <2> QED
    BY <1>10, <2>3, ShapeStutters DEF SeesExit, writer, goroutine
<1>11. CASE Stop(c)
  <2>1. TypeOK'
    BY <1>11, Goes DEF Stop, writer, state, goroutine, history, TypeOK
  <2> QED
    BY <1>11, <2>1, ShapeStutters DEF Stop, writer, state, goroutine, history
<1>12. CASE Signal(c)
  <2>1. TypeOK'
    BY <1>12, Goes DEF Signal, writer, state, goroutine, history, TypeOK
  <2> QED
    BY <1>12, <2>1, ShapeStutters DEF Signal, writer, state, goroutine, history
<1>13. CASE CancelWorker(c)
  <2>1. TypeOK'
    BY <1>13, Goes DEF CancelWorker, writer, state, goroutine, history, TypeOK
  <2> QED
    BY <1>13, <2>1, ShapeStutters DEF CancelWorker, writer, state, goroutine, history
<1>14. CASE Detach(c)
  <2>1. TypeOK'
    <3>1. pc' \in [Caller -> {"ready", "second", "stoptimer", "timerdone", "sequence", "kick", "since",
                             "look", "parked", "stop", "signal", "exit", "cancelled", "returned"}]
      BY <1>14, Goes DEF Detach
    <3>2. attached' \in BOOLEAN /\ cancelled' \in BOOLEAN
      BY <1>14 DEF Detach
    <3> QED
      BY <1>14, <3>1, <3>2 DEF Detach, state, goroutine, history, TypeOK
  <2> QED
    BY <1>14, <2>1, ShapeStutters DEF Detach, writer, state, goroutine, history
<1> QED
  BY <1>1, <1>2, <1>3, <1>4, <1>5, <1>6, <1>7, <1>8, <1>9, <1>10, <1>11, <1>12, <1>13, <1>14 DEF Call

LEMMA TInvWorker ==
    ASSUME TypeOK, Shape, Worker
    PROVE  TypeOK' /\ Shape'
<1>1. CASE HeadStep
  <2>1. TypeOK'
    BY <1>1, FlushWorkerAssumption DEF HeadStep, Resume, WorkerOnly, writer, state, callers, history, TypeOK
  <2>2. Shape'
    BY <1>1, FlushWorkerAssumption DEF HeadStep, Resume, WorkerOnly, writer, state, callers, history, TypeOK, Shape, RoomForBatch, QueueIsTheRest, CycleUnderway
  <2> QED
    BY <2>1, <2>2
<1>2. CASE AttemptCommits
  <2>1. Head(queue) \in Batch
    BY <1>2, HeadIsNext DEF AttemptCommits, Shape, CycleUnderway
  <2>2. fate' \in [Batch -> {"none", "committed", "quarantined"}]
    BY <1>2, <2>1 DEF AttemptCommits, TypeOK
  <2>3. TypeOK'
    BY <1>2, <2>2 DEF AttemptCommits, EndCycle, writer, state, callers, TypeOK, Results
  <2>4. Shape'
    BY <1>2 DEF AttemptCommits, EndCycle, writer, state, Shape, RoomForBatch, QueueIsTheRest, CycleUnderway
  <2> QED
    BY <2>3, <2>4
<1>3. CASE AttemptQuarantines
  <2>1. Head(queue) \in Batch
    BY <1>3, HeadIsNext DEF AttemptQuarantines, Shape, CycleUnderway
  <2>2. fate' \in [Batch -> {"none", "committed", "quarantined"}]
    BY <1>3, <2>1 DEF AttemptQuarantines, TypeOK
  <2>3. TypeOK'
    BY <1>3, <2>2 DEF AttemptQuarantines, EndCycle, writer, state, callers, TypeOK, Results
  <2>4. Shape'
    BY <1>3 DEF AttemptQuarantines, EndCycle, writer, state, Shape, RoomForBatch, QueueIsTheRest, CycleUnderway
  <2> QED
    BY <2>3, <2>4
<1>4. CASE QuarantineFails
  <2>1. TypeOK'
    BY <1>4 DEF QuarantineFails, EndCycle, Results, WorkerOnly, writer, state, callers, history, TypeOK
  <2>2. Shape'
    BY <1>4 DEF QuarantineFails, EndCycle, Results, WorkerOnly, writer, state, callers, history, TypeOK, Shape, RoomForBatch, QueueIsTheRest, CycleUnderway
  <2> QED
    BY <2>1, <2>2
<1>5. CASE AttemptFails
  <2>0. attempts' \in 0..Attempts
    BY <1>5, FlushWorkerAssumption DEF AttemptFails, TypeOK, Shape, CycleUnderway
  <2>1. TypeOK'
    BY <1>5, <2>0 DEF AttemptFails, EndCycle, Results, WorkerOnly, writer, state, callers, history, TypeOK
  <2>2. Shape'
    BY <1>5, FlushWorkerAssumption DEF AttemptFails, EndCycle, Spent, Results, WorkerOnly, writer, state, callers, history, TypeOK, Shape, RoomForBatch, QueueIsTheRest, CycleUnderway
  <2> QED
    BY <2>1, <2>2
<1>6. CASE SleepEnds
  <2>1. TypeOK'
    BY <1>6 DEF SleepEnds, EndCycle, Resume, Results, WorkerOnly, writer, state, callers, history, TypeOK
  <2>2. Shape'
    BY <1>6 DEF SleepEnds, EndCycle, Resume, Results, WorkerOnly, writer, state, callers, history, TypeOK, Shape, RoomForBatch, QueueIsTheRest, CycleUnderway
  <2> QED
    BY <2>1, <2>2
<1>7. CASE FinishStep
  <2>1. /\ worker = "finish" /\ queue # <<>>
        /\ result \in {"committed", "quarantined", "failed", "cut"}
    BY <1>7 DEF FinishStep, Shape, CycleUnderway
  <2>2. Head(queue) = completed + 1 /\ completed < enqueued /\ Head(queue) \in Batch
    BY <2>1, HeadIsNext DEF Shape
  <2>3. noticeSeq' \in 0..MaxBatch
    BY <1>7, <2>2 DEF FinishStep, Notice, TypeOK, Batch
  <2>4. failureSeq' \in 0..MaxBatch
    BY <1>7, <2>2, FlushWorkerAssumption DEF FinishStep, TypeOK, Batch
  <2>5. queue' \in Seq(Batch) /\ completed' \in 0..MaxBatch /\ QueueIsTheRest'
    <3>1. CASE ~Leaves(result)
      BY <1>7, <3>1 DEF FinishStep, TypeOK, Shape, QueueIsTheRest
    <3>2. CASE Leaves(result)
      <4>1. queue' = Tail(queue) /\ completed' = completed + 1 /\ enqueued' = enqueued
        BY <1>7, <3>2 DEF FinishStep
      <4> QED
        BY <2>1, <4>1, LeavesHead DEF Shape
    <3> QED
      BY <3>1, <3>2
  <2>6. behind' \in SUBSET Caller /\ woken' \in SUBSET Caller /\ heard' \in [Caller -> SUBSET Batch]
    BY <1>7, <2>2 DEF FinishStep, FinishBroadcast, Broadcast, Waiting, TypeOK
  <2>7. worker' \in {"notify", "idle", "head"} /\ attempts' \in 0..Attempts /\ result' \in Results
    BY <1>7, <2>1, FlushWorkerAssumption DEF FinishStep, Results
  <2>8. TypeOK'
    BY <1>7, <2>3, <2>4, <2>5, <2>6, <2>7 DEF FinishStep, writer, TypeOK
  <2>9. Shape'
    BY <1>7, <2>5, <2>7 DEF FinishStep, writer, Shape, RoomForBatch, CycleUnderway
  <2> QED
    BY <2>8, <2>9
<1>8. CASE NotifyStep
  <2>1. TypeOK'
    BY <1>8 DEF NotifyStep, Results, WorkerOnly, writer, state, callers, history, TypeOK
  <2>2. Shape'
    BY <1>8 DEF NotifyStep, Results, WorkerOnly, writer, state, callers, history, TypeOK, Shape, RoomForBatch, QueueIsTheRest, CycleUnderway
  <2> QED
    BY <2>1, <2>2
<1>9. CASE IdleStep
  <2>1. TypeOK'
    BY <1>9 DEF IdleStep, Resume, WorkerOnly, writer, state, callers, history, TypeOK
  <2>2. Shape'
    BY <1>9 DEF IdleStep, Resume, WorkerOnly, writer, state, callers, history, TypeOK, Shape, RoomForBatch, QueueIsTheRest, CycleUnderway
  <2> QED
    BY <2>1, <2>2
<1>10. CASE SelectStep
  <2>1. TypeOK'
    BY <1>10 DEF SelectStep, Resume, WorkerOnly, writer, state, callers, history, TypeOK
  <2>2. Shape'
    BY <1>10 DEF SelectStep, Resume, WorkerOnly, writer, state, callers, history, TypeOK, Shape, RoomForBatch, QueueIsTheRest, CycleUnderway
  <2> QED
    BY <2>1, <2>2
<1>11. CASE WokeStep
  <2>1. TypeOK'
    BY <1>11 DEF WokeStep, Resume, WorkerOnly, writer, state, callers, history, TypeOK
  <2>2. Shape'
    BY <1>11 DEF WokeStep, Resume, WorkerOnly, writer, state, callers, history, TypeOK, Shape, RoomForBatch, QueueIsTheRest, CycleUnderway
  <2> QED
    BY <2>1, <2>2
<1> QED
  BY <1>1, <1>2, <1>3, <1>4, <1>5, <1>6, <1>7, <1>8, <1>9, <1>10, <1>11 DEF Worker

\* Types and shape survive every step.
LEMMA TInvStep == TInv /\ [Next]_vars => TInv'
<1> SUFFICES ASSUME TypeOK, Shape, [Next]_vars PROVE TypeOK' /\ Shape'
  BY DEF TInv
<1>1. CASE Insert \/ Timer
  BY <1>1, TInvTimer
<1>2. CASE Worker
  BY <1>2, TInvWorker
<1>3. CASE WorldChanges
  <2>1. TypeOK'
    BY <1>3 DEF WorldChanges, writer, state, goroutine, callers, history, TypeOK
  <2> QED
    BY <1>3, <2>1, ShapeStutters DEF WorldChanges, writer, state, goroutine
<1>4. CASE \E c \in Caller : BeginFlush(c) \/ BeginClose(c) \/ ContextDone(c)
  BY <1>4, TInvBegin
<1>5. CASE \E c \in Caller : Call(c)
  BY <1>5, TInvCall
<1>6. CASE UNCHANGED vars
  <2>1. TypeOK'
    BY <1>6 DEF vars, writer, state, goroutine, callers, history, TypeOK
  <2> QED
    BY <1>6, <2>1, ShapeStutters DEF vars, writer, state, goroutine
<1> QED
  BY <1>1, <1>2, <1>3, <1>4, <1>5, <1>6 DEF Next

\* Every reachable state is well typed: the worker never looks for the head of
\* an empty queue, no sequence number is past the batches enqueued, and a cycle
\* never exceeds its budget.
THEOREM TypeCorrect == Spec => []TypeOK
<1>1. TInv => TypeOK
  BY DEF TInv
<1> QED
  BY <1>1, TInvInit, TInvStep, PTL DEF Spec

(***************************************************************************)
(* What became of each batch, and what is still to be told.                *)
(***************************************************************************)

\* A batch has met its fate when it has left the queue, or when the cycle that
\* decided it is about to say so; only poison is ever quarantined.
FateKnown ==
    /\ \A b \in Batch : fate[b] # "none" <=>
          \/ b <= completed
          \/ b = completed + 1 /\ worker = "finish" /\ result \in {"committed", "quarantined"}
    /\ worker = "finish" /\ result \in {"committed", "quarantined"} => fate[completed + 1] = result
    /\ \A b \in Batch : fate[b] = "quarantined" => b \in Poison

\* The notice is of a batch that has left the queue and that nobody was told of;
\* nobody is told of a batch still in it.
NoticeFresh ==
    /\ noticeSeq # 0 => noticeSeq <= completed /\ told[noticeSeq] = {}
    /\ \A b \in Batch : told[b] # {} => b <= completed
    /\ \A b \in Batch : told[b] = {} \/ \E c \in Caller : told[b] = {c}

\* A caller has an answer only once it has stopped waiting.
AnsweredAfterWaiting ==
    \A c \in Caller :
        outcome[c] # "none" => pc[c] \in {"stop", "signal", "exit", "cancelled", "returned"}

\* The failure a waiter would be answered with was recorded after its call began.
FailureHeard ==
    \A c \in Caller :
        pc[c] \in {"look", "parked"} /\ c \in behind /\ failureSeq # 0 => failureSeq \in heard[c]

(***************************************************************************)
(* Who changes what.                                                       *)
(***************************************************************************)

Begins(c) == BeginFlush(c) \/ BeginClose(c) \/ ContextDone(c)

\* What is not the goroutine leaves its progress alone.
LEMMA OthersKeep ==
    ASSUME Insert \/ Timer \/ WorldChanges \/ UNCHANGED vars
              \/ (\E c \in Caller : Begins(c) \/ Call(c))
    PROVE  UNCHANGED <<completed, failureSeq, worker, result, fate, heard>>
<1>1. CASE Insert \/ Timer \/ WorldChanges \/ UNCHANGED vars
  BY <1>1 DEF Insert, Timer, TickSeals, TickHeldByFloor, TickKicks, TimerExits, WorldChanges,
              vars, state, goroutine, history
<1>2. ASSUME NEW c \in Caller, Begins(c)
      PROVE  UNCHANGED <<completed, failureSeq, worker, result, fate, heard>>
  BY <1>2 DEF Begins, BeginFlush, BeginClose, ContextDone, state, goroutine, history
<1>3. ASSUME NEW c \in Caller, Call(c)
      PROVE  UNCHANGED <<completed, failureSeq, worker, result, fate, heard>>
  <2>1. CASE SecondClose(c) \/ StopTimer(c) \/ TimerStopped(c) \/ Sequence(c) \/ Kick(c) \/ Since(c)
    BY <2>1 DEF SecondClose, StopTimer, TimerStopped, Sequence, Kick, Since, state, goroutine, history
  <2>2. CASE Look(c) \/ SeesExit(c)
    BY <2>2 DEF Look, SeesExit, goroutine
  <2>3. CASE Woken(c) \/ WaitExpires(c) \/ Stop(c) \/ Signal(c) \/ CancelWorker(c) \/ Detach(c)
    BY <2>3 DEF Woken, WaitExpires, Stop, Signal, CancelWorker, Detach, state, goroutine, history
  <2> QED
    BY <1>3, <2>1, <2>2, <2>3 DEF Call
<1> QED
  BY <1>1, <1>2, <1>3

\* Only a waiter's look and the goroutine's finish touch the notice.
LEMMA OthersKeepNotice ==
    ASSUME Insert \/ Timer \/ WorldChanges \/ UNCHANGED vars
              \/ (\E c \in Caller : Begins(c) \/ (Call(c) /\ ~Look(c) /\ ~SeesExit(c)))
    PROVE  UNCHANGED <<noticeSeq, told>>
<1>1. CASE Insert \/ Timer \/ WorldChanges \/ UNCHANGED vars
  BY <1>1 DEF Insert, Timer, TickSeals, TickHeldByFloor, TickKicks, TimerExits, WorldChanges,
              vars, state, history
<1>2. ASSUME NEW c \in Caller, Begins(c)
      PROVE  UNCHANGED <<noticeSeq, told>>
  BY <1>2 DEF Begins, BeginFlush, BeginClose, ContextDone, state, history
<1>3. ASSUME NEW c \in Caller, Call(c), ~Look(c), ~SeesExit(c)
      PROVE  UNCHANGED <<noticeSeq, told>>
  <2>1. CASE SecondClose(c) \/ StopTimer(c) \/ TimerStopped(c) \/ Sequence(c) \/ Kick(c) \/ Since(c)
    BY <2>1 DEF SecondClose, StopTimer, TimerStopped, Sequence, Kick, Since, state, history
  <2>2. CASE Woken(c) \/ WaitExpires(c) \/ Stop(c) \/ Signal(c) \/ CancelWorker(c) \/ Detach(c)
    BY <2>2 DEF Woken, WaitExpires, Stop, Signal, CancelWorker, Detach, state, history
  <2> QED
    BY <1>3, <2>1, <2>2 DEF Call
<1> QED
  BY <1>1, <1>2, <1>3

\* Between two finishes the goroutine touches neither the callers nor what they
\* read.
WorkerBeforeFinish ==
    \/ HeadStep \/ AttemptCommits \/ AttemptQuarantines \/ QuarantineFails \/ AttemptFails
    \/ SleepEnds \/ NotifyStep \/ IdleStep \/ SelectStep \/ WokeStep

LEMMA WorkerKeeps ==
    ASSUME WorkerBeforeFinish
    PROVE  UNCHANGED <<queue, completed, failureSeq, noticeSeq, attached, pc, seq, outcome, behind, told, heard>>
<1>1. CASE HeadStep \/ QuarantineFails \/ AttemptFails \/ SleepEnds
              \/ NotifyStep \/ IdleStep \/ SelectStep \/ WokeStep
  BY <1>1 DEF HeadStep, QuarantineFails, AttemptFails, SleepEnds, NotifyStep, IdleStep,
              SelectStep, WokeStep, WorkerOnly, writer, state, callers, history
<1>2. CASE AttemptCommits \/ AttemptQuarantines
  BY <1>2 DEF AttemptCommits, AttemptQuarantines, writer, state, callers
<1> QED
  BY <1>1, <1>2 DEF WorkerBeforeFinish

\* One caller's step leaves every other caller where it is.
LEMMA CallerAlone ==
    ASSUME TypeOK, NEW d \in Caller, Begins(d) \/ Call(d), NEW c \in Caller, c # d
    PROVE  /\ pc'[c] = pc[c] /\ seq'[c] = seq[c] /\ outcome'[c] = outcome[c]
           /\ c \in behind' <=> c \in behind
<1>1. CASE Begins(d)
  BY <1>1 DEF Begins, BeginFlush, BeginClose, ContextDone, Settle, Goto, TypeOK
<1>2. CASE SecondClose(d) \/ StopTimer(d) \/ TimerStopped(d) \/ Sequence(d) \/ Kick(d) \/ Since(d)
  BY <1>2 DEF SecondClose, StopTimer, TimerStopped, Sequence, Kick, Since, SinceNow, Settle, Goto, TypeOK
<1>3. CASE Look(d) \/ SeesExit(d)
  <2>1. UNCHANGED <<seq, behind>>
    BY <1>3 DEF Look, SeesExit
  <2>2. (\E a : Settle(d, a)) \/ (Goto(d, "parked") /\ UNCHANGED outcome)
    BY <1>3 DEF Look, SeesExit
  <2> QED
    BY <2>1, <2>2 DEF Settle, Goto, TypeOK
<1>4. CASE Woken(d) \/ WaitExpires(d) \/ Stop(d) \/ Signal(d) \/ CancelWorker(d) \/ Detach(d)
  BY <1>4 DEF Woken, WaitExpires, Stop, Signal, CancelWorker, Detach, Settle, Goto, TypeOK
<1> QED
  BY <1>1, <1>2, <1>3, <1>4 DEF Call

\* A step of the system is a step of one of these.
LEMMA NextCases ==
    ASSUME [Next]_vars
    PROVE  \/ Insert \/ Timer \/ WorldChanges \/ UNCHANGED vars
           \/ \E c \in Caller : Begins(c) \/ Call(c)
           \/ WorkerBeforeFinish \/ FinishStep
  BY DEF Next, Worker, WorkerBeforeFinish, Begins

(***************************************************************************)
(* The slot.                                                               *)
(***************************************************************************)

LEMMA SlotInit == Init => SlotFreedAfterExit
  BY DEF Init, SlotFreedAfterExit

\* Nothing leaves "exited", and only an exited worker's slot is given back.
LEMMA SlotStep == SlotFreedAfterExit /\ [Next]_vars => SlotFreedAfterExit'
<1> SUFFICES ASSUME SlotFreedAfterExit, [Next]_vars, ~attached' PROVE worker' = "exited"
  BY DEF SlotFreedAfterExit
<1>1. CASE WorkerBeforeFinish \/ FinishStep
  <2>1. worker # "exited"
    BY <1>1 DEF WorkerBeforeFinish, HeadStep, AttemptCommits, AttemptQuarantines, QuarantineFails,
                AttemptFails, SleepEnds, NotifyStep, IdleStep, SelectStep, WokeStep, FinishStep
  <2>2. attached' = attached
    BY <1>1, WorkerKeeps DEF FinishStep, writer
  <2> QED
    BY <2>1, <2>2 DEF SlotFreedAfterExit
<1>2. CASE Insert \/ Timer \/ WorldChanges \/ UNCHANGED vars \/ \E c \in Caller : Begins(c) \/ Call(c)
  <2>1. worker' = worker
    BY <1>2, OthersKeep
  <2>2. CASE \E c \in Caller : Detach(c)
    BY <2>1, <2>2 DEF Detach, MayDetach
  <2>3. CASE ~ \E c \in Caller : Detach(c)
    <3>1. CASE Insert \/ Timer \/ WorldChanges \/ UNCHANGED vars
      BY <2>1, <3>1 DEF Insert, Timer, TickSeals, TickHeldByFloor, TickKicks, TimerExits,
                        WorldChanges, vars, writer, SlotFreedAfterExit
    <3>2. CASE \E c \in Caller : Begins(c)
      BY <2>1, <3>2 DEF Begins, BeginFlush, BeginClose, ContextDone, writer, SlotFreedAfterExit
    <3>3. CASE \E c \in Caller : Call(c)
      <4>1. PICK c \in Caller : Call(c) /\ ~Detach(c)
        BY <2>3, <3>3
      <4>2. CASE SecondClose(c) \/ StopTimer(c) \/ TimerStopped(c) \/ Sequence(c) \/ Kick(c) \/ Since(c)
        BY <2>1, <4>2 DEF SecondClose, StopTimer, TimerStopped, Sequence, Kick, Since, writer,
                          SlotFreedAfterExit
      <4>3. CASE Look(c) \/ Woken(c) \/ WaitExpires(c) \/ SeesExit(c) \/ Stop(c) \/ Signal(c) \/ CancelWorker(c)
        BY <2>1, <4>3 DEF Look, Woken, WaitExpires, SeesExit, Stop, Signal, CancelWorker, writer,
                          SlotFreedAfterExit
      <4> QED
        BY <4>1, <4>2, <4>3 DEF Call
    <3> QED
      BY <1>2, <3>1, <3>2, <3>3
  <2> QED
    BY <2>2, <2>3
<1> QED
  BY <1>1, <1>2, NextCases

\* The table's slot is given back only after the worker goroutine has exited,
\* whoever closes, however often, and whichever context ends first.
THEOREM SlotFree == Spec => []SlotFreedAfterExit
  BY SlotInit, SlotStep, PTL DEF Spec

(***************************************************************************)
(* Fates and the order of sealing.                                         *)
(***************************************************************************)

LEMMA FateInit == Init => FateKnown
<1> SUFFICES ASSUME Init PROVE FateKnown
  OBVIOUS
<1>1. completed = 0 /\ worker = "head" /\ \A b \in Batch : fate[b] = "none" /\ ~(b <= 0)
  BY DEF Init, Batch
<1> QED
  BY <1>1 DEF FateKnown

LEMMA FateStep == TInv /\ FateKnown /\ [Next]_vars => FateKnown'
<1> SUFFICES ASSUME TypeOK, Shape, FateKnown, [Next]_vars PROVE FateKnown'
  BY DEF TInv
<1>1. CASE Insert \/ Timer \/ WorldChanges \/ UNCHANGED vars \/ \E c \in Caller : Begins(c) \/ Call(c)
  <2>1. UNCHANGED <<completed, worker, result, fate>>
    BY <1>1, OthersKeep
  <2> QED
    BY <2>1 DEF FateKnown
<1>2. CASE AttemptCommits \/ AttemptQuarantines
  <2>1. worker = "attempt" /\ queue # <<>>
    BY <1>2 DEF AttemptCommits, AttemptQuarantines, Shape, CycleUnderway
  <2>2. Head(queue) = completed + 1 /\ completed + 1 \in Batch
    BY <2>1, HeadIsNext DEF Shape
  <2>3. completed' = completed /\ worker' = "finish"
    BY <1>2 DEF AttemptCommits, AttemptQuarantines, EndCycle, state
  <2>4. /\ result' \in {"committed", "quarantined"}
        /\ fate' = [fate EXCEPT ![completed + 1] = result']
        /\ result' = "quarantined" => completed + 1 \in Poison
    BY <1>2, <2>2 DEF AttemptCommits, AttemptQuarantines, EndCycle
  <2>5. \A b \in Batch : fate'[b] = IF b = completed + 1 THEN result' ELSE fate[b]
    BY <2>2, <2>4 DEF TypeOK
  <2>6. \A b \in Batch : fate[b] # "none" <=> b <= completed
    BY <2>1 DEF FateKnown
  <2> QED
    BY <2>2, <2>3, <2>4, <2>5, <2>6 DEF FateKnown
<1>3. CASE WorkerBeforeFinish /\ ~AttemptCommits /\ ~AttemptQuarantines
  <2>1. completed' = completed /\ fate' = fate
    BY <1>3, WorkerKeeps DEF WorkerBeforeFinish, HeadStep, QuarantineFails, AttemptFails, SleepEnds,
                             NotifyStep, IdleStep, SelectStep, WokeStep, WorkerOnly, history
  <2>2. worker # "finish" /\ (worker' = "finish" => result' \in {"failed", "cut"})
    BY <1>3 DEF WorkerBeforeFinish, HeadStep, QuarantineFails, AttemptFails, SleepEnds,
                NotifyStep, IdleStep, SelectStep, WokeStep, EndCycle, Resume
  <2> QED
    BY <2>1, <2>2 DEF FateKnown
<1>4. CASE FinishStep
  <2>1. /\ worker = "finish" /\ worker' # "finish" /\ fate' = fate
        /\ completed' = IF result \in {"committed", "quarantined"} THEN completed + 1 ELSE completed
    BY <1>4 DEF FinishStep, Leaves, Shape, CycleUnderway
  <2>2. \A b \in Batch : b <= completed + 1 <=> (b <= completed \/ b = completed + 1)
    BY DEF Batch, TypeOK
  <2> QED
    BY <2>1, <2>2 DEF FateKnown
<1> QED
  BY <1>1, <1>2, <1>3, <1>4, NextCases

\* A batch commits only after every earlier one has been committed or
\* quarantined: a batch that fails holds the head of the queue.
THEOREM SealOrder == Spec => []SealOrderKept
<1>1. TInv /\ FateKnown => SealOrderKept
  BY DEF TInv, TypeOK, FateKnown, SealOrderKept, Batch
<1> QED
  BY <1>1, TInvInit, TInvStep, FateInit, FateStep, PTL DEF Spec

(***************************************************************************)
(* The quarantine notice.                                                  *)
(***************************************************************************)

LEMMA NoticeInit == Init => NoticeFresh
  BY DEF Init, NoticeFresh

\* What a waiter's look leaves of the notice.
LEMMA LookNotice ==
    ASSUME TypeOK, NEW c \in Caller, Look(c) \/ SeesExit(c)
    PROVE  \/ UNCHANGED <<noticeSeq, told>>
           \/ /\ noticeSeq \in Batch /\ noticeSeq <= seq[c] /\ noticeSeq' = 0
              /\ \A b \in Batch : told'[b] = IF b = noticeSeq THEN told[b] \cup {c} ELSE told[b]
<1>1. noticeSeq' = NoticeAfter(Answer(c)) /\ Told(c, Answer(c))
  BY DEF Look, SeesExit
<1>2. CASE Answer(c) = "quarantined"
  <2>1. noticeSeq \in Batch /\ noticeSeq <= seq[c]
    BY <1>2, Answers DEF TypeOK, Batch
  <2> QED
    BY <1>1, <1>2, <2>1 DEF Told, NoticeAfter, TypeOK
<1>3. CASE Answer(c) # "quarantined"
  BY <1>1, <1>3 DEF Told, NoticeAfter
<1> QED
  BY <1>2, <1>3

LEMMA NoticeStep == TInv /\ NoticeFresh /\ [Next]_vars => NoticeFresh'
<1> SUFFICES ASSUME TypeOK, Shape, NoticeFresh, [Next]_vars PROVE NoticeFresh'
  BY DEF TInv
<1>1. CASE Insert \/ Timer \/ WorldChanges \/ UNCHANGED vars
              \/ \E c \in Caller : Begins(c) \/ (Call(c) /\ ~Look(c) /\ ~SeesExit(c))
  <2>1. UNCHANGED <<completed, noticeSeq, told>>
    BY <1>1, OthersKeep, OthersKeepNotice
  <2> QED
    BY <2>1 DEF NoticeFresh
<1>2. ASSUME NEW c \in Caller, Look(c) \/ SeesExit(c) PROVE NoticeFresh'
  <2>1. completed' = completed
    BY <1>2, OthersKeep DEF Call
  <2>2. CASE UNCHANGED <<noticeSeq, told>>
    BY <2>1, <2>2 DEF NoticeFresh
  <2>3. CASE /\ noticeSeq \in Batch /\ noticeSeq' = 0
             /\ \A b \in Batch : told'[b] = IF b = noticeSeq THEN told[b] \cup {c} ELSE told[b]
    <3>1. noticeSeq <= completed /\ told[noticeSeq] = {}
      BY <2>3 DEF NoticeFresh, Batch
    <3>2. \A b \in Batch : told'[b] = IF b = noticeSeq THEN {c} ELSE told[b]
      BY <2>3, <3>1
    <3> QED
      BY <2>1, <2>3, <3>1, <3>2 DEF NoticeFresh
  <2> QED
    BY <1>2, <2>2, <2>3, LookNotice
<1>3. CASE WorkerBeforeFinish
  <2>1. UNCHANGED <<completed, noticeSeq, told>>
    BY <1>3, WorkerKeeps
  <2> QED
    BY <2>1 DEF NoticeFresh
<1>4. CASE FinishStep
  <2>1. Head(queue) = completed + 1 /\ completed + 1 \in Batch
    BY <1>4, HeadIsNext DEF FinishStep, Shape, CycleUnderway
  <2>2. /\ told' = told
        /\ noticeSeq' = IF result = "quarantined" THEN completed + 1 ELSE noticeSeq
        /\ completed' = IF result \in {"committed", "quarantined"} THEN completed + 1 ELSE completed
    BY <1>4, <2>1 DEF FinishStep, Notice, Leaves
  <2>3. told[completed + 1] = {}
    BY <2>1 DEF NoticeFresh, TypeOK
  <2>4. noticeSeq \in Nat /\ completed \in Nat
    BY DEF TypeOK
  <2> QED
    BY <2>1, <2>2, <2>3, <2>4 DEF NoticeFresh, Batch
<1> QED
  BY <1>1, <1>2, <1>3, <1>4, NextCases

\* The quarantine of a batch is reported to one call at most.
THEOREM ToldOnce == Spec => []QuarantineToldOnce
<1>1. NoticeFresh => QuarantineToldOnce
  <2>1. ASSUME NEW b \in Batch, told[b] = {} \/ \E c \in Caller : told[b] = {c}
        PROVE  Cardinality(told[b]) <= 1
    <3>1. CASE told[b] = {}
      <4>1. Cardinality({}) = 0
        BY FS_EmptySet
      <4> QED
        BY <3>1, <4>1
    <3>2. CASE \E c \in Caller : told[b] = {c}
      <4>1. PICK c \in Caller : told[b] = {c}
        BY <3>2
      <4>2. Cardinality({c}) = 1
        BY FS_Singleton
      <4> QED
        BY <4>1, <4>2
    <3> QED
      BY <2>1, <3>1, <3>2
  <2> QED
    BY <2>1 DEF NoticeFresh, QuarantineToldOnce
<1> QED
  BY <1>1, TInvInit, TInvStep, NoticeInit, NoticeStep, PTL DEF Spec

(***************************************************************************)
(* Failures and the calls they answer.                                     *)
(***************************************************************************)

FInv == AnsweredAfterWaiting /\ FailureHeard /\ FailureIsItsOwn

LEMMA FailureInit == Init => FInv
  BY DEF Init, FInv, AnsweredAfterWaiting, FailureHeard, FailureIsItsOwn

\* Answered and waiting callers, one at a time.
Fine(c) ==
    /\ outcome[c] # "none" => pc[c] \in {"stop", "signal", "exit", "cancelled", "returned"}
    /\ pc[c] \in {"look", "parked"} /\ c \in behind /\ failureSeq # 0 => failureSeq \in heard[c]
    /\ outcome[c] = "failed" => \E b \in heard[c] : b <= seq[c]

LEMMA FineIsFInv == FInv <=> \A c \in Caller : Fine(c)
  BY DEF FInv, AnsweredAfterWaiting, FailureHeard, FailureIsItsOwn, Fine

\* What settles a call leaves it answered, and truthfully when it is a failure.
LEMMA SettledFine ==
    ASSUME TypeOK, NEW c \in Caller, NEW a, Settle(c, a), a # "none",
           seq' = seq, heard' = heard,
           a = "failed" => \E b \in heard[c] : b <= seq[c]
    PROVE  Fine(c)'
<1>1. outcome'[c] = a /\ pc'[c] \in {"returned", "stop"}
  BY DEF Settle, Goto, TypeOK
<1> QED
  BY <1>1 DEF Fine

\* A step of the caller itself.
LEMMA OwnStepFine ==
    ASSUME TypeOK, NEW c \in Caller, Fine(c), Begins(c) \/ Call(c),
           UNCHANGED <<failureSeq, heard>>
    PROVE  Fine(c)'
<1>1. CASE BeginFlush(c)
  <2>1. seq' = seq
    BY <1>1 DEF BeginFlush
  <2>2. CASE closed
    BY <1>1, <2>1, <2>2, SettledFine DEF BeginFlush
  <2>3. CASE ~closed
    BY <1>1, <2>1, <2>3 DEF BeginFlush, Goto, Fine, TypeOK
  <2> QED
    BY <2>2, <2>3
<1>2. CASE BeginClose(c)
  BY <1>2 DEF BeginClose, Goto, Fine, TypeOK
<1>3. CASE ContextDone(c)
  BY <1>3 DEF ContextDone, Fine
<1>4. CASE SecondClose(c) \/ WaitExpires(c)
  <2>1. seq' = seq /\ \E a \in {"errclosed", "expired"} : Settle(c, a)
    BY <1>4 DEF SecondClose, WaitExpires
  <2> QED
    BY <2>1, SettledFine
<1>5. CASE StopTimer(c) \/ TimerStopped(c) \/ Kick(c)
  BY <1>5 DEF StopTimer, TimerStopped, Kick, Goto, Fine, TypeOK
<1>6. CASE Sequence(c)
  BY <1>6 DEF Sequence, Goto, Fine, TypeOK
<1>7. CASE Since(c)
  BY <1>7 DEF Since, SinceNow, Goto, Fine, TypeOK
<1>8. CASE Look(c) \/ SeesExit(c)
  <2>1. seq' = seq /\ behind' = behind /\ pc[c] \in {"look", "parked"}
    BY <1>8 DEF Look, SeesExit
  <2>2. Answer(c) = "failed" => \E b \in heard[c] : b <= seq[c]
    BY <2>1, Answers DEF Fine
  <2>3. CASE Goto(c, "parked") /\ UNCHANGED outcome
    BY <2>1, <2>3 DEF Goto, Fine, TypeOK
  <2>4. CASE Answer(c) # "none" /\ Settle(c, Answer(c))
    BY <2>1, <2>2, <2>4, SettledFine
  <2>5. CASE Settle(c, "canceled")
    BY <2>1, <2>5, SettledFine
  <2> QED
    BY <1>8, <2>3, <2>4, <2>5 DEF Look, SeesExit
<1>9. CASE Woken(c)
  BY <1>9 DEF Woken, Goto, Fine, TypeOK
<1>10. CASE Stop(c) \/ Signal(c)
  BY <1>10 DEF Stop, Signal, Goto, Fine, TypeOK
<1>11. CASE CancelWorker(c) \/ Detach(c)
  BY <1>11 DEF CancelWorker, Detach, Goto, Fine, TypeOK
<1> QED
  BY <1>1, <1>2, <1>3, <1>4, <1>5, <1>6, <1>7, <1>8, <1>9, <1>10, <1>11 DEF Begins, Call

LEMMA FailureStep == TInv /\ FInv /\ [Next]_vars => FInv'
<1> SUFFICES ASSUME TypeOK, Shape, FInv, [Next]_vars, NEW c \in Caller PROVE Fine(c)'
  BY FineIsFInv DEF TInv, FInv, AnsweredAfterWaiting, FailureHeard, FailureIsItsOwn, Fine
<1>0. Fine(c)
  BY FineIsFInv
<1>1. CASE Insert \/ Timer \/ WorldChanges \/ UNCHANGED vars
  <2>1. UNCHANGED <<failureSeq, heard>>
    BY <1>1, OthersKeep
  <2>2. UNCHANGED <<pc, seq, outcome, behind>>
    BY <1>1 DEF Insert, Timer, TickSeals, TickHeldByFloor, TickKicks, TimerExits, WorldChanges,
                vars, callers
  <2> QED
    BY <1>0, <2>1, <2>2 DEF Fine
<1>2. ASSUME NEW d \in Caller, Begins(d) \/ Call(d) PROVE Fine(c)'
  <2>1. UNCHANGED <<failureSeq, heard>>
    BY <1>2, OthersKeep
  <2>2. CASE d = c
    BY <1>0, <1>2, <2>1, <2>2, OwnStepFine
  <2>3. CASE d # c
    BY <1>0, <1>2, <2>1, <2>3, CallerAlone DEF Fine
  <2> QED
    BY <2>2, <2>3
<1>3. CASE WorkerBeforeFinish
  BY <1>0, <1>3, WorkerKeeps DEF Fine
<1>4. CASE FinishStep
  <2>1. UNCHANGED <<pc, seq, outcome>>
    BY <1>4 DEF FinishStep
  <2>2. CASE result \in {"failed", "cut"}
    <3>1. /\ failureSeq' = Head(queue)
          /\ heard'[c] = IF pc[c] \in {"ready", "returned"} THEN heard[c] ELSE heard[c] \cup {Head(queue)}
      BY <1>4, <2>2 DEF FinishStep
    <3> QED
      BY <1>0, <2>1, <3>1 DEF Fine
  <2>3. CASE result \notin {"failed", "cut"}
    <3>1. failureSeq' \in {0, failureSeq} /\ UNCHANGED <<behind, heard>>
      BY <1>4, <2>3 DEF FinishStep
    <3> QED
      BY <1>0, <2>1, <3>1 DEF Fine
  <2> QED
    BY <2>2, <2>3
<1> QED
  BY <1>1, <1>2, <1>3, <1>4, NextCases

\* A Flush or a Close that answers with a failure was failed by a cycle that
\* ended after the call began, of a batch the call covers.
THEOREM OwnFailure == Spec => []FailureIsItsOwn
<1>1. FInv => FailureIsItsOwn
  BY DEF FInv
<1> QED
  BY <1>1, TInvInit, TInvStep, FailureInit, FailureStep, PTL DEF Spec

(***************************************************************************)
(* What nil means.  The notice has one slot: what follows needs that no    *)
(* two batches are ever quarantined.                                       *)
(***************************************************************************)

OnePoison == \A a, b \in Poison : a = b

\* NoticeHeld, with the head of the queue by its number.
UntoldHeld ==
    \A b \in Batch : fate[b] = "quarantined" /\ told[b] = {} =>
        noticeSeq = b \/ (worker = "finish" /\ b = completed + 1)

LEMMA HeldInit == Init => UntoldHeld
  BY DEF Init, UntoldHeld

\* A fate once met does not change.
LEMMA FateStands ==
    ASSUME TInv, FateKnown, [Next]_vars, NEW b \in Batch, fate[b] # "none"
    PROVE  fate'[b] = fate[b]
<1>1. CASE Insert \/ Timer \/ WorldChanges \/ UNCHANGED vars \/ \E c \in Caller : Begins(c) \/ Call(c)
  BY <1>1, OthersKeep
<1>2. CASE AttemptCommits \/ AttemptQuarantines
  <2>1. worker = "attempt" /\ queue # <<>>
    BY <1>2 DEF AttemptCommits, AttemptQuarantines, TInv, Shape, CycleUnderway
  <2>2. Head(queue) = completed + 1
    BY <2>1, HeadIsNext DEF TInv, Shape
  <2>3. b # completed + 1
    BY <2>1 DEF FateKnown, TInv, TypeOK
  <2> QED
    BY <1>2, <2>2, <2>3 DEF AttemptCommits, AttemptQuarantines, TInv, TypeOK
<1>3. CASE WorkerBeforeFinish /\ ~AttemptCommits /\ ~AttemptQuarantines
  BY <1>3 DEF WorkerBeforeFinish, HeadStep, QuarantineFails, AttemptFails, SleepEnds,
              NotifyStep, IdleStep, SelectStep, WokeStep, WorkerOnly, history
<1>4. CASE FinishStep
  BY <1>4 DEF FinishStep
<1> QED
  BY <1>1, <1>2, <1>3, <1>4, NextCases

\* Nobody is untold.
LEMMA ToldStands ==
    ASSUME TInv, [Next]_vars, NEW b \in Batch
    PROVE  told[b] \subseteq told'[b]
<1>1. CASE Insert \/ Timer \/ WorldChanges \/ UNCHANGED vars
              \/ \E c \in Caller : Begins(c) \/ (Call(c) /\ ~Look(c) /\ ~SeesExit(c))
  BY <1>1, OthersKeepNotice
<1>2. CASE \E c \in Caller : Look(c) \/ SeesExit(c)
  BY <1>2, LookNotice DEF TInv
<1>3. CASE WorkerBeforeFinish
  BY <1>3, WorkerKeeps
<1>4. CASE FinishStep
  BY <1>4 DEF FinishStep
<1> QED
  BY <1>1, <1>2, <1>3, <1>4, NextCases

\* A second quarantine would overwrite the notice of the first: there is none.
LEMMA HeldStep ==
    ASSUME OnePoison
    PROVE  TInv /\ FateKnown /\ UntoldHeld /\ [Next]_vars => UntoldHeld'
<1> SUFFICES ASSUME TInv, FateKnown, UntoldHeld, [Next]_vars,
                    NEW b \in Batch, fate'[b] = "quarantined", told'[b] = {}
             PROVE  noticeSeq' = b \/ (worker' = "finish" /\ b = completed' + 1)
  BY DEF UntoldHeld
<1>0. told[b] = {}
  BY ToldStands
<1>1. CASE Insert \/ Timer \/ WorldChanges \/ UNCHANGED vars
              \/ \E c \in Caller : Begins(c) \/ (Call(c) /\ ~Look(c) /\ ~SeesExit(c))
  <2>1. UNCHANGED <<completed, worker, fate, noticeSeq, told>>
    BY <1>1, OthersKeep, OthersKeepNotice
  <2> QED
    BY <1>0, <2>1 DEF UntoldHeld
<1>2. ASSUME NEW c \in Caller, Look(c) \/ SeesExit(c)
      PROVE  noticeSeq' = b \/ (worker' = "finish" /\ b = completed' + 1)
  <2>1. UNCHANGED <<completed, worker, fate>>
    BY <1>2, OthersKeep DEF Call
  <2>2. noticeSeq = b \/ (worker = "finish" /\ b = completed + 1)
    BY <1>0, <2>1 DEF UntoldHeld
  <2>3. CASE UNCHANGED <<noticeSeq, told>>
    BY <2>1, <2>2, <2>3
  <2>4. CASE told'[noticeSeq] = told[noticeSeq] \cup {c}
    <3>1. noticeSeq # b
      BY <2>4
    <3> QED
      BY <2>1, <2>2, <3>1
  <2> QED
    BY <1>2, <2>3, <2>4, LookNotice DEF TInv
<1>3. CASE AttemptCommits \/ AttemptQuarantines
  <2>1. worker = "attempt" /\ queue # <<>> /\ worker' = "finish"
    BY <1>3 DEF AttemptCommits, AttemptQuarantines, EndCycle, TInv, Shape, CycleUnderway
  <2>2. Head(queue) = completed + 1
    BY <2>1, HeadIsNext DEF TInv, Shape
  <2>3. noticeSeq' = noticeSeq /\ completed' = completed
    BY <1>3, WorkerKeeps DEF WorkerBeforeFinish
  <2>4. CASE b = completed + 1
    BY <2>1, <2>3, <2>4
  <2>5. CASE b # completed + 1
    <3>1. fate[b] = "quarantined"
      BY <1>3, <2>2, <2>5 DEF AttemptCommits, AttemptQuarantines, TInv, TypeOK
    <3> QED
      BY <1>0, <2>1, <2>3, <3>1 DEF UntoldHeld
  <2> QED
    BY <2>4, <2>5
<1>4. CASE WorkerBeforeFinish /\ ~AttemptCommits /\ ~AttemptQuarantines
  <2>1. noticeSeq' = noticeSeq
    BY <1>4, WorkerKeeps
  <2>2. fate' = fate /\ worker # "finish"
    BY <1>4 DEF WorkerBeforeFinish, HeadStep, QuarantineFails, AttemptFails, SleepEnds,
                NotifyStep, IdleStep, SelectStep, WokeStep, WorkerOnly, history
  <2> QED
    BY <1>0, <2>1, <2>2 DEF UntoldHeld
<1>5. CASE FinishStep
  <2>1. fate' = fate /\ worker = "finish" /\ queue # <<>>
    BY <1>5 DEF FinishStep, TInv, Shape, CycleUnderway
  <2>2. Head(queue) = completed + 1 /\ completed + 1 \in Batch
    BY <2>1, HeadIsNext DEF TInv, Shape
  <2>3. noticeSeq' = IF result = "quarantined" THEN completed + 1 ELSE noticeSeq
    BY <1>5, <2>2 DEF FinishStep, Notice
  <2>4. fate[b] = "quarantined" /\ b \in Poison
    BY <2>1 DEF FateKnown
  <2>5. CASE result = "quarantined"
    <3>1. completed + 1 \in Poison
      BY <2>1, <2>2, <2>5 DEF FateKnown
    <3> QED
      BY <2>3, <2>4, <2>5, <3>1 DEF OnePoison
  <2>6. CASE result # "quarantined"
    <3>1. b # completed + 1
      BY <2>1, <2>2, <2>4, <2>6 DEF FateKnown, Batch, TInv, TypeOK
    <3> QED
      BY <1>0, <2>3, <2>4, <2>6, <3>1 DEF UntoldHeld
  <2> QED
    BY <2>5, <2>6
<1> QED
  BY <1>1, <1>2, <1>3, <1>4, <1>5, NextCases

\* A call becomes answered with nil in one place only.
LEMMA BecomesNil ==
    ASSUME TypeOK, [Next]_vars, NEW c \in Caller, outcome'[c] = "nil", outcome[c] # "nil"
    PROVE  (Look(c) \/ SeesExit(c)) /\ Answer(c) = "nil" /\ seq' = seq
<1>1. ~(Insert \/ Timer \/ WorldChanges \/ UNCHANGED vars)
  BY DEF Insert, Timer, TickSeals, TickHeldByFloor, TickKicks, TimerExits, WorldChanges, vars, callers
<1>2. ~WorkerBeforeFinish /\ ~FinishStep
  BY WorkerKeeps DEF FinishStep
<1>3. PICK d \in Caller : Begins(d) \/ Call(d)
  BY <1>1, <1>2, NextCases
<1>4. d = c
  BY <1>3, CallerAlone
<1>5. ~Begins(c)
  BY DEF Begins, BeginFlush, BeginClose, ContextDone, Settle, Goto, TypeOK
<1>6. ~(SecondClose(c) \/ StopTimer(c) \/ TimerStopped(c) \/ Sequence(c) \/ Kick(c) \/ Since(c))
  BY DEF SecondClose, StopTimer, TimerStopped, Sequence, Kick, Since, Settle, TypeOK
<1>7. ~(Woken(c) \/ WaitExpires(c) \/ Stop(c) \/ Signal(c) \/ CancelWorker(c) \/ Detach(c))
  BY DEF Woken, WaitExpires, Stop, Signal, CancelWorker, Detach, Settle, TypeOK
<1>8. Look(c) \/ SeesExit(c)
  BY <1>3, <1>4, <1>5, <1>6, <1>7 DEF Call
<1>9. Answer(c) = "nil"
  BY <1>8 DEF Look, SeesExit, Settle, TypeOK
<1> QED
  BY <1>8, <1>9 DEF Look, SeesExit

\* Once a call has its answer, what its wait covered does not change.
LEMMA AnsweredSequence ==
    ASSUME TypeOK, AnsweredAfterWaiting, [Next]_vars, NEW c \in Caller, outcome[c] # "none"
    PROVE  seq'[c] = seq[c]
<1>0. pc[c] # "sequence"
  BY DEF AnsweredAfterWaiting
<1>1. CASE Insert \/ Timer \/ WorldChanges \/ UNCHANGED vars
  BY <1>1 DEF Insert, Timer, TickSeals, TickHeldByFloor, TickKicks, TimerExits, WorldChanges, vars, callers
<1>2. CASE WorkerBeforeFinish \/ FinishStep
  BY <1>2, WorkerKeeps DEF FinishStep
<1>3. ASSUME NEW d \in Caller, Begins(d) \/ Call(d), d # c PROVE seq'[c] = seq[c]
  BY <1>3, CallerAlone
<1>4. CASE Begins(c)
  BY <1>4 DEF Begins, BeginFlush, BeginClose, ContextDone
<1>5. CASE Call(c)
  <2>1. CASE SecondClose(c) \/ StopTimer(c) \/ TimerStopped(c) \/ Sequence(c) \/ Kick(c) \/ Since(c)
    BY <1>0, <2>1 DEF SecondClose, StopTimer, TimerStopped, Sequence, Kick, Since
  <2>2. CASE Look(c) \/ SeesExit(c)
    BY <2>2 DEF Look, SeesExit
  <2>3. CASE Woken(c) \/ WaitExpires(c) \/ Stop(c) \/ Signal(c) \/ CancelWorker(c) \/ Detach(c)
    BY <2>3 DEF Woken, WaitExpires, Stop, Signal, CancelWorker, Detach
  <2> QED
    BY <1>5, <2>1, <2>2, <2>3 DEF Call
<1> QED
  BY <1>1, <1>2, <1>3, <1>4, <1>5, NextCases

LEMMA NilInit == Init => NilMeansDone
  BY DEF Init, NilMeansDone

LEMMA NilStep ==
    TInv /\ FateKnown /\ UntoldHeld /\ AnsweredAfterWaiting /\ NilMeansDone /\ [Next]_vars => NilMeansDone'
<1> SUFFICES ASSUME TInv, FateKnown, UntoldHeld, AnsweredAfterWaiting, NilMeansDone, [Next]_vars,
                    NEW c \in Caller, outcome'[c] = "nil", NEW b \in 1..(seq'[c])
             PROVE  fate'[b] = "committed" \/ (fate'[b] = "quarantined" /\ told'[b] # {})
  BY DEF NilMeansDone
<1>1. seq'[c] = seq[c]
  BY BecomesNil, AnsweredSequence DEF TInv
<1>2. b \in Batch /\ b <= seq[c]
  BY <1>1, FlushWorkerAssumption DEF TInv, TypeOK, Batch
<1>3. fate[b] = "committed" \/ (fate[b] = "quarantined" /\ told[b] # {})
         \/ (fate[b] = "quarantined" /\ told'[b] # {})
  <2>1. CASE outcome[c] = "nil"
    BY <1>1, <2>1 DEF NilMeansDone
  <2>2. CASE outcome[c] # "nil"
    <3>1. completed >= seq[c] /\ ~(noticeSeq # 0 /\ noticeSeq <= seq[c])
      BY <2>2, BecomesNil, Answers DEF TInv
    <3>2. completed \in Nat /\ seq[c] \in Nat /\ b \in Nat /\ b # 0
      BY <1>2 DEF TInv, TypeOK, Batch
    <3>3. fate[b] # "none" /\ fate[b] \in {"none", "committed", "quarantined"}
      BY <1>2, <3>1, <3>2 DEF FateKnown, TInv, TypeOK
    <3>4. noticeSeq # b /\ b # completed + 1
      BY <1>2, <3>1, <3>2
    <3>5. fate[b] = "quarantined" => told[b] # {}
      BY <1>2, <3>4 DEF UntoldHeld
    <3> QED
      BY <3>3, <3>5
  <2> QED
    BY <2>1, <2>2
<1>4. fate'[b] = fate[b] /\ told[b] \subseteq told'[b]
  BY <1>2, <1>3, FateStands, ToldStands
<1> QED
  BY <1>3, <1>4

\* When at most one batch is ever quarantined, nil from Flush or Close is true:
\* everything the wait covered was committed, or was quarantined and told.
THEOREM NilIsTrue ==
    ASSUME OnePoison
    PROVE  Spec => []NilMeansDone
<1>1. TInv /\ FateKnown /\ UntoldHeld /\ [Next]_vars => UntoldHeld'
  BY HeldStep
<1>2. FInv => AnsweredAfterWaiting
  BY DEF FInv
<1> QED
  BY <1>1, <1>2, TInvInit, TInvStep, FateInit, FateStep, HeldInit, FailureInit, FailureStep,
     NilInit, NilStep, PTL DEF Spec

\* And every quarantine that nobody has been told of is held for whoever asks.
THEOREM NoticeIsHeld ==
    ASSUME OnePoison
    PROVE  Spec => []NoticeHeld
<1>1. TInv /\ FateKnown /\ UntoldHeld /\ [Next]_vars => UntoldHeld'
  BY HeldStep
<1>2. TInv /\ UntoldHeld => NoticeHeld
  <2>1. ASSUME TInv, worker = "finish" PROVE Head(queue) = completed + 1
    BY <2>1, HeadIsNext DEF TInv, Shape, CycleUnderway
  <2> QED
    BY <2>1 DEF UntoldHeld, NoticeHeld
<1> QED
  BY <1>1, <1>2, TInvInit, TInvStep, FateInit, FateStep, HeldInit, PTL DEF Spec

=============================================================================
