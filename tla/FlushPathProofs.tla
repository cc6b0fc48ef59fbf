-------------------------- MODULE FlushPathProofs --------------------------
(***************************************************************************)
(* What holds of FlushPath for every value of its constants: any number of *)
(* records, batches, failures and kills, in any configuration.  First the  *)
(* counters and the objects; then no record lost and none committed twice, *)
(* and the refinement of Delivery; then the order of the records.          *)
(***************************************************************************)
EXTENDS FlushPath, FiniteSetTheorems, SequenceTheorems, TLAPS

(***************************************************************************)
(* Finite sets of rows.                                                    *)
(***************************************************************************)

\* Every set of row ids is finite, so what the ceiling counts is a number.
LEMMA RowsFinite ==
    ASSUME NEW S \in SUBSET Row
    PROVE  IsFiniteSet(S) /\ Cardinality(S) \in Nat
<1>1. IsFiniteSet(Row)
  BY FlushPathAssumption, FS_Interval DEF Row
<1>2. IsFiniteSet(S)
  BY <1>1, FS_Subset
<1> QED
  BY <1>2, FS_CardinalityType

\* The key of any set of rows is a key.
LEMMA HashIsKey ==
    ASSUME NEW S \in SUBSET Row
    PROVE  BatchHash(S) \in Key
  BY DEF Key

LEMMA NoKeyIsKey == NoKey \in Key
<1>1. BatchHash({}) = {}
  BY DEF BatchHash
<1> QED
  BY <1>1 DEF Key, NoKey

\* What a scan of staging finds is finitely many batches, each a proper job.
LEMMA PendingJobsFinite ==
    ASSUME TypeOK
    PROVE  PendingJobs \subseteq Job /\ Cardinality(PendingJobs) \in Nat
<1> DEFINE T == {r \in staged \ quarantined : batchKey[r] # NoKey}
           JobOf(k) == [key |-> k, rows |-> Sealed(k) \ quarantined,
                        replayed |-> TRUE, attempted |-> FALSE]
           f == [r \in T |-> JobOf(batchKey[r])]
<1>1. PendingJobs = {JobOf(k) : k \in StagedKeys}
  BY DEF PendingJobs
<1>2. StagedKeys \subseteq Key
  BY DEF StagedKeys, TypeOK
<1>3. \A k \in StagedKeys : JobOf(k) \in Job
  BY <1>2 DEF Job, Sealed, TypeOK
<1>4. \A r \in T : f[r] \in PendingJobs
  BY <1>1 DEF StagedKeys
<1>5. \A j \in PendingJobs : \E r \in T : f[r] = j
  BY <1>1 DEF StagedKeys
<1>6. f \in Surjection(T, PendingJobs)
  BY <1>4, <1>5 DEF Surjection
<1>7. IsFiniteSet(T)
  BY RowsFinite DEF TypeOK
<1>8. IsFiniteSet(PendingJobs)
  BY <1>6, <1>7, FS_Surjection
<1> QED
  BY <1>1, <1>3, <1>8, FS_CardinalityType

(***************************************************************************)
(* Type correctness.                                                       *)
(***************************************************************************)

\* A job stays a job when its key is stamped or an attempt at it ends.
LEMMA JobUpdates ==
    ASSUME NEW j \in Job
    PROVE  /\ [j EXCEPT !.attempted = TRUE] \in Job
           /\ \A k \in Key : [j EXCEPT !.key = k] \in Job
<1>1. [j EXCEPT !.attempted = TRUE] \in Job
  BY DEF Job
<1>2. ASSUME NEW k \in Key PROVE [j EXCEPT !.key = k] \in Job
  BY DEF Job
<1> QED
  BY <1>1, <1>2

\* The head of a queue of jobs is a job, the rest is a queue of jobs, and both
\* ways an attempt ends keep it one.
LEMMA QueueTypes ==
    ASSUME queue \in Seq(Job), queue # <<>>
    PROVE  /\ Head(queue) \in Job
           /\ Tail(queue) \in Seq(Job)
           /\ [queue EXCEPT ![1].attempted = TRUE] \in Seq(Job)
           /\ \A k \in Key : [queue EXCEPT ![1].key = k] \in Seq(Job)
<1>1. Len(queue) \in Nat \ {0} /\ queue \in [1..Len(queue) -> Job] /\ Head(queue) = queue[1]
  OBVIOUS
<1>2. Head(queue) \in Job
  BY <1>1
<1>3. /\ [queue[1] EXCEPT !.attempted = TRUE] \in Job
      /\ \A k \in Key : [queue[1] EXCEPT !.key = k] \in Job
  BY <1>1, JobUpdates
<1>4. /\ [queue EXCEPT ![1].attempted = TRUE] \in [1..Len(queue) -> Job]
      /\ \A k \in Key : [queue EXCEPT ![1].key = k] \in [1..Len(queue) -> Job]
  BY <1>1, <1>3
<1> QED
  BY <1>1, <1>2, <1>4

\* Sealing a set of rows into the queue keeps the queue well typed.
LEMMA SealTypes ==
    ASSUME queue \in Seq(Job), NEW S \in SUBSET Row, SealInto(S)
    PROVE  batch' = {} /\ queue' \in Seq(Job)
<1>1. NewJob(S) \in Job
  BY NoKeyIsKey DEF NewJob, Job
<1> QED
  BY <1>1 DEF SealInto

\* A file put in place of another of the same name is a data file.
LEMMA PutTypes ==
    ASSUME NEW F \in SUBSET DataFiles, NEW k \in Key, NEW S \in SUBSET Row
    PROVE  Put(F, k, S) \in SUBSET DataFiles
  BY DEF Put, DataFiles

LEMMA MarkTypes ==
    ASSUME spoolRow \in SUBSET SpoolRows, NEW k, Mark(k)
    PROVE  spoolRow' \in SUBSET SpoolRows
  BY DEF Mark, SpoolRows

LEMMA TypeInit == Init => TypeOK
  BY FlushPathAssumption, NoKeyIsKey DEF Init, TypeOK, Row

LEMMA TypeStep == TypeOK /\ [Next]_vars => TypeOK'
<1> SUFFICES ASSUME TypeOK, [Next]_vars
             PROVE  TypeOK'
  OBVIOUS
<1> USE DEF staging, spool, lake, process, bounds
<1>0. CASE UNCHANGED vars
  BY <1>0 DEF TypeOK, vars
<1>1. CASE \E m \in Modes : Open(m)
  <2>1. Cardinality(staged) \in Nat
    BY RowsFinite DEF TypeOK
  <2> QED
    BY <1>1, <2>1 DEF Open, SeededCount, TypeOK
<1>2. CASE StoreClose
  BY <1>2 DEF StoreClose, TypeOK
<1>3. CASE Crash
  BY <1>3, FlushPathAssumption, NoKeyIsKey DEF Crash, NoWriter, TypeOK
<1>4. CASE ClaimForWriter \/ ClaimForDrain
  BY <1>4 DEF ClaimForWriter, ClaimForDrain, Claim, TypeOK
<1>5. CASE DrainUpload
  <2> PICK f \in file : object' = Put(object, f.key, f.rows) /\ drainKey' = f.key
    BY <1>5 DEF DrainUpload
  <2>1. f.key \in Key /\ f.rows \in SUBSET Row
    BY DEF TypeOK, DataFiles
  <2>2. object' \in SUBSET DataFiles
    BY <2>1, PutTypes DEF TypeOK
  <2> QED
    BY <1>5, <2>1, <2>2 DEF DrainUpload, TypeOK
<1>6. CASE DrainCommit
  <2>1. log' \in Seq(DataFiles)
    BY <1>6 DEF DrainCommit, TypeOK
  <2> QED
    BY <1>6, <2>1 DEF DrainCommit, TypeOK
<1>7. CASE DrainMark
  <2>1. spoolRow' \in SUBSET SpoolRows
    BY <1>7, MarkTypes DEF DrainMark, TypeOK
  <2> QED
    BY <1>7, <2>1, NoKeyIsKey DEF DrainMark, TypeOK
<1>8. CASE DrainFail
  BY <1>8, FlushPathAssumption, NoKeyIsKey DEF DrainFail, NoWriter, TypeOK
<1>9. CASE DrainSpoolDone
  BY <1>9 DEF DrainSpoolDone, TypeOK
<1>10. CASE StartWriter
  <2> PICK q \in [1..Cardinality(PendingJobs) -> PendingJobs] : queue' = q
    BY <1>10 DEF StartWriter
  <2>1. queue' \in Seq(Job)
    BY PendingJobsFinite
  <2>2. Len(log) \in Nat
    BY DEF TypeOK
  <2> QED
    BY <1>10, <2>1, <2>2 DEF StartWriter, TypeOK
<1>11. CASE \E n \in 1..MaxInsert : Insert(n)
  <2> PICK n \in 1..MaxInsert : Insert(n)
    BY <1>11
  <2> DEFINE new == nextId..(nextId + n - 1)
  <2>1. n \in Nat /\ nextId + n \in 1..(MaxRow + 1) /\ held + n \in Nat /\ new \in SUBSET Row
    BY FlushPathAssumption DEF Insert, TypeOK, Row
  <2>2. staged \cup new \in SUBSET Row /\ batch \cup new \in SUBSET Row
    BY <2>1 DEF TypeOK
  <2>3. batch' \in SUBSET Row /\ queue' \in Seq(Job)
    BY <2>2, SealTypes DEF Insert, TypeOK
  <2> QED
    BY <2>1, <2>2, <2>3 DEF Insert, TypeOK
<1>12. CASE Trigger
  BY <1>12, SealTypes DEF Trigger, TypeOK
<1>13. CASE StartClose
  BY <1>13, SealTypes DEF StartClose, TypeOK
<1>14. CASE CloseDrained \/ CloseReported \/ CloseExpired
  <2>1. <<>> \in Seq(Job) /\ 0 \in Nat /\ {} \in SUBSET Row
    OBVIOUS
  <2>2. CASE CloseDrained
    BY <2>1, <2>2, NoKeyIsKey DEF CloseDrained, NoWriter, TypeOK
  <2>3. CASE CloseReported
    BY <2>1, <2>3, NoKeyIsKey DEF CloseReported, NoWriter, TypeOK
  <2>4. CASE CloseExpired
    BY <2>1, <2>4, FlushPathAssumption, NoKeyIsKey DEF CloseExpired, NoWriter, TypeOK
  <2> QED
    BY <1>14, <2>2, <2>3, <2>4
<1>15. CASE Prepare
  <2>1. queue # <<>> /\ Current \in Job
    BY <1>15, QueueTypes DEF Prepare, At, Working, Current, TypeOK
  <2>2. KeyOf(Current) \in Key
    BY <2>1, HashIsKey DEF KeyOf, Job
  <2>3. queue' \in Seq(Job)
    BY <1>15, <2>1, <2>2, QueueTypes DEF Prepare, TypeOK
  <2>4. batchKey' \in [Row -> Key]
    BY <1>15, <2>2 DEF Prepare, SealRows, TypeOK
  <2> QED
    BY <1>15, <2>3, <2>4 DEF Prepare, TypeOK
<1>16. CASE PrepareRefused \/ CommitConflict \/ Fail
  <2>1. Len(log) \in Nat
    BY DEF TypeOK
  <2>2. queue # <<>> /\ GiveUp
    BY <1>16 DEF PrepareRefused, CommitConflict, Fail, At, Working
  <2>3. queue' \in Seq(Job) /\ pc' = "idle"
    BY <2>2, QueueTypes DEF GiveUp, TypeOK
  <2>4. CASE PrepareRefused \/ CommitConflict
    BY <2>1, <2>3, <2>4 DEF PrepareRefused, CommitConflict, Reloaded, TypeOK
  <2>5. CASE Fail
    BY <2>3, <2>5, FlushPathAssumption DEF Fail, TypeOK
  <2> QED
    BY <1>16, <2>4, <2>5
<1>17. CASE Check
  BY <1>17 DEF Check, TypeOK
<1>18. CASE Quarantine
  <2>1. queue # <<>> /\ Current.rows \in SUBSET Row
    BY <1>18, QueueTypes DEF Quarantine, At, Working, Current, TypeOK, Job
  <2>2. queue' \in Seq(Job)
    BY <1>18, <2>1, QueueTypes DEF Quarantine, Finished, GiveUp, TypeOK
  <2> QED
    BY <1>18, <2>1, <2>2 DEF Quarantine, Marked, Finished, GiveUp, TypeOK
<1>19. CASE SpoolFile
  <2>1. Current \in Job
    BY <1>19, QueueTypes DEF SpoolFile, At, Working, Current, TypeOK
  <2>2. file' \in SUBSET DataFiles
    BY <1>19, <2>1, PutTypes DEF SpoolFile, TypeOK, Job
  <2> QED
    BY <1>19, <2>2 DEF SpoolFile, TypeOK
<1>20. CASE SpoolRow
  <2>1. Current \in Job
    BY <1>20, QueueTypes DEF SpoolRow, At, Working, Current, TypeOK
  <2> DEFINE new(at) == [key |-> Current.key, at |-> at, committed |-> FALSE]
  <2>2. CreatedAt \subseteq Nat
    BY DEF CreatedAt, TypeOK, SpoolRows
  <2>3. ASSUME NEW at \in CreatedAt
        PROVE  new(at) \in SpoolRows /\ at + 1 \in Nat
    BY <2>1, <2>2 DEF TypeOK, Job, SpoolRows
  <2>4. spoolRow' \in SUBSET SpoolRows /\ clock' \in Nat
    <3>1. \/ UNCHANGED <<spoolRow, clock>>
          \/ \E at \in CreatedAt : spoolRow' = spoolRow \cup {new(at)} /\ clock' = at + 1
      BY <1>20 DEF SpoolRow
    <3> HIDE DEF new
    <3> QED
      BY <2>3, <3>1 DEF TypeOK
  <2> QED
    BY <1>20, <2>4 DEF SpoolRow, TypeOK
<1>21. CASE Upload
  <2>1. Current \in Job
    BY <1>21, QueueTypes DEF Upload, At, Working, Current, TypeOK
  <2>2. object' \in SUBSET DataFiles
    BY <1>21, <2>1, PutTypes DEF Upload, TypeOK, Job
  <2> QED
    BY <1>21, <2>2 DEF Upload, TypeOK
<1>22. CASE Commit \/ CommitAnswerLost
  <2>1. queue # <<>> /\ Current \in Job
    BY <1>22, QueueTypes DEF Commit, CommitAnswerLost, At, Working, Current, TypeOK
  <2>2. DataFile(Current) \in DataFiles
    BY <2>1 DEF DataFile, DataFiles, Job
  <2>3. log' = Append(log, DataFile(Current))
    BY <1>22 DEF Commit, CommitAnswerLost
  <2>4. log' \in Seq(DataFiles) /\ Len(log') \in Nat
    BY <2>2, <2>3 DEF TypeOK
  <2>5. CASE Commit
    BY <2>4, <2>5 DEF Commit, TypeOK
  <2>6. CASE CommitAnswerLost
    <3>1. queue' \in Seq(Job) /\ pc' = "idle"
      BY <2>1, <2>6, QueueTypes DEF CommitAnswerLost, GiveUp, TypeOK
    <3> QED
      BY <2>4, <2>6, <3>1, FlushPathAssumption DEF CommitAnswerLost, TypeOK
  <2> QED
    BY <1>22, <2>5, <2>6
<1>23. CASE MarkSpooled
  <2>1. spoolRow' \in SUBSET SpoolRows
    BY <1>23, MarkTypes DEF MarkSpooled, TypeOK
  <2> QED
    BY <1>23, <2>1 DEF MarkSpooled, TypeOK
<1>24. CASE Prune
  BY <1>24 DEF Prune, TypeOK
<1>25. CASE Finish
  <2>1. queue # <<>> /\ Cardinality(Current.rows) \in Nat
    BY <1>25, QueueTypes, RowsFinite DEF Finish, At, Working, Current, TypeOK, Job
  <2>2. held' \in Nat
    BY <1>25, <2>1 DEF Finish, Release, TypeOK
  <2> QED
    BY <1>25, <2>1, <2>2, QueueTypes DEF Finish, Finished, TypeOK
<1>26. CASE Sweeper
  BY <1>26 DEF Sweeper, EvictFile, EvictRow, TypeOK
<1>27. CASE SealAnswerLost
  <2>1. queue # <<>> /\ Current \in Job
    BY <1>27, QueueTypes DEF SealAnswerLost, At, Working, Current, TypeOK
  <2>2. KeyOf(Current) \in Key
    BY <2>1, HashIsKey DEF KeyOf, Job
  <2>3. batchKey' \in [Row -> Key]
    BY <1>27, <2>2 DEF SealAnswerLost, SealRows, TypeOK
  <2>4. queue' \in Seq(Job) /\ pc' = "idle"
    BY <1>27, <2>1, QueueTypes DEF SealAnswerLost, GiveUp, TypeOK
  <2> QED
    BY <1>27, <2>3, <2>4, FlushPathAssumption DEF SealAnswerLost, TypeOK
<1>28. CASE \E n \in 1..MaxInsert : InsertAnswerLost(n)
  <2> PICK n \in 1..MaxInsert : InsertAnswerLost(n)
    BY <1>28
  <2> DEFINE new == nextId..(nextId + n - 1)
  <2>1. n \in Nat /\ nextId + n \in 1..(MaxRow + 1) /\ new \in SUBSET Row
    BY FlushPathAssumption DEF InsertAnswerLost, TypeOK, Row
  <2>2. staged \cup new \in SUBSET Row /\ unanswered \cup new \in SUBSET Row
    BY <2>1 DEF TypeOK
  <2> QED
    BY <2>1, <2>2, FlushPathAssumption DEF InsertAnswerLost, TypeOK
<1> QED
  BY <1>0, <1>1, <1>2, <1>3, <1>4, <1>5, <1>6, <1>7, <1>8, <1>9, <1>10, <1>11, <1>12, <1>13,
     <1>14, <1>15, <1>16, <1>17, <1>18, <1>19, <1>20, <1>21, <1>22, <1>23, <1>24, <1>25, <1>26,
     <1>27, <1>28
  DEF Next, Worker, Drain, Caller, Fault

\* Every reachable state is well typed, whatever the constants: no key is ever
\* stamped, queued, spooled or committed that is not a batch's hash, and the
\* ceiling's counter never goes below zero.
THEOREM TypeCorrect == Spec => []TypeOK
  BY TypeInit, TypeStep, PTL DEF Spec

(***************************************************************************)
(* The ceiling.                                                            *)
(***************************************************************************)

\* While the store is open, what is staged has been charged, but for the records
\* of inserts that were answered with a failure.
Charged ==
    /\ mode = "down" => owner = "none"
    /\ \A r \in unanswered : r < nextId
    /\ mode # "down" => Cardinality(staged) <= held + Cardinality(unanswered)

\* The worker is between attempts whenever it has no batch, and a drain between
\* files whenever it has no file.
PlaceKept ==
    /\ owner = "none" => pc = "idle" /\ drainKey = NoKey
    /\ Draining /\ drainKey = NoKey => pc = "idle"
    /\ owner \in {"writer", "closing"} /\ queue = <<>> => pc = "idle"

\* From a successful prepare to the prune the batch's rows are staged; between
\* the two halves of the prune their charge, if they were charged, is still held.
AttemptHasRows ==
    /\ Working /\ pc \in {"check", "encode", "spoolrow", "upload", "commit", "mark", "prune"} =>
          Current.rows \subseteq staged
    /\ At("schemas") =>
          Cardinality(staged) + Cardinality(Current.rows) <= held + Cardinality(unanswered)

CeilingInv == StagingBounded /\ Charged /\ PlaceKept /\ AttemptHasRows

LEMMA CeilingInit == Init => CeilingInv
<1> SUFFICES ASSUME Init PROVE CeilingInv
  OBVIOUS
<1>1. Cardinality({}) = 0 /\ 0 <= Ceiling
  BY FS_EmptySet, FlushPathAssumption
<1>2. StagingBounded
  BY <1>1, FlushPathAssumption DEF Init, StagingBounded
<1>3. Charged /\ PlaceKept /\ AttemptHasRows
  BY DEF Init, Charged, PlaceKept, AttemptHasRows, Draining, Working, At
<1> QED
  BY <1>2, <1>3 DEF CeilingInv

\* The counts the invariant relates are numbers.
LEMMA CountsAreNumbers ==
    ASSUME TypeOK
    PROVE  /\ Cardinality(staged) \in Nat /\ Cardinality(unanswered) \in Nat
           /\ held \in Nat /\ Ceiling \in Nat /\ nextId \in Nat
  BY RowsFinite, FlushPathAssumption DEF TypeOK

\* Adding a range of ids to the staged rows adds at most its length.
LEMMA StagingMore ==
    ASSUME TypeOK, NEW n \in Nat, nextId + n - 1 <= MaxRow
    PROVE  Cardinality(staged \cup (nextId..(nextId + n - 1))) <= Cardinality(staged) + n
<1> DEFINE new == nextId..(nextId + n - 1)
<1>1. nextId \in Int /\ nextId + n - 1 \in Int
  BY FlushPathAssumption DEF TypeOK
<1>2. IsFiniteSet(new) /\ Cardinality(new) <= n
  BY <1>1, FS_Interval
<1>3. IsFiniteSet(staged) /\ Cardinality(staged) \in Nat
  BY RowsFinite DEF TypeOK
<1>4. IsFiniteSet(staged \cap new)
  BY <1>3, FS_Subset
<1>5. Cardinality(new) \in Nat /\ Cardinality(staged \cap new) \in Nat
  BY <1>2, <1>4, FS_CardinalityType
<1>6. Cardinality(staged \cup new) = Cardinality(staged) + Cardinality(new) - Cardinality(staged \cap new)
  BY <1>2, <1>3, FS_Union
<1> HIDE DEF new
<1>7. Cardinality(staged \cup new) <= Cardinality(staged) + n
  BY <1>2, <1>3, <1>5, <1>6
<1> QED
  BY <1>7 DEF new

\* Ids given out for the first time are all new to the unanswered ones.
LEMMA UnansweredMore ==
    ASSUME TypeOK, NEW n \in Nat, nextId + n - 1 <= MaxRow, \A r \in unanswered : r < nextId
    PROVE  Cardinality(unanswered \cup (nextId..(nextId + n - 1))) = Cardinality(unanswered) + n
<1> DEFINE new == nextId..(nextId + n - 1)
<1>1. nextId \in Int /\ nextId + n - 1 \in Int /\ unanswered \subseteq Int
  BY FlushPathAssumption DEF TypeOK, Row
<1>2. IsFiniteSet(new) /\ Cardinality(new) = n
  <2>1. /\ IsFiniteSet(new)
        /\ Cardinality(new) = IF nextId > nextId + n - 1 THEN 0 ELSE (nextId + n - 1) - nextId + 1
    BY <1>1, FS_Interval
  <2> QED
    BY <1>1, <2>1
<1>3. IsFiniteSet(unanswered) /\ Cardinality(unanswered) \in Nat
  BY RowsFinite DEF TypeOK
<1>4. unanswered \cap new = {}
  BY <1>1
<1>5. Cardinality(unanswered \cap new) = 0
  BY <1>4, FS_EmptySet
<1>6. Cardinality(unanswered \cup new)
         = Cardinality(unanswered) + Cardinality(new) - Cardinality(unanswered \cap new)
  BY <1>2, <1>3, FS_Union
<1> HIDE DEF new
<1>7. Cardinality(unanswered \cup new) = Cardinality(unanswered) + n
  BY <1>2, <1>3, <1>5, <1>6
<1> QED
  BY <1>7 DEF new

\* Deleting staged rows takes exactly as many away.
LEMMA StagingFewer ==
    ASSUME TypeOK, NEW S \in SUBSET Row, S \subseteq staged
    PROVE  Cardinality(staged \ S) + Cardinality(S) = Cardinality(staged)
<1>1. IsFiniteSet(staged) /\ Cardinality(staged) \in Nat /\ Cardinality(S) \in Nat
  BY RowsFinite DEF TypeOK
<1>2. Cardinality(staged \ S) = Cardinality(staged) - Cardinality(staged \cap S)
  BY <1>1, FS_Difference
<1>3. staged \cap S = S
  OBVIOUS
<1> QED
  BY <1>1, <1>2, <1>3

\* Sealing leaves the batch at the head of the queue where it is.
LEMMA SealKeepsHead ==
    ASSUME queue \in Seq(Job), NEW S, SealInto(S)
    PROVE  queue # <<>> => queue' # <<>> /\ Head(queue') = Head(queue)
<1>1. CASE S = {}
  BY <1>1 DEF SealInto
<1>2. CASE S # {}
  <2>1. queue' = Append(queue, NewJob(S))
    BY <1>2 DEF SealInto
  <2>2. Len(queue) \in Nat
    OBVIOUS
  <2> QED
    BY <2>1, <2>2
<1> QED
  BY <1>1, <1>2

\* The attempt's two operations on the job leave its rows alone.
LEMMA UpdatesKeepRows ==
    ASSUME queue \in Seq(Job), queue # <<>>
    PROVE  /\ [queue EXCEPT ![1].attempted = TRUE] # <<>>
           /\ \A k : /\ [queue EXCEPT ![1].key = k] # <<>>
                     /\ Head([queue EXCEPT ![1].key = k]).rows = Head(queue).rows
<1>1. Len(queue) \in Nat \ {0} /\ queue \in [1..Len(queue) -> Job] /\ Head(queue) = queue[1]
  OBVIOUS
<1>2. queue[1].rows = Head(queue).rows
  BY <1>1
<1>3. [queue EXCEPT ![1].attempted = TRUE] # <<>>
  BY <1>1
<1>4. ASSUME NEW k
      PROVE  /\ [queue EXCEPT ![1].key = k] # <<>>
             /\ Head([queue EXCEPT ![1].key = k]).rows = Head(queue).rows
  <2> DEFINE q == [queue EXCEPT ![1].key = k]
  <2>1. q # <<>> /\ DOMAIN q = DOMAIN queue /\ q[1] = [queue[1] EXCEPT !.key = k]
    BY <1>1
  <2>2. [queue[1] EXCEPT !.key = k].rows = queue[1].rows
    BY <1>1 DEF Job
  <2>3. Head(q) = q[1]
    BY <1>1
  <2> QED
    BY <1>1, <2>1, <2>2, <2>3
<1> QED
  BY <1>3, <1>4

\* Whoever gives the slot back leaves no writer behind.
LEMMA CeilingWhenFreed ==
    ASSUME TypeOK, CeilingInv, UNCHANGED <<staged, unanswered, nextId>>, owner' = "none", NoWriter,
           mode' = "down" \/ (mode' = mode /\ held' = held)
    PROVE  CeilingInv'
<1>1. StagingBounded' /\ Charged'
  BY DEF CeilingInv, StagingBounded, Charged
<1>2. PlaceKept' /\ AttemptHasRows'
  BY DEF NoWriter, PlaceKept, AttemptHasRows, Draining, Working, At
<1> QED
  BY <1>1, <1>2 DEF CeilingInv

\* Between attempts only the charge has to be looked at.
LEMMA CeilingWhenIdle ==
    ASSUME CeilingInv, UNCHANGED <<staged, unanswered, nextId, mode, held>>, owner # "none",
           owner' \in {"opening", "draining", "writer", "closing"}, pc' = "idle"
    PROVE  CeilingInv'
<1>1. StagingBounded' /\ Charged'
  BY DEF CeilingInv, StagingBounded, Charged
<1>2. PlaceKept' /\ AttemptHasRows'
  BY <1>1 DEF PlaceKept, AttemptHasRows, Draining, Working, At
<1> QED
  BY <1>1, <1>2 DEF CeilingInv

LEMMA CeilingStep == TypeOK /\ CeilingInv /\ [Next]_vars => CeilingInv'
<1> SUFFICES ASSUME TypeOK, CeilingInv, [Next]_vars PROVE CeilingInv'
  OBVIOUS
<1> USE DEF staging, spool, lake, process, bounds
<1>0. StagingBounded /\ Charged /\ PlaceKept /\ AttemptHasRows
  BY DEF CeilingInv
<1>1. CASE UNCHANGED vars \/ Sweeper
  <2>1. UNCHANGED <<staged, unanswered, nextId, held, mode, owner, drainKey, queue, pc>>
    BY <1>1 DEF vars, Sweeper, EvictFile, EvictRow
  <2> QED
    BY <1>0, <2>1 DEF CeilingInv, StagingBounded, Charged, PlaceKept, AttemptHasRows, Draining,
                      Working, At, Current
<1>2. CASE (\E m \in Modes : Open(m)) \/ StoreClose
  <2>1. /\ owner' = "none" /\ UNCHANGED <<staged, unanswered, nextId, queue, pc, drainKey>>
        /\ mode' = "down" \/ held' = Cardinality(staged)
    BY <1>0, <1>2 DEF Open, StoreClose, SeededCount, Charged
  <2>2. Cardinality(staged) \in Nat /\ Cardinality(unanswered) \in Nat
    BY CountsAreNumbers
  <2>3. StagingBounded' /\ Charged'
    BY <1>0, <2>1, <2>2 DEF StagingBounded, Charged
  <2>4. PlaceKept' /\ AttemptHasRows'
    BY <1>0, <1>2, <2>1 DEF Open, StoreClose, Charged, PlaceKept, AttemptHasRows, Draining, Working, At
  <2> QED
    BY <2>3, <2>4 DEF CeilingInv
<1>3. CASE Crash \/ DrainFail \/ CloseDrained \/ CloseReported \/ CloseExpired
  <2>1. /\ UNCHANGED <<staged, unanswered, nextId>> /\ owner' = "none" /\ NoWriter
        /\ mode' = "down" \/ (mode' = mode /\ held' = held)
    BY <1>3 DEF Crash, DrainFail, CloseDrained, CloseReported, CloseExpired
  <2> QED
    BY <2>1, CeilingWhenFreed
<1>4. CASE ClaimForWriter \/ ClaimForDrain
  <2>1. /\ mode # "down" /\ owner' \in {"opening", "draining"} /\ pc' = "idle"
        /\ UNCHANGED <<staged, unanswered, nextId, held, mode, queue>>
    BY <1>0, <1>4 DEF ClaimForWriter, ClaimForDrain, Claim, PlaceKept
  <2>2. StagingBounded' /\ Charged'
    BY <1>0, <2>1 DEF StagingBounded, Charged
  <2>3. PlaceKept' /\ AttemptHasRows'
    BY <2>1 DEF PlaceKept, AttemptHasRows, Draining, Working, At
  <2> QED
    BY <2>2, <2>3 DEF CeilingInv
<1>5. CASE DrainUpload \/ DrainMark
  <2>1. /\ owner' = owner /\ owner \in {"opening", "draining"} /\ pc' = "idle"
        /\ UNCHANGED <<staged, unanswered, nextId, held, mode>>
    BY <1>0, <1>5 DEF DrainUpload, DrainMark, Draining, PlaceKept
  <2> QED
    BY <2>1, CeilingWhenIdle
<1>6. CASE DrainCommit
  <2>1. /\ owner' = owner /\ owner \in {"opening", "draining"}
        /\ drainKey # NoKey /\ UNCHANGED <<staged, unanswered, nextId, held, mode, drainKey, queue>>
    BY <1>6 DEF DrainCommit, Draining
  <2>2. StagingBounded' /\ Charged'
    BY <1>0, <2>1 DEF StagingBounded, Charged
  <2>3. PlaceKept' /\ AttemptHasRows'
    BY <2>1 DEF PlaceKept, AttemptHasRows, Draining, Working, At, NoKey
  <2> QED
    BY <2>2, <2>3 DEF CeilingInv
<1>7. CASE DrainSpoolDone
  <2>1. /\ owner' = "none" /\ pc' = "idle" /\ drainKey' = NoKey /\ mode' # "down"
        /\ UNCHANGED <<staged, unanswered, nextId, held, mode, queue>>
    BY <1>0, <1>7 DEF DrainSpoolDone, Draining, PlaceKept, Charged
  <2>2. StagingBounded' /\ Charged'
    BY <1>0, <2>1 DEF StagingBounded, Charged
  <2>3. PlaceKept' /\ AttemptHasRows'
    BY <2>1 DEF PlaceKept, AttemptHasRows, Draining, Working, At
  <2> QED
    BY <2>2, <2>3 DEF CeilingInv
<1>8. CASE StartWriter
  <2>1. /\ owner = "opening" /\ owner' = "writer" /\ pc' = "idle"
        /\ UNCHANGED <<staged, unanswered, nextId, held, mode>>
    BY <1>0, <1>8 DEF StartWriter, Draining, PlaceKept
  <2> QED
    BY <2>1, CeilingWhenIdle
<1>9. CASE \E n \in 1..MaxInsert : Insert(n)
  <2> PICK n \in 1..MaxInsert : Insert(n)
    BY <1>9
  <2> DEFINE new == nextId..(nextId + n - 1)
  <2>1. /\ n \in Nat /\ nextId + n - 1 <= MaxRow /\ owner = "writer"
        /\ held + n <= Ceiling /\ held' = held + n /\ staged' = staged \cup new
        /\ nextId' = nextId + n /\ UNCHANGED <<mode, owner, pc, drainKey, unanswered>>
    BY FlushPathAssumption DEF Insert
  <2>2. Cardinality(staged') <= Cardinality(staged) + n
    BY <2>1, StagingMore
  <2>3. /\ Cardinality(staged) \in Nat /\ held \in Nat /\ held' \in Nat /\ Ceiling \in Nat
        /\ Cardinality(unanswered) \in Nat /\ nextId \in Nat
        /\ Cardinality(staged) <= held + Cardinality(unanswered)
    BY <1>0, <2>1, CountsAreNumbers DEF Charged
  <2>4. staged' \in SUBSET Row
    BY <2>1, FlushPathAssumption DEF TypeOK, Row
  <2>5. Cardinality(staged') \in Nat
    BY <2>4, RowsFinite
  <2>6. StagingBounded' /\ Charged'
    <3>1. \A r \in unanswered : r < nextId'
      <4>1. unanswered \subseteq Nat
        BY FlushPathAssumption DEF TypeOK, Row
      <4> QED
        BY <1>0, <2>1, <2>3, <4>1 DEF Charged
    <3> QED
      BY <1>0, <2>1, <2>2, <2>3, <2>5, <3>1 DEF StagingBounded, Charged
  <2>7. queue # <<>> => queue' # <<>> /\ Head(queue') = Head(queue)
    BY SealKeepsHead DEF Insert, TypeOK
  <2>8. PlaceKept'
    BY <1>0, <2>1, <2>7 DEF PlaceKept, Draining
  <2>9. CASE pc = "idle"
    BY <2>1, <2>6, <2>8, <2>9 DEF CeilingInv, AttemptHasRows, Working, At
  <2>10. CASE pc # "idle"
    <3>1. queue # <<>> /\ Working /\ Current' = Current
      BY <1>0, <2>1, <2>7, <2>10 DEF PlaceKept, Working, Current
    <3>2. Cardinality(Current.rows) \in Nat
      BY <3>1, QueueTypes, RowsFinite DEF TypeOK, Current, Job
    <3>3. pc = "schemas" =>
             Cardinality(staged') + Cardinality(Current.rows) <= held' + Cardinality(unanswered)
      BY <1>0, <2>1, <2>2, <2>3, <2>5, <3>1, <3>2 DEF AttemptHasRows, At
    <3>4. pc # "schemas" => Current.rows \subseteq staged \/ pc \notin {"check", "encode", "spoolrow", "upload", "commit", "mark", "prune"}
      BY <1>0, <3>1 DEF AttemptHasRows
    <3>5. AttemptHasRows'
      BY <2>1, <3>1, <3>3, <3>4 DEF AttemptHasRows, At
    <3> QED
      BY <2>6, <2>8, <3>5 DEF CeilingInv
  <2> QED
    BY <2>9, <2>10
<1>10. CASE Trigger \/ StartClose
  <2>1. /\ owner = "writer" /\ owner' \in {"writer", "closing"} /\ SealInto(batch)
        /\ UNCHANGED <<staged, unanswered, nextId, held, mode, pc, drainKey>>
    BY <1>10 DEF Trigger, StartClose
  <2>2. queue # <<>> => queue' # <<>> /\ Head(queue') = Head(queue)
    BY <2>1, SealKeepsHead DEF TypeOK
  <2>3. CASE pc = "idle"
    BY <2>1, <2>3, CeilingWhenIdle
  <2>4. CASE pc # "idle"
    <3>1. queue # <<>> /\ Working /\ Current' = Current /\ queue' # <<>>
      BY <1>0, <2>1, <2>2, <2>4 DEF PlaceKept, Working, Current
    <3>2. StagingBounded' /\ Charged'
      BY <1>0, <2>1 DEF StagingBounded, Charged
    <3>3. PlaceKept'
      BY <2>1, <3>1 DEF PlaceKept, Draining
    <3>4. AttemptHasRows'
      BY <1>0, <2>1, <3>1 DEF AttemptHasRows, At
    <3> QED
      BY <3>2, <3>3, <3>4 DEF CeilingInv
  <2> QED
    BY <2>3, <2>4
<1>11. CASE Prepare
  <2>1. /\ Working /\ Current.rows \subseteq staged /\ pc' \in {"check", "encode"}
        /\ queue' = [queue EXCEPT ![1].key = KeyOf(Current)]
        /\ UNCHANGED <<staged, unanswered, nextId, held, mode, owner, drainKey>>
    BY <1>11 DEF Prepare, Sealable, At
  <2>2. queue' # <<>> /\ Head(queue').rows = Head(queue).rows
    BY <2>1, UpdatesKeepRows DEF TypeOK, Working
  <2>3. StagingBounded' /\ Charged'
    BY <1>0, <2>1 DEF StagingBounded, Charged
  <2>4. PlaceKept' /\ AttemptHasRows'
    BY <2>1, <2>2 DEF PlaceKept, AttemptHasRows, Draining, Working, At, Current
  <2> QED
    BY <2>3, <2>4 DEF CeilingInv
<1>12. CASE PrepareRefused \/ CommitConflict \/ Fail \/ CommitAnswerLost \/ Quarantine
            \/ SealAnswerLost
  <2>1. /\ owner \in {"writer", "closing"} /\ pc' = "idle" /\ UNCHANGED <<staged, unanswered, nextId, held, mode, owner>>
    BY <1>12 DEF PrepareRefused, CommitConflict, Fail, CommitAnswerLost, Quarantine,
                 SealAnswerLost, GiveUp, Finished, At, Working
  <2> QED
    BY <2>1, CeilingWhenIdle
<1>13. CASE Check \/ SpoolFile \/ SpoolRow \/ Upload \/ Commit \/ MarkSpooled
  <2>1. /\ Working /\ pc \in {"check", "encode", "spoolrow", "upload", "commit", "mark"}
        /\ pc' \in {"encode", "spoolrow", "upload", "commit", "mark", "prune"}
        /\ UNCHANGED <<staged, unanswered, nextId, held, mode, owner, drainKey, queue>>
    BY <1>13 DEF Check, SpoolFile, SpoolRow, Upload, Commit, MarkSpooled, At
  <2>2. StagingBounded' /\ Charged'
    BY <1>0, <2>1 DEF StagingBounded, Charged
  <2>3. PlaceKept' /\ AttemptHasRows'
    BY <1>0, <2>1 DEF PlaceKept, AttemptHasRows, Draining, Working, At, Current
  <2> QED
    BY <2>2, <2>3 DEF CeilingInv
<1>14. CASE Prune
  <2>1. /\ Working /\ pc = "prune" /\ pc' = "schemas" /\ staged' = staged \ Current.rows
        /\ UNCHANGED <<held, mode, owner, drainKey, queue, unanswered, nextId>>
    BY <1>14 DEF Prune, At
  <2>2. Current.rows \subseteq staged /\ Current.rows \in SUBSET Row
    BY <1>0, <2>1, QueueTypes DEF AttemptHasRows, Working, Current, TypeOK, Job
  <2>3. Cardinality(staged') + Cardinality(Current.rows) = Cardinality(staged)
    BY <2>1, <2>2, StagingFewer
  <2>4. /\ Cardinality(staged) \in Nat /\ Cardinality(staged') \in Nat /\ Cardinality(Current.rows) \in Nat
        /\ held \in Nat /\ Ceiling \in Nat /\ Cardinality(unanswered) \in Nat
    BY <2>1, <2>2, CountsAreNumbers, RowsFinite DEF TypeOK
  <2>5. /\ Cardinality(staged) <= held + Cardinality(unanswered)
        /\ Cardinality(staged) <= Ceiling + Cardinality(unanswered)
    BY <1>0, <2>1 DEF Charged, Working, StagingBounded
  <2>6. StagingBounded' /\ Charged'
    BY <1>0, <2>1, <2>3, <2>4, <2>5 DEF StagingBounded, Charged
  <2>7. PlaceKept'
    BY <2>1 DEF PlaceKept, Draining, Working
  <2>8. AttemptHasRows'
    BY <2>1, <2>3, <2>4, <2>5 DEF AttemptHasRows, At, Current
  <2> QED
    BY <2>6, <2>7, <2>8 DEF CeilingInv
<1>15. CASE Finish
  <2>1. /\ At("schemas") /\ owner \in {"writer", "closing"} /\ pc' = "idle"
        /\ held' = Release(Cardinality(Current.rows))
        /\ UNCHANGED <<staged, mode, owner, unanswered, nextId>>
    BY <1>15 DEF Finish, Finished, At, Working
  <2>2. Cardinality(staged) + Cardinality(Current.rows) <= held + Cardinality(unanswered)
    BY <1>0, <2>1 DEF AttemptHasRows
  <2>3. /\ Cardinality(staged) \in Nat /\ Cardinality(Current.rows) \in Nat /\ held \in Nat
        /\ Cardinality(unanswered) \in Nat
    BY <2>1, CountsAreNumbers, RowsFinite, QueueTypes DEF At, Working, Current, TypeOK, Job
  <2>4. Cardinality(staged) <= held' + Cardinality(unanswered)
    BY <2>1, <2>2, <2>3 DEF Release
  <2>5. StagingBounded' /\ Charged'
    BY <1>0, <2>1, <2>4 DEF StagingBounded, Charged
  <2>6. PlaceKept' /\ AttemptHasRows'
    BY <2>1 DEF PlaceKept, AttemptHasRows, Draining, Working, At
  <2> QED
    BY <2>5, <2>6 DEF CeilingInv
<1>16. CASE \E n \in 1..MaxInsert : InsertAnswerLost(n)
  <2> PICK n \in 1..MaxInsert : InsertAnswerLost(n)
    BY <1>16
  <2> DEFINE new == nextId..(nextId + n - 1)
  <2>1. /\ n \in Nat /\ nextId + n - 1 <= MaxRow /\ owner = "writer" /\ held + n <= Ceiling
        /\ staged' = staged \cup new /\ unanswered' = unanswered \cup new
        /\ nextId' = nextId + n /\ UNCHANGED <<mode, owner, pc, drainKey, queue, held>>
    BY FlushPathAssumption DEF InsertAnswerLost
  <2>2. Cardinality(staged') <= Cardinality(staged) + n
    BY <2>1, StagingMore
  <2>3. Cardinality(unanswered') = Cardinality(unanswered) + n
    BY <1>0, <2>1, UnansweredMore DEF Charged
  <2>4. Cardinality(staged') \in Nat
    BY <2>1, RowsFinite, TypeStep DEF TypeOK
  <2>5. StagingBounded' /\ Charged'
    <3>1. \A r \in unanswered' : r < nextId'
      <4>1. unanswered \subseteq Nat /\ nextId \in Nat
        BY FlushPathAssumption DEF TypeOK, Row
      <4> QED
        BY <1>0, <2>1, <4>1 DEF Charged
    <3> QED
      BY <1>0, <2>1, <2>2, <2>3, <2>4, <3>1, CountsAreNumbers DEF StagingBounded, Charged
  <2>6. PlaceKept'
    BY <1>0, <2>1 DEF PlaceKept, Draining
  <2>7. AttemptHasRows'
    <3>1. ASSUME Working
          PROVE  Cardinality(Current.rows) \in Nat
      BY <3>1, QueueTypes, RowsFinite DEF Working, TypeOK, Current, Job
    <3>2. pc = "schemas" /\ Working =>
             Cardinality(staged') + Cardinality(Current.rows) <= held + Cardinality(unanswered')
      BY <1>0, <2>2, <2>3, <2>4, <3>1, CountsAreNumbers DEF AttemptHasRows, At
    <3> HIDE DEF new
    <3> QED
      BY <1>0, <2>1, <3>2 DEF AttemptHasRows, At, Working, Current
  <2> QED
    BY <2>5, <2>6, <2>7 DEF CeilingInv
<1> QED
  BY <1>1, <1>2, <1>3, <1>4, <1>5, <1>6, <1>7, <1>8, <1>9, <1>10, <1>11, <1>12, <1>13, <1>14, <1>15,
     <1>16
  DEF Next, Worker, Drain, Caller, Fault

\* The staging table never holds more records than the configured ceiling, over
\* any number of kills, restarts, failed prunes and quarantines, but for one
\* record more for each that was staged by an insert answered with a failure.
THEOREM CeilingHolds == Spec => []StagingBounded
<1>1. CeilingInv => StagingBounded
  BY DEF CeilingInv
<1> QED
  BY <1>1, TypeInit, TypeStep, CeilingInit, CeilingStep, PTL DEF Spec

-----------------------------------------------------------------------------
(***************************************************************************)
(* No record lost, none committed twice, and FlushPath implements          *)
(* Delivery: for any number of records, failures, kills and restarts, and  *)
(* in every configuration, provided that no two records encode alike.      *)
(*                                                                         *)
(* The argument.  batchKey outlives the row it was stamped on, so it says  *)
(* for ever which batch a record was sealed into.  Whatever carries a key  *)
(* (a queued job, a spool file, an object, a snapshot) then carries        *)
(* exactly that batch, and two of them that share a record are one batch.  *)
(* What is left is to follow one key: what must exist, and what must not   *)
(* be in the table yet, at each step of an attempt and of a drain.         *)
(***************************************************************************)


\* Records that encode differently.  It is the whole condition: the run
\* flush_repeats shows what a repeated record does.
DistinctRecords == \A q, r \in Row : Payload[q] = Payload[r] => q = r

\* The records sealed under key k, those already pruned included.
Members(k) == {r \in Row : batchKey[r] = k}

\* x is a batch under its key, whole, and one that can be encoded.
IsBatch(x) ==
    /\ x.key # NoKey /\ x.rows # {}
    /\ x.rows = Members(x.key)
    /\ Encodes(x)

(***************************************************************************)
(* The staging rows.                                                       *)
(***************************************************************************)
\* An id not given out yet has left no trace.
FreshIds ==
    \A r \in Row : r >= nextId => r \notin staged \cup quarantined /\ batchKey[r] = NoKey

\* A key is the hash of all that carry it.
SealsTell ==
    \A r \in Row : batchKey[r] # NoKey => BatchHash(Members(batchKey[r])) = batchKey[r]

\* A sealed batch is pruned whole.
PrunedWhole ==
    \A q, r \in Row :
        r \in staged /\ batchKey[r] # NoKey /\ batchKey[q] = batchKey[r] => q \in staged

\* A batch quarantined under its key is one that cannot be encoded.
QuarantinedBad ==
    \A r \in quarantined : batchKey[r] # NoKey => Members(batchKey[r]) \cap Bad # {}

StagingInv == FreshIds /\ SealsTell /\ PrunedWhole /\ QuarantinedWhole /\ QuarantinedBad

(***************************************************************************)
(* The files, the objects, the snapshots and the spool's table.            *)
(***************************************************************************)
KeysTell ==
    /\ \A f \in file : IsBatch(f)
    /\ \A o \in object : IsBatch(o)
    /\ \A i \in DOMAIN log : IsBatch(log[i])

\* No snapshot adds a batch another one added.
SnapshotsDiffer == \A i, j \in DOMAIN log : log[i].key = log[j].key => i = j

CommitsHaveObjects == \A i \in DOMAIN log : \E o \in object : o.key = log[i].key

LakeInv == KeysTell /\ SnapshotsDiffer /\ CommitsHaveObjects

\* The spool's table has one row for a key, and a mark is the truth.
SpoolInv ==
    /\ \A s, t \in spoolRow : s.key = t.key => s = t
    /\ \A s \in spoolRow : s.committed => Committed(s.key, Len(log))
    /\ BacklogFilesPresent

(***************************************************************************)
(* The writer's queue and its current batch.                               *)
(***************************************************************************)
\* A job that this process neither tried nor replayed has no key, but for the
\* one being attempted: prepare's check covers every batch that may come back.
\* A job without a key has no sealed row, but for the head of the queue once the
\* answer of its seal was lost.
JobSound(i) ==
    LET j == queue[i] IN
    /\ j.rows # {} /\ \A r \in j.rows : r < nextId
    /\ j.key = NoKey => (\A r \in j.rows : batchKey[r] = NoKey) \/ (i = 1 /\ j.attempted)
    /\ j.key # NoKey => /\ j.rows = Members(j.key)
                        /\ j.replayed \/ j.attempted \/ (i = 1 /\ pc # "idle")

QueueInv ==
    /\ owner \in {"none", "opening", "draining"} => queue = <<>>
    /\ \A i \in DOMAIN queue : JobSound(i)
    /\ \A i, j \in DOMAIN queue : i # j => queue[i].rows \cap queue[j].rows = {}
    /\ \A r \in batch : r < nextId /\ batchKey[r] = NoKey
    /\ \A i \in DOMAIN queue : queue[i].rows \cap batch = {}

(***************************************************************************)
(* An attempt under way, and a drain under way.                            *)
(***************************************************************************)
Uncommitted(k) == \E s \in spoolRow : s.key = k /\ ~s.committed

\* What the attempt at the head has established by the step it is at.
AttemptInv ==
    Working =>
    /\ pc \in {"check", "encode", "spoolrow", "upload", "commit", "mark", "prune"} =>
          Current.key # NoKey
    /\ mode = "local" => pc \notin {"check", "upload", "commit", "mark"}
    /\ pc \in {"encode", "spoolrow", "upload", "commit"} /\ mode # "local" =>
          ~Committed(Current.key, base)
    /\ pc \in {"spoolrow", "upload", "commit"} => Encodes(Current)
    /\ pc = "spoolrow" => \E f \in file : f.key = Current.key
    /\ pc = "commit" => \E o \in object : o.key = Current.key
    /\ pc = "mark" => Committed(Current.key, base)
    /\ pc = "prune" => Committed(Current.key, Len(log)) \/ Uncommitted(Current.key)

\* The writer's handle knows of every commit a spool row is marked with.
HandleInv ==
    owner \in {"writer", "closing"} =>
    /\ base <= Len(log)
    /\ \A s \in spoolRow : s.committed => Committed(s.key, base)

\* The file being drained is owed to the bucket until it is marked.
DrainInv ==
    Draining =>
    /\ drainKey # NoKey => /\ Uncommitted(drainKey)
                           /\ \E o \in object : o.key = drainKey
    /\ pc = "mark" => drainKey # NoKey /\ Committed(drainKey, Len(log))

(***************************************************************************)
FlushInv ==
    StagingInv /\ LakeInv /\ SpoolInv /\ QueueInv /\ AttemptInv /\ HandleInv /\ DrainInv
             /\ NoRecordLost

(***************************************************************************)
(* Keys and the batches they name.                                         *)
(***************************************************************************)

\* Two sets of records have one hash only if they are one set.
LEMMA HashInjective ==
    ASSUME DistinctRecords, NEW S \in SUBSET Row, NEW T \in SUBSET Row,
           BatchHash(S) = BatchHash(T)
    PROVE  S = T
<1>1. ASSUME NEW A \in SUBSET Row, NEW B \in SUBSET Row, BatchHash(A) = BatchHash(B), NEW r \in A
      PROVE  r \in B
  <2>1. <<Rank(r, A), Payload[r]>> \in BatchHash(B)
    BY <1>1 DEF BatchHash
  <2>2. PICK q \in B : <<Rank(r, A), Payload[r]>> = <<Rank(q, B), Payload[q]>>
    BY <2>1 DEF BatchHash
  <2> QED
    BY <2>2 DEF DistinctRecords
<1>2. S \subseteq T /\ T \subseteq S
  BY <1>1
<1> QED
  BY <1>2

\* A record that is in something has a hash to show for it.
LEMMA HashNotEmpty ==
    ASSUME NEW S \in SUBSET Row, S # {}
    PROVE  BatchHash(S) # NoKey
  BY DEF BatchHash, NoKey

\* While a batch is attempted it is the first job, and a sound one.
LEMMA HeadSound ==
    ASSUME TypeOK, QueueInv, queue # <<>>
    PROVE  /\ 1 \in DOMAIN queue /\ Current = queue[1] /\ Current \in Job
           /\ JobSound(1)
<1>1. Len(queue) \in Nat \ {0} /\ DOMAIN queue = 1..Len(queue) /\ Head(queue) = queue[1]
  BY DEF TypeOK
<1>2. Current \in Job
  BY QueueTypes DEF TypeOK, Current
<1> QED
  BY <1>1, <1>2 DEF QueueInv, Current

\* The two steps that stamp a batch, with its answer or without.
Seals == Prepare \/ SealAnswerLost

LEMMA SealsHead ==
    Seals => /\ At("idle") /\ Working /\ queue # <<>> /\ Sealable(Current) /\ SealRows(Current)
             /\ UNCHANGED <<nextId, staged, quarantined, file, spoolRow, log, batch, owner, unanswered>>
  BY DEF Seals, Prepare, SealAnswerLost, At, Working, spool, lake, bounds

\* The two steps that stage new rows, with their answer or without.
Stages(n) == Insert(n) \/ InsertAnswerLost(n)

LEMMA StagesRows ==
    ASSUME TypeOK, NEW n \in 1..MaxInsert, Stages(n)
    PROVE  /\ n \in Nat \ {0} /\ nextId \in Nat \ {0} /\ nextId + n - 1 <= MaxRow /\ MaxRow \in Nat
           /\ staged' = staged \cup (nextId..(nextId + n - 1)) /\ nextId' = nextId + n
           /\ owner = "writer"
           /\ UNCHANGED <<batchKey, quarantined, file, spoolRow, log, mode, owner, pc, base>>
           /\ unanswered \subseteq unanswered'
  BY FlushPathAssumption DEF Stages, Insert, InsertAnswerLost, TypeOK, spool, lake, process, bounds

\* What sealing does to the keys: the stamped batch gets one nobody had, and
\* every other batch keeps its own.
LEMMA Stamps ==
    ASSUME DistinctRecords, TypeOK, StagingInv, QueueInv, Seals, NEW k0, k0 = KeyOf(Current)
    PROVE  /\ k0 # NoKey /\ k0 \in Key
           /\ Members(k0)' = Current.rows
           /\ BatchHash(Current.rows) = k0
           /\ \A k : k # NoKey /\ Members(k) # {} => Members(k)' = Members(k)
           /\ \A r \in Row : r \in Current.rows \/ batchKey'[r] = batchKey[r]
           /\ \A r \in Row : batchKey[r] # NoKey => batchKey'[r] = batchKey[r]
<1> DEFINE j == Current
<1>1. queue # <<>> /\ Sealable(j) /\ SealRows(j)
  BY SealsHead
<1>2. j \in Job /\ j.rows \in SUBSET Row /\ j.rows # {} /\ j.key \in Key /\ JobSound(1) /\ j = queue[1]
  BY <1>1, HeadSound DEF Job, JobSound
<1>3. CASE j.key # NoKey
  <2>1. k0 = j.key /\ batchKey' = batchKey
    BY <1>1, <1>3 DEF KeyOf, SealRows
  <2>2. j.rows = Members(j.key)
    BY <1>2, <1>3 DEF JobSound
  <2>3. BatchHash(j.rows) = j.key
    <3>1. PICK r \in j.rows : TRUE
      BY <1>2
    <3>2. r \in Row /\ batchKey[r] = j.key
      BY <2>2, <3>1 DEF Members
    <3> QED
      BY <1>3, <2>2, <3>2 DEF StagingInv, SealsTell
  <2> QED
    BY <1>2, <1>3, <2>1, <2>2, <2>3 DEF Members
<1>4. CASE j.key = NoKey
  <2>1. k0 = BatchHash(j.rows) /\ k0 # NoKey /\ k0 \in Key
    BY <1>2, <1>4, HashNotEmpty, HashIsKey DEF KeyOf
  <2>2. \A r \in j.rows : batchKey[r] = NoKey
    BY <1>1, <1>4 DEF Sealable
  <2>3. batchKey' = [r \in Row |-> IF r \in j.rows THEN k0 ELSE batchKey[r]]
    BY <1>1, <1>4, <2>1 DEF SealRows, KeyOf
  <2>4. Members(k0) = {}
    <3> SUFFICES ASSUME NEW r \in Members(k0) PROVE FALSE
      OBVIOUS
    <3>1. r \in Row /\ batchKey[r] = k0 /\ BatchHash(Members(k0)) = BatchHash(j.rows)
      BY <2>1 DEF StagingInv, SealsTell, Members
    <3>2. Members(k0) = j.rows
      BY <1>2, <3>1, HashInjective DEF Members
    <3> QED
      BY <2>1, <2>2, <3>1, <3>2
  <2> HIDE DEF j
  <2>5. Members(k0)' = j.rows
    BY <1>2, <2>3, <2>4 DEF Members
  <2>6. ASSUME NEW k, k # NoKey, Members(k) # {} PROVE Members(k)' = Members(k)
    BY <2>2, <2>3, <2>4, <2>6 DEF Members
  <2>7. \A r \in Row : (r \in j.rows \/ batchKey'[r] = batchKey[r])
                       /\ (batchKey[r] # NoKey => batchKey'[r] = batchKey[r])
    BY <2>2, <2>3
  <2> QED
    BY <2>1, <2>5, <2>6, <2>7 DEF j
<1> QED
  BY <1>3, <1>4

(***************************************************************************)
(* The staging rows.                                                       *)
(***************************************************************************)

LEMMA StagingFrame ==
    [Next]_vars => \/ \E n \in 1..MaxInsert : Stages(n)
                   \/ Seals \/ Quarantine \/ Prune
                   \/ UNCHANGED staging
<1> USE DEF staging, spool, lake, process, bounds
<1>1. Drain \/ Sweeper => UNCHANGED staging
  BY DEF Drain, DrainUpload, DrainCommit, DrainMark, DrainSpoolDone, Sweeper, EvictFile, EvictRow
<1>4. Fault => UNCHANGED staging \/ SealAnswerLost \/ \E n \in 1..MaxInsert : InsertAnswerLost(n)
  BY DEF Fault, Crash, DrainFail, CloseExpired, CommitAnswerLost, Fail
<1>2. Caller => UNCHANGED staging \/ \E n \in 1..MaxInsert : Insert(n)
  BY DEF Caller, StoreClose, ClaimForWriter, ClaimForDrain, Claim, Open, Trigger, StartWriter,
         StartClose, CloseDrained, CloseReported
<1>3. Worker => UNCHANGED staging \/ Prepare \/ Quarantine \/ Prune
  BY DEF Worker, PrepareRefused, Check, SpoolFile, SpoolRow, Upload, Commit, CommitConflict,
         MarkSpooled, Finish
<1> QED
  BY <1>1, <1>2, <1>3, <1>4 DEF Next, vars, Stages, Seals

LEMMA StagingStep ==
    ASSUME DistinctRecords, TypeOK, CeilingInv, StagingInv, QueueInv, AttemptInv, [Next]_vars
    PROVE  StagingInv'
<1> USE DEF StagingInv
<1>0. /\ nextId \in Nat \ {0} /\ batchKey \in [Row -> Key] /\ staged \subseteq Row
      /\ quarantined \subseteq Row /\ Row \subseteq Nat
  BY FlushPathAssumption DEF TypeOK, Row
<1>1. CASE \E n \in 1..MaxInsert : Stages(n)
  <2> PICK n \in 1..MaxInsert : Stages(n)
    BY <1>1
  <2> DEFINE new == nextId..(nextId + n - 1)
  <2>1. /\ staged' = staged \cup new /\ nextId' = nextId + n /\ n \in Nat \ {0}
        /\ nextId + n - 1 <= MaxRow /\ UNCHANGED <<batchKey, quarantined>>
    BY StagesRows
  <2>2. new \subseteq Row /\ \A r \in new : r >= nextId /\ r < nextId'
    BY <1>0, <2>1, FlushPathAssumption DEF Row
  <2>3. \A r \in Row : r >= nextId' => r >= nextId /\ r \notin new
    BY <1>0, <2>1, <2>2
  <2> HIDE DEF new
  <2>4. \A r \in new : batchKey[r] = NoKey
    BY <2>2 DEF FreshIds
  <2>5. FreshIds'
    BY <2>1, <2>3 DEF FreshIds
  <2>6. SealsTell' /\ QuarantinedBad'
    BY <2>1 DEF SealsTell, QuarantinedBad, Members
  <2>7. PrunedWhole'
    BY <1>0, <2>1, <2>4 DEF PrunedWhole
  <2>8. QuarantinedWhole'
    BY <2>1, <2>4 DEF QuarantinedWhole, ScanAccepts
  <2> QED
    BY <2>5, <2>6, <2>7, <2>8
<1>2. CASE Seals
  <2> PICK k0 : k0 = KeyOf(Current)
    OBVIOUS
  <2>1. /\ UNCHANGED <<staged, nextId, quarantined>> /\ Sealable(Current) /\ queue # <<>>
        /\ Current.key # NoKey => batchKey' = batchKey
    BY <1>2, SealsHead DEF SealRows
  <2>2. /\ k0 # NoKey /\ Members(k0)' = Current.rows /\ BatchHash(Current.rows) = k0
        /\ \A k : k # NoKey /\ Members(k) # {} => Members(k)' = Members(k)
        /\ \A r \in Row : r \in Current.rows \/ batchKey'[r] = batchKey[r]
        /\ \A r \in Row : batchKey[r] # NoKey => batchKey'[r] = batchKey[r]
    BY <1>2, Stamps
  <2>3. /\ Current.rows \subseteq staged /\ \A r \in Current.rows : r < nextId
        /\ Current.rows \subseteq Row
    BY <1>0, <2>1, HeadSound DEF Sealable, JobSound
  <2>4. CASE Current.key # NoKey
    BY <2>1, <2>4 DEF FreshIds, SealsTell, PrunedWhole, QuarantinedWhole, ScanAccepts, QuarantinedBad, Members
  <2>5. CASE Current.key = NoKey
    <3>1. \A r \in Current.rows : batchKey'[r] = k0 /\ r \notin quarantined
      BY <2>1, <2>2, <2>3, <2>5 DEF Members, Sealable
    <3>2. \A r \in Row : batchKey'[r] = k0 => r \in Current.rows
      BY <2>2 DEF Members
    <3>3. FreshIds'
      BY <1>0, <2>1, <2>2, <2>3 DEF FreshIds
    <3>4. SealsTell'
      <4> SUFFICES ASSUME NEW r \in Row, batchKey'[r] # NoKey
                   PROVE  BatchHash({q \in Row : batchKey'[q] = batchKey'[r]}) = batchKey'[r]
        BY DEF SealsTell, Members, BatchHash, Rank
      <4>1. CASE r \in Current.rows
        BY <2>2, <3>1, <4>1 DEF Members
      <4>2. CASE r \notin Current.rows
        <5>1. batchKey'[r] = batchKey[r] /\ r \in Members(batchKey[r])
          BY <2>2, <4>2 DEF Members
        <5>2. {q \in Row : batchKey'[q] = batchKey[r]} = Members(batchKey[r])
          BY <2>2, <5>1 DEF Members
        <5> QED
          BY <5>1, <5>2 DEF SealsTell
      <4> QED
        BY <4>1, <4>2
    <3>5. PrunedWhole'
      BY <2>1, <2>2, <2>3, <3>1, <3>2 DEF PrunedWhole
    <3>6. QuarantinedWhole'
      BY <1>0, <2>1, <2>2, <3>1, <3>2 DEF QuarantinedWhole, ScanAccepts
    <3>7. QuarantinedBad'
      BY <1>0, <2>1, <2>2, <3>1 DEF QuarantinedBad, Members
    <3> QED
      BY <3>3, <3>4, <3>5, <3>6, <3>7
  <2> QED
    BY <2>4, <2>5
<1>3. CASE Quarantine
  <2>1. /\ queue # <<>> /\ UNCHANGED <<nextId, staged, batchKey>> /\ ~Encodes(Current)
        /\ \/ quarantined' = quarantined
           \/ /\ quarantined' = quarantined \cup Current.rows
              /\ \A r \in Current.rows :
                   batchKey[r] # NoKey => Sealed(batchKey[r]) \subseteq Current.rows
    BY <1>3 DEF Quarantine, Marked, At, Working
  <2>2. JobSound(1) /\ Current = queue[1] /\ Current.rows \subseteq Row
    BY <2>1, HeadSound DEF Job
  <2>3. CASE quarantined' = quarantined
    BY <2>1, <2>3 DEF FreshIds, SealsTell, PrunedWhole, QuarantinedWhole, ScanAccepts, QuarantinedBad, Members
  <2>4. CASE /\ quarantined' = quarantined \cup Current.rows
             /\ \A r \in Current.rows :
                   batchKey[r] # NoKey => Sealed(batchKey[r]) \subseteq Current.rows
    <3>1. FreshIds'
      BY <1>0, <2>1, <2>2, <2>4 DEF FreshIds, JobSound
    <3>2. SealsTell' /\ PrunedWhole'
      BY <2>1 DEF SealsTell, PrunedWhole, Members
    <3>3. QuarantinedWhole'
      BY <2>1, <2>4 DEF QuarantinedWhole, ScanAccepts, Sealed
    <3>4. QuarantinedBad'
      <4>1. \A r \in Current.rows : batchKey[r] # NoKey => Members(batchKey[r]) = Current.rows
        <5>1. Current.key = NoKey => \A r \in Current.rows : batchKey[r] = NoKey
          BY <1>3 DEF Quarantine, Stranded, At, AttemptInv
        <5> QED
          BY <2>2, <5>1 DEF JobSound, Members
      <4> QED
        BY <2>1, <2>4, <4>1 DEF QuarantinedBad, Members, Encodes
    <3> QED
      BY <3>1, <3>2, <3>3, <3>4
  <2> QED
    BY <2>1, <2>3, <2>4
<1>4. CASE Prune
  <2>1. /\ Working /\ pc = "prune" /\ staged' = staged \ Current.rows
        /\ UNCHANGED <<nextId, batchKey, quarantined>>
    BY <1>4 DEF Prune, At
  <2>2. Current.rows = Members(Current.key)
    BY <2>1, HeadSound DEF AttemptInv, Working, JobSound
  <2>3. FreshIds' /\ SealsTell' /\ QuarantinedWhole' /\ QuarantinedBad'
    BY <2>1 DEF FreshIds, SealsTell, QuarantinedWhole, ScanAccepts, QuarantinedBad, Members
  <2>4. PrunedWhole'
    BY <2>1, <2>2 DEF PrunedWhole, Members
  <2> QED
    BY <2>3, <2>4
<1>5. CASE UNCHANGED staging
  BY <1>5 DEF staging, FreshIds, SealsTell, PrunedWhole, QuarantinedWhole, ScanAccepts, QuarantinedBad, Members
<1> QED
  BY <1>1, <1>2, <1>3, <1>4, <1>5, StagingFrame

(***************************************************************************)
(* The files, the objects and the snapshots.                               *)
(***************************************************************************)

\* Once a batch, a batch for ever: no later seal touches its records.
LEMMA BatchStands ==
    ASSUME DistinctRecords, TypeOK, StagingInv, QueueInv, [Next]_vars
    PROVE  \A x : IsBatch(x) => IsBatch(x)'
<1>1. CASE Seals
  <2> PICK k0 : k0 = KeyOf(Current)
    OBVIOUS
  <2>1. \A k : k # NoKey /\ Members(k) # {} => Members(k)' = Members(k)
    BY <1>1, Stamps
  <2> QED
    BY <2>1 DEF IsBatch, Encodes
<1>2. CASE batchKey' = batchKey
  BY <1>2 DEF IsBatch, Members, Encodes
<1> QED
  BY <1>1, <1>2, StagingFrame, StagesRows DEF Quarantine, Prune, staging

\* What is attempted under its key is a batch.
LEMMA HeadIsBatch ==
    ASSUME TypeOK, QueueInv, AttemptInv, Working, Encodes(Current),
           pc \in {"check", "encode", "spoolrow", "upload", "commit", "mark", "prune"}
    PROVE  IsBatch(Current) /\ Current.key \in Key /\ Current.rows \subseteq Row
  BY HeadSound DEF IsBatch, JobSound, AttemptInv, Working, Job

\* What a name holds after a write, when files and batches are whole.
LEMMA PutBatch ==
    ASSUME NEW F, NEW x, \A f \in F : IsBatch(f), IsBatch(x)
    PROVE  /\ \A f \in Put(F, x.key, x.rows) : IsBatch(f)
           /\ \A f \in F : \E g \in Put(F, x.key, x.rows) : g.key = f.key /\ g.rows = f.rows
           /\ \E g \in Put(F, x.key, x.rows) : g.key = x.key /\ g.rows = x.rows
           /\ \A f \in Put(F, x.key, x.rows) : f \in F \/ (f.key = x.key /\ f.rows = x.rows)
<1> DEFINE y == [key |-> x.key, rows |-> x.rows]
<1>1. y.key = x.key /\ y.rows = x.rows /\ IsBatch(y)
  BY DEF IsBatch, Encodes
<1>2. Put(F, x.key, x.rows) = {f \in F : f.key # x.key} \cup {y}
  BY DEF Put
<1>3. \A f \in F : f.key = x.key => f.rows = x.rows
  BY DEF IsBatch
<1> HIDE DEF y
<1> QED
  BY <1>1, <1>2, <1>3

LEMMA PutHas ==
    ASSUME NEW F, NEW k, NEW S
    PROVE  \E g \in Put(F, k, S) : g.key = k
<1>1. [key |-> k, rows |-> S] \in Put(F, k, S) /\ [key |-> k, rows |-> S].key = k
  BY DEF Put
<1> QED
  BY <1>1

\* The table only ever grows, one snapshot at a time.
LEMMA LogGrows ==
    ASSUME TypeOK, NEW x \in DataFiles, log' = Append(log, x)
    PROVE  /\ Len(log) \in Nat /\ Len(log') = Len(log) + 1
           /\ DOMAIN log = 1..Len(log)
           /\ DOMAIN log' = DOMAIN log \cup {Len(log) + 1}
           /\ Len(log) + 1 \notin DOMAIN log
           /\ log'[Len(log) + 1] = x
           /\ \A i \in DOMAIN log : log'[i] = log[i]
<1>1. log \in Seq(DataFiles)
  BY DEF TypeOK
<1> QED
  BY <1>1, AppendProperties

\* The file of which a drain commits, and the batch of which the worker does.
LEMMA LogFrame ==
    ASSUME TypeOK, [Next]_vars
    PROVE  \/ log' = log
           \/ /\ DrainCommit
              /\ \E f \in file : /\ f.key = drainKey /\ ~Committed(drainKey, Len(log))
                                 /\ log' = Append(log, f)
           \/ /\ Commit \/ CommitAnswerLost
              /\ At("commit") /\ base = Len(log) /\ log' = Append(log, DataFile(Current))
<1> USE DEF staging, spool, lake, process, bounds
<1>1. DrainCommit => \/ log' = log
                     \/ \E f \in file : /\ f.key = drainKey /\ ~Committed(drainKey, Len(log))
                                        /\ log' = Append(log, f)
  BY DEF DrainCommit
<1>2. Drain => DrainCommit \/ log' = log
  BY DEF Drain, DrainUpload, DrainMark, DrainSpoolDone
<1>3. Sweeper \/ Caller => log' = log
  BY DEF Sweeper, EvictFile, EvictRow, Caller, StoreClose, ClaimForWriter, ClaimForDrain, Claim, Open,
         Trigger, StartWriter, StartClose, CloseDrained, CloseReported, Insert
<1>4. Worker => Commit \/ log' = log
  BY DEF Worker, Prepare, PrepareRefused, Check, Quarantine, SpoolFile, SpoolRow, Upload,
         CommitConflict, MarkSpooled, Prune, Finish
<1>5. Fault => CommitAnswerLost \/ log' = log
  BY DEF Fault, Crash, DrainFail, CloseExpired, Fail, SealAnswerLost, InsertAnswerLost
<1> QED
  BY <1>1, <1>2, <1>3, <1>4, <1>5 DEF Next, vars, Commit, CommitAnswerLost

LEMMA JobIsFile ==
    ASSUME TypeOK, Working
    PROVE  /\ DataFile(Current) \in DataFiles
           /\ DataFile(Current).key = Current.key /\ DataFile(Current).rows = Current.rows
  BY QueueTypes DEF TypeOK, Working, Current, DataFile, DataFiles, Job

\* What is committed stays committed, and nothing is committed further back.
LEMMA CommitsLast ==
    ASSUME TypeOK, [Next]_vars
    PROVE  /\ Len(log) \in Nat /\ Len(log') \in Nat /\ Len(log) <= Len(log')
           /\ \A k : \A n \in Nat : n <= Len(log) => (Committed(k, n)' <=> Committed(k, n))
           /\ \A k : Committed(k, Len(log)) => Committed(k, Len(log))'
<1>1. Len(log) \in Nat
  BY DEF TypeOK
<1>2. CASE log' = log
  BY <1>1, <1>2 DEF Committed
<1>3. CASE \E x \in DataFiles : log' = Append(log, x)
  <2> PICK x \in DataFiles : log' = Append(log, x)
    BY <1>3
  <2>1. Len(log') = Len(log) + 1 /\ \A i \in 1..Len(log) : log'[i] = log[i]
    BY LogGrows
  <2> QED
    BY <1>1, <2>1 DEF Committed
<1> QED
  BY <1>2, <1>3, LogFrame, JobIsFile DEF At, TypeOK

\* What a step does to the files and to the objects.
LEMMA FilesFrame ==
    ASSUME [Next]_vars
    PROVE  /\ \/ file' = file
              \/ SpoolFile
              \/ \E s \in spoolRow : EvictFile(s)
           /\ \/ object' = object
              \/ Upload
              \/ DrainUpload
<1> USE DEF staging, spool, lake, process, bounds
<1>1. Drain => file' = file /\ (DrainUpload \/ object' = object)
  BY DEF Drain, DrainUpload, DrainCommit, DrainMark, DrainSpoolDone
<1>2. Sweeper => object' = object /\ (file' = file \/ \E s \in spoolRow : EvictFile(s))
  BY DEF Sweeper, EvictFile, EvictRow
<1>3. Caller => file' = file /\ object' = object
  BY DEF Caller, StoreClose, ClaimForWriter, ClaimForDrain, Claim, Open, Trigger, StartWriter,
         StartClose, CloseDrained, CloseReported, Insert
<1>4. Worker => (SpoolFile \/ file' = file) /\ (Upload \/ object' = object)
  BY DEF Worker, Prepare, PrepareRefused, Check, Quarantine, SpoolFile, SpoolRow, Upload, Commit,
         CommitConflict, MarkSpooled, Prune, Finish
<1>5. Fault => file' = file /\ object' = object
  BY DEF Fault, Crash, DrainFail, CloseExpired, Fail, CommitAnswerLost, SealAnswerLost, InsertAnswerLost
<1> QED
  BY <1>1, <1>2, <1>3, <1>4, <1>5 DEF Next, vars

\* Files and objects are replaced by themselves, if at all: what was under a
\* name, and is not evicted, stays under it.
LEMMA LakeFiles ==
    ASSUME TypeOK, QueueInv, AttemptInv, LakeInv, [Next]_vars
    PROVE  /\ \A f \in file' : IsBatch(f)
           /\ \A o \in object' : IsBatch(o)
           /\ \A o \in object : \E p \in object' : p.key = o.key
           /\ \A f \in file : \/ \E g \in file' : g.key = f.key /\ g.rows = f.rows
                              \/ \E s \in spoolRow : s.committed /\ s.key = f.key /\ EvictFile(s)
           /\ \A g \in file' : \/ \E f \in file : g.key = f.key /\ g.rows = f.rows
                               \/ SpoolFile /\ g.key = Current.key /\ g.rows = Current.rows
<1>0. (\A f \in file : IsBatch(f)) /\ (\A o \in object : IsBatch(o))
  BY DEF LakeInv, KeysTell
<1>1. CASE SpoolFile
  <2>1. file' = Put(file, Current.key, Current.rows)
    BY <1>1 DEF SpoolFile
  <2>2. IsBatch(Current)
    BY <1>1, HeadIsBatch DEF SpoolFile, At
  <2>3. object' = object
    BY <1>1 DEF SpoolFile, lake
  <2> QED
    BY <1>0, <1>1, <2>1, <2>2, <2>3, PutBatch
<1>2. CASE Upload
  <2>1. object' = Put(object, Current.key, Current.rows) /\ file' = file
    BY <1>2 DEF Upload, spool
  <2>2. IsBatch(Current)
    BY <1>2, HeadIsBatch DEF Upload, At, AttemptInv
  <2> QED
    BY <1>0, <2>1, <2>2, PutBatch
<1>3. CASE DrainUpload
  <2>1. PICK f \in file : object' = Put(object, f.key, f.rows)
    BY <1>3 DEF DrainUpload
  <2>2. IsBatch(f) /\ file' = file
    BY <1>0, <1>3, <2>1 DEF DrainUpload, spool
  <2> QED
    BY <1>0, <2>1, <2>2, PutBatch
<1>4. CASE \E s \in spoolRow : EvictFile(s)
  BY <1>0, <1>4 DEF EvictFile, Evictable, lake
<1>5. CASE file' = file /\ object' = object
  BY <1>0, <1>5
<1>6. SpoolFile => object' = object
  BY DEF SpoolFile, lake
<1> QED
  BY <1>1, <1>2, <1>3, <1>4, <1>5, FilesFrame DEF Upload, DrainUpload, SpoolFile, EvictFile, lake, spool

LEMMA LakeStep ==
    ASSUME DistinctRecords, TypeOK, StagingInv, LakeInv, QueueInv, AttemptInv, DrainInv, [Next]_vars
    PROVE  LakeInv'
<1>0. /\ Len(log) \in Nat /\ DOMAIN log = 1..Len(log)
      /\ \A i \in DOMAIN log : IsBatch(log[i])
  BY DEF TypeOK, LakeInv, KeysTell
<1>1. \A x : IsBatch(x) => IsBatch(x)'
  BY BatchStands
<1>2. /\ \A f \in file' : IsBatch(f)
      /\ \A o \in object' : IsBatch(o)
      /\ \A o \in object : \E p \in object' : p.key = o.key
  BY LakeFiles
<1>3. CASE log' = log
  BY <1>0, <1>1, <1>2, <1>3 DEF LakeInv, KeysTell, SnapshotsDiffer, CommitsHaveObjects
<1>4. CASE \E x \in DataFiles : /\ log' = Append(log, x) /\ IsBatch(x)
                                /\ ~Committed(x.key, Len(log))
                                /\ \E o \in object : o.key = x.key
  <2> PICK x \in DataFiles : /\ log' = Append(log, x) /\ IsBatch(x)
                             /\ ~Committed(x.key, Len(log))
                             /\ \E o \in object : o.key = x.key
    BY <1>4
  <2>1. /\ DOMAIN log' = DOMAIN log \cup {Len(log) + 1} /\ log'[Len(log) + 1] = x
        /\ \A i \in DOMAIN log : log'[i] = log[i]
    BY LogGrows
  <2>2. \A i \in DOMAIN log : log[i].key # x.key
    BY <1>0 DEF Committed
  <2> HIDE DEF DataFiles
  <2>3. KeysTell'
    BY <1>0, <1>1, <1>2, <2>1 DEF KeysTell
  <2>4. SnapshotsDiffer'
    BY <2>1, <2>2 DEF LakeInv, SnapshotsDiffer
  <2>5. CommitsHaveObjects'
    BY <1>2, <2>1 DEF LakeInv, CommitsHaveObjects
  <2> QED
    BY <2>3, <2>4, <2>5 DEF LakeInv
<1>5. ASSUME DrainCommit, NEW f \in file, f.key = drainKey, ~Committed(drainKey, Len(log)),
             log' = Append(log, f)
      PROVE  LakeInv'
  <2>1. f \in DataFiles /\ IsBatch(f)
    BY DEF TypeOK, LakeInv, KeysTell
  <2>2. \E o \in object : o.key = f.key
    BY <1>5 DEF DrainCommit, DrainInv
  <2> QED
    BY <1>4, <1>5, <2>1, <2>2
<1>6. ASSUME At("commit"), base = Len(log), log' = Append(log, DataFile(Current))
      PROVE  LakeInv'
  <2> DEFINE x == DataFile(Current)
  <2>1. x \in DataFiles /\ x.key = Current.key /\ x.rows = Current.rows
    BY <1>6, JobIsFile DEF At
  <2>2. ~Committed(x.key, Len(log)) /\ Encodes(Current) /\ \E o \in object : o.key = x.key
    BY <1>6, <2>1 DEF At, AttemptInv
  <2>3. IsBatch(x)
    BY <1>6, <2>1, <2>2, HeadIsBatch DEF At, IsBatch, Encodes
  <2> QED
    BY <1>4, <1>6, <2>1, <2>2, <2>3
<1> QED
  BY <1>3, <1>5, <1>6, LogFrame

(***************************************************************************)
(* The spool's table.                                                      *)
(***************************************************************************)

LEMMA SpoolFrame ==
    ASSUME [Next]_vars
    PROVE  \/ spoolRow' = spoolRow
           \/ DrainMark \/ MarkSpooled \/ SpoolRow
           \/ \E s \in spoolRow : s.committed /\ spoolRow' = spoolRow \ {s}
<1> USE DEF staging, spool, lake, process, bounds
<1>1. Drain => DrainMark \/ spoolRow' = spoolRow
  BY DEF Drain, DrainUpload, DrainCommit, DrainSpoolDone
<1>2. Sweeper => \/ spoolRow' = spoolRow
                 \/ \E s \in spoolRow : s.committed /\ spoolRow' = spoolRow \ {s}
  BY DEF Sweeper, EvictFile, EvictRow, Evictable
<1>3. Caller => spoolRow' = spoolRow
  BY DEF Caller, StoreClose, ClaimForWriter, ClaimForDrain, Claim, Open, Trigger, StartWriter,
         StartClose, CloseDrained, CloseReported, Insert
<1>4. Worker => MarkSpooled \/ SpoolRow \/ spoolRow' = spoolRow
  BY DEF Worker, Prepare, PrepareRefused, Check, Quarantine, SpoolFile, Upload, Commit,
         CommitConflict, Prune, Finish
<1>5. Fault => spoolRow' = spoolRow
  BY DEF Fault, Crash, DrainFail, CloseExpired, Fail, CommitAnswerLost, SealAnswerLost, InsertAnswerLost
<1> QED
  BY <1>1, <1>2, <1>3, <1>4, <1>5 DEF Next, vars

\* Marking key k: every row is as it was, but for the one of k.
LEMMA Marks ==
    ASSUME TypeOK, NEW k, Mark(k)
    PROVE  \A t \in spoolRow' : \E s \in spoolRow :
               /\ t.key = s.key /\ t.at = s.at
               /\ t.committed <=> (s.committed \/ s.key = k)
               /\ t = [key |-> s.key, at |-> s.at, committed |-> t.committed]
<1> SUFFICES ASSUME NEW t \in spoolRow'
             PROVE  \E s \in spoolRow : /\ t.key = s.key /\ t.at = s.at
                                        /\ t.committed <=> (s.committed \/ s.key = k)
                                        /\ t = [key |-> s.key, at |-> s.at, committed |-> t.committed]
  OBVIOUS
<1>1. PICK s \in spoolRow : t = IF s.key = k THEN [s EXCEPT !.committed = TRUE] ELSE s
  BY DEF Mark
<1>2. s \in SpoolRows
  BY DEF TypeOK
<1> QED
  BY <1>1, <1>2 DEF SpoolRows

LEMMA SpoolStep ==
    ASSUME TypeOK, QueueInv, AttemptInv, LakeInv, SpoolInv, HandleInv, DrainInv, [Next]_vars
    PROVE  SpoolInv'
<1>0. /\ \A s, t \in spoolRow : s.key = t.key => s = t
      /\ \A s \in spoolRow : s.committed => Committed(s.key, Len(log))
      /\ \A s \in spoolRow : ~s.committed => \E f \in file : f.key = s.key
  BY DEF SpoolInv, BacklogFilesPresent
<1>1. \A k : Committed(k, Len(log)) => Committed(k, Len(log))'
  BY CommitsLast
<1>2. \A f \in file : \/ \E g \in file' : g.key = f.key
                      \/ \E s \in spoolRow : s.committed /\ s.key = f.key /\ EvictFile(s)
  BY LakeFiles
<1>3. \A s \in spoolRow : ~s.committed => \E f \in file' : f.key = s.key
  BY <1>0, <1>2
<1>4. CASE spoolRow' \subseteq spoolRow
  BY <1>0, <1>1, <1>3, <1>4 DEF SpoolInv, BacklogFilesPresent
<1>5. ASSUME NEW k, Mark(k), Committed(k, Len(log)) PROVE SpoolInv'
  <2>1. \A t \in spoolRow' : \E s \in spoolRow :
               /\ t.key = s.key /\ t.at = s.at
               /\ t.committed <=> (s.committed \/ s.key = k)
               /\ t = [key |-> s.key, at |-> s.at, committed |-> t.committed]
    BY <1>5, Marks
  <2>2. ASSUME NEW t \in spoolRow', NEW u \in spoolRow', t.key = u.key PROVE t = u
    <3>1. PICK s \in spoolRow : /\ t.key = s.key /\ t.committed <=> (s.committed \/ s.key = k)
                                /\ t = [key |-> s.key, at |-> s.at, committed |-> t.committed]
      BY <2>1
    <3>2. PICK v \in spoolRow : /\ u.key = v.key /\ u.committed <=> (v.committed \/ v.key = k)
                                /\ u = [key |-> v.key, at |-> v.at, committed |-> u.committed]
      BY <2>1
    <3>3. s = v /\ t.committed \in BOOLEAN /\ u.committed \in BOOLEAN
      BY <1>0, <2>2, <3>1, <3>2, <1>5, MarkTypes DEF TypeOK, SpoolRows
    <3>4. t.committed = u.committed
      BY <3>1, <3>2, <3>3
    <3> QED
      BY <3>1, <3>2, <3>3, <3>4
  <2>3. \A t \in spoolRow' : t.committed => Committed(t.key, Len(log))
    BY <1>0, <1>5, <2>1
  <2>4. \A t \in spoolRow' : ~t.committed => \E f \in file' : f.key = t.key
    BY <1>3, <2>1
  <2> QED
    BY <1>1, <2>2, <2>3, <2>4 DEF SpoolInv, BacklogFilesPresent
<1>6. CASE DrainMark
  BY <1>5, <1>6 DEF DrainMark, DrainInv
<1>7. CASE MarkSpooled
  <2>1. Working /\ pc = "mark" /\ Committed(Current.key, base)
    BY <1>7 DEF MarkSpooled, At, AttemptInv
  <2>2. Committed(Current.key, Len(log))
    BY <2>1, CommitsLast DEF HandleInv, Working, Committed, TypeOK
  <2> QED
    BY <1>4, <1>5, <1>7, <2>2 DEF MarkSpooled
<1>8. CASE SpoolRow
  <2>1. Working /\ pc = "spoolrow" /\ UNCHANGED <<file, log>> /\ \E f \in file : f.key = Current.key
    BY <1>8 DEF SpoolRow, At, AttemptInv, lake
  <2>2. CASE UNCHANGED spoolRow
    BY <1>4, <2>2
  <2>3. CASE /\ \A s \in spoolRow : s.key # Current.key
             /\ \E at \in CreatedAt :
                  spoolRow' = spoolRow \cup {[key |-> Current.key, at |-> at, committed |-> FALSE]}
    <3>1. PICK at : spoolRow' = spoolRow \cup {[key |-> Current.key, at |-> at, committed |-> FALSE]}
      BY <2>3
    <3> DEFINE u == [key |-> Current.key, at |-> at, committed |-> FALSE]
    <3>2. u.key = Current.key /\ ~u.committed /\ spoolRow' = spoolRow \cup {u}
      BY <3>1
    <3> HIDE DEF u
    <3>3. \A s, t \in spoolRow' : s.key = t.key => s = t
      BY <1>0, <2>3, <3>2
    <3>4. \A s \in spoolRow' : s.committed => Committed(s.key, Len(log))
      BY <1>0, <3>2
    <3>5. BacklogFilesPresent'
      BY <1>3, <2>1, <3>2 DEF BacklogFilesPresent
    <3> QED
      BY <1>1, <3>3, <3>4, <3>5 DEF SpoolInv
  <2> QED
    BY <1>8, <2>2, <2>3 DEF SpoolRow
<1> QED
  BY <1>4, <1>6, <1>7, <1>8, SpoolFrame

(***************************************************************************)
(* The writer's queue.                                                     *)
(***************************************************************************)

\* The steps that leave the queue and the batch as they are, and the step the
\* worker is at where it was or under way.
LEMMA QueueFrame ==
    ASSUME [Next]_vars
    PROVE  \/ UNCHANGED <<queue, batch, batchKey, nextId>>
              /\ \/ owner' = owner /\ (pc' = pc \/ pc' # "idle" \/ Draining)
                 \/ owner \notin {"writer", "closing"} /\ owner' \notin {"writer", "closing"}
           \/ NoWriter /\ owner' = "none" /\ UNCHANGED <<batchKey, nextId>>
           \/ \E n \in 1..MaxInsert : Stages(n)
           \/ Trigger \/ StartClose \/ StartWriter \/ Seals
           \/ Working /\ (GiveUp \/ Finished) /\ UNCHANGED <<owner, batch, batchKey, nextId>>
<1> USE DEF staging, spool, lake, process, bounds
<1>1. Drain => UNCHANGED <<queue, batch, batchKey, nextId>>
               /\ \/ owner' = owner /\ (pc' = pc \/ pc' # "idle" \/ Draining)
                  \/ owner \notin {"writer", "closing"} /\ owner' \notin {"writer", "closing"}
  BY DEF Drain, DrainUpload, DrainCommit, DrainMark, DrainSpoolDone, Draining
<1>2. Sweeper => UNCHANGED <<queue, batch, batchKey, nextId, owner, pc>>
  BY DEF Sweeper, EvictFile, EvictRow
<1>3. StoreClose \/ ClaimForWriter \/ ClaimForDrain \/ (\E m \in Modes : Open(m)) =>
         UNCHANGED <<queue, batch, batchKey, nextId>>
         /\ \/ owner' = owner /\ pc' = pc
            \/ owner \notin {"writer", "closing"} /\ owner' \notin {"writer", "closing"}
  BY DEF StoreClose, ClaimForWriter, ClaimForDrain, Claim, Open
<1>4. CloseDrained \/ CloseReported => NoWriter /\ owner' = "none" /\ UNCHANGED <<batchKey, nextId>>
  BY DEF CloseDrained, CloseReported
<1>5. Worker => \/ Prepare
                \/ Working /\ (GiveUp \/ Finished) /\ UNCHANGED <<owner, batch, batchKey, nextId>>
                \/ UNCHANGED <<queue, batch, batchKey, nextId, owner>> /\ pc' # "idle"
  BY DEF Worker, PrepareRefused, Check, Quarantine, SpoolFile, SpoolRow, Upload, Commit,
         CommitConflict, MarkSpooled, Prune, Finish, At
<1>6. Fault => \/ NoWriter /\ owner' = "none" /\ UNCHANGED <<batchKey, nextId>>
               \/ Working /\ GiveUp /\ UNCHANGED <<owner, batch, batchKey, nextId>>
               \/ SealAnswerLost \/ \E n \in 1..MaxInsert : InsertAnswerLost(n)
  BY DEF Fault, Crash, DrainFail, CloseExpired, Fail, CommitAnswerLost, At
<1> QED
  BY <1>1, <1>2, <1>3, <1>4, <1>5, <1>6 DEF Next, Caller, vars, Stages, Seals

\* The queue stays sound when its jobs are jobs it had, in their order and with
\* their records, and each of them is still a sound job.
LEMMA QueueKeeps ==
    ASSUME TypeOK, QueueInv, queue' \in Seq(Job), UNCHANGED <<batch, batchKey, nextId>>,
           owner' \in {"none", "opening", "draining"} => queue' = <<>>,
           NEW step \in 0..1,
           \A i \in DOMAIN queue' : /\ i + step \in DOMAIN queue
                                    /\ queue'[i].rows = queue[i + step].rows
                                    /\ JobSound(i)'
    PROVE  QueueInv'
<1>1. \A i \in DOMAIN queue' : i \in Nat
  OBVIOUS
<1>2. ASSUME NEW i \in DOMAIN queue', NEW j \in DOMAIN queue', i # j
      PROVE  queue'[i].rows \cap queue'[j].rows = {}
  <2>1. i + step # j + step /\ i + step \in DOMAIN queue /\ j + step \in DOMAIN queue
    BY <1>1, <1>2
  <2> QED
    BY <2>1 DEF QueueInv
<1> QED
  BY <1>2 DEF QueueInv

\* A job sealed into the queue is new to it.
LEMMA QueueSeals ==
    ASSUME TypeOK, TypeOK', QueueInv, PlaceKept, NEW S \in SUBSET Row, SealInto(S),
           batchKey' = batchKey, pc' = pc, nextId' >= nextId, owner = "writer",
           owner' \in {"writer", "closing"},
           \A r \in S : r < nextId' /\ batchKey[r] = NoKey,
           \A i \in DOMAIN queue : queue[i].rows \cap S = {}
    PROVE  QueueInv'
<1>1. nextId \in Nat /\ nextId' \in Nat /\ Row \subseteq Nat /\ queue \in Seq(Job)
  BY FlushPathAssumption DEF TypeOK, Row
<1>2. /\ Len(queue) \in Nat /\ DOMAIN queue = 1..Len(queue)
      /\ \A i \in DOMAIN queue : queue[i] \in Job
  BY <1>1
<1>3. \A i \in DOMAIN queue : \A r \in queue[i].rows : r \in Nat /\ (r < nextId => r < nextId')
  <2>1. \A i \in DOMAIN queue : queue[i].rows \subseteq Row
    BY <1>2 DEF Job
  <2> SUFFICES ASSUME NEW i \in DOMAIN queue, NEW r \in queue[i].rows
               PROVE  r \in Nat /\ (r < nextId => r < nextId')
    OBVIOUS
  <2>2. r \in Nat
    BY <1>1, <2>1
  <2> QED
    BY <1>1, <2>2
<1>4. \A i \in DOMAIN queue : JobSound(i)
  BY DEF QueueInv
<1>5. CASE S = {}
  <2>1. queue' = queue /\ batch' = {}
    BY <1>5 DEF SealInto
  <2>2. \A i \in DOMAIN queue' : JobSound(i)'
    BY <1>3, <1>4, <1>2, <2>1 DEF JobSound, Members
  <2> QED
    BY <2>1, <2>2 DEF QueueInv
<1>6. CASE S # {}
  <2> DEFINE j == NewJob(S)
  <2>1. queue' = Append(queue, j) /\ batch' = {} /\ j.rows = S /\ j.key = NoKey /\ j \in Job
    BY <1>6, NoKeyIsKey DEF SealInto, NewJob, Job
  <2> HIDE DEF j
  <2>2. /\ DOMAIN queue' = DOMAIN queue \cup {Len(queue) + 1} /\ Len(queue) + 1 \notin DOMAIN queue
        /\ queue'[Len(queue) + 1] = j
        /\ \A i \in DOMAIN queue : queue'[i] = queue[i]
    BY <1>1, <1>2, <2>1
  <2>3. ASSUME NEW i \in DOMAIN queue' PROVE JobSound(i)'
    <3>1. CASE i \in DOMAIN queue
      BY <1>3, <1>4, <1>2, <2>2, <3>1 DEF JobSound, Members
    <3>2. CASE i = Len(queue) + 1
      BY <1>6, <2>1, <2>2, <3>2 DEF JobSound
    <3> QED
      BY <2>2, <3>1, <3>2
  <2>4. \A i, k \in DOMAIN queue' : i # k => queue'[i].rows \cap queue'[k].rows = {}
    BY <2>1, <2>2 DEF QueueInv
  <2> QED
    BY <2>1, <2>3, <2>4 DEF QueueInv
<1> QED
  BY <1>5, <1>6

\* What a scan of a sound store finds is sound jobs, which share no record with
\* each other or with the unsealed tail.
LEMMA ReplaySound ==
    ASSUME TypeOK, TypeOK', StagingInv, StartWriter, PlaceKept
    PROVE  QueueInv'
<1>1. PICK q \in [1..Cardinality(PendingJobs) -> PendingJobs] :
          queue' = q /\ \A i, j \in DOMAIN q : i < j => Precedes(q[i], q[j])
  BY DEF StartWriter
<1>2. /\ Cardinality(PendingJobs) \in Nat /\ DOMAIN q = 1..Cardinality(PendingJobs)
      /\ \A i \in DOMAIN q : q[i] \in PendingJobs
  BY PendingJobsFinite
<1>3. /\ batch' = {r \in staged \ quarantined : batchKey[r] = NoKey}
      /\ owner' = "writer" /\ pc' = pc /\ UNCHANGED <<batchKey, nextId>>
  BY DEF StartWriter, staging
<1>4. /\ \A r \in staged : r \in Row /\ r < nextId
      /\ staged \subseteq Row
  BY FlushPathAssumption DEF StagingInv, FreshIds, TypeOK, Row
<1>5. ASSUME NEW j \in PendingJobs
      PROVE  /\ j.rows # {} /\ j.key # NoKey /\ j.replayed /\ j.rows = Members(j.key)
             /\ \A r \in j.rows : r < nextId
  <2>1. PICK k \in StagedKeys : j = [key |-> k, rows |-> Sealed(k) \ quarantined,
                                     replayed |-> TRUE, attempted |-> FALSE]
    BY DEF PendingJobs
  <2>2. PICK r \in staged \ quarantined : batchKey[r] = k /\ k # NoKey
    BY DEF StagedKeys
  <2>3. \A q0 \in Members(k) : q0 \in staged /\ q0 \notin quarantined
    BY <1>4, <2>2 DEF StagingInv, PrunedWhole, QuarantinedWhole, ScanAccepts, Members
  <2>4. j.rows = Members(k) /\ r \in j.rows /\ j.key = k
    BY <1>4, <2>1, <2>2, <2>3 DEF Sealed, Members
  <2> QED
    BY <1>4, <2>1, <2>2, <2>3, <2>4
<1>6. \A i, j \in PendingJobs : i # j => i.rows \cap j.rows = {}
  <2> SUFFICES ASSUME NEW i \in PendingJobs, NEW j \in PendingJobs, NEW r \in i.rows, r \in j.rows
               PROVE  i = j
    OBVIOUS
  <2> DEFINE J(k) == [key |-> k, rows |-> Sealed(k) \ quarantined,
                      replayed |-> TRUE, attempted |-> FALSE]
  <2>1. i.key = j.key
    BY <1>5 DEF Members
  <2>2. \A a \in PendingJobs : a = J(a.key)
    BY DEF PendingJobs
  <2> QED
    BY <2>1, <2>2
<1>7. \A i, j \in DOMAIN q : i # j => q[i] # q[j]
  <2>1. \A a \in PendingJobs : ~Precedes(a, a)
    <3>1. \A a \in PendingJobs : a.rows \subseteq Nat
      BY <1>5, FlushPathAssumption DEF Members, Row
    <3> QED
      BY <3>1 DEF Precedes
  <2> QED
    BY <1>1, <1>2, <2>1
<1>8. \A i \in DOMAIN queue' : JobSound(i)'
  BY <1>1, <1>2, <1>3, <1>5 DEF JobSound, Members
<1>9. \A i \in DOMAIN q : q[i].rows \cap batch' = {}
  BY <1>2, <1>3, <1>5 DEF Members
<1>10. \A r \in batch' : r < nextId' /\ batchKey'[r] = NoKey
  BY <1>3, <1>4
<1> QED
  BY <1>1, <1>2, <1>3, <1>6, <1>7, <1>8, <1>9, <1>10 DEF QueueInv

LEMMA QueueStep ==
    ASSUME DistinctRecords, TypeOK, TypeOK', CeilingInv, StagingInv, QueueInv, [Next]_vars
    PROVE  QueueInv'
<1>0. /\ \A i \in DOMAIN queue : JobSound(i)
      /\ queue \in Seq(Job) /\ queue' \in Seq(Job)
      /\ Len(queue) \in Nat /\ DOMAIN queue = 1..Len(queue)
      /\ \A i \in DOMAIN queue : queue[i] \in Job
  BY DEF QueueInv, TypeOK
<1>1. CASE UNCHANGED <<queue, batch, batchKey, nextId>>
           /\ \/ owner' = owner /\ (pc' = pc \/ pc' # "idle" \/ Draining)
              \/ owner \notin {"writer", "closing"} /\ owner' \notin {"writer", "closing"}
  <2>1. owner \in {"none", "opening", "draining", "writer", "closing"}
    BY DEF TypeOK
  <2>2. \/ pc' = pc \/ pc' # "idle"
        \/ queue = <<>>
    BY <1>1, <2>1 DEF QueueInv, Draining
  <2>3. owner' \in {"none", "opening", "draining"} => queue' = <<>>
    BY <1>1, <2>1 DEF QueueInv
  <2>4. \A i \in DOMAIN queue' : JobSound(i)'
    BY <1>0, <1>1, <2>2 DEF JobSound, Members
  <2> QED
    BY <1>1, <2>3, <2>4 DEF QueueInv
<1>2. CASE NoWriter /\ owner' = "none"
  BY <1>2 DEF NoWriter, QueueInv
<1>3. CASE \E n \in 1..MaxInsert : Stages(n)
  <2> PICK n \in 1..MaxInsert : Stages(n)
    BY <1>3
  <2> DEFINE new == nextId..(nextId + n - 1)
  <2>1. /\ n \in Nat /\ nextId \in Nat \ {0} /\ nextId + n - 1 <= MaxRow /\ nextId' = nextId + n
        /\ UNCHANGED <<batchKey, owner, pc>> /\ owner = "writer"
    BY StagesRows
  <2>2. new \subseteq Row /\ \A r \in new : r >= nextId /\ r < nextId'
    BY <2>1, FlushPathAssumption DEF Row
  <2>3. \/ SealInto(batch \cup new)
        \/ batch' = batch \cup new /\ UNCHANGED queue
        \/ UNCHANGED <<batch, queue>>
    BY DEF Stages, Insert, InsertAnswerLost, process
  <2> HIDE DEF new
  <2>4. \A r \in new : batchKey[r] = NoKey
    BY <2>2 DEF StagingInv, FreshIds
  <2>5. batch \cup new \in SUBSET Row /\ Row \subseteq Nat
    BY <2>2, FlushPathAssumption DEF TypeOK, Row
  <2>6. \A r \in Row : r \in Nat /\ (r < nextId => r < nextId')
    BY <2>1, <2>5
  <2>7. \A r \in batch \cup new : r < nextId' /\ batchKey[r] = NoKey
    BY <2>2, <2>4, <2>5, <2>6 DEF QueueInv
  <2>8. \A i \in DOMAIN queue : queue[i].rows \subseteq Row /\ \A r \in queue[i].rows : r < nextId
    BY <1>0 DEF JobSound, Job
  <2>9. \A i \in DOMAIN queue : queue[i].rows \cap (batch \cup new) = {}
    <3>1. \A i \in DOMAIN queue : queue[i].rows \cap new = {}
      <4> SUFFICES ASSUME NEW i \in DOMAIN queue, NEW r \in queue[i].rows, r \in new
                   PROVE  FALSE
        OBVIOUS
      <4>1. r \in Nat /\ r < nextId /\ r >= nextId
        BY <2>2, <2>6, <2>8
      <4> QED
        BY <2>1, <4>1
    <3> QED
      BY <3>1 DEF QueueInv
  <2>10. CASE SealInto(batch \cup new)
    BY <2>1, <2>5, <2>7, <2>9, <2>10, QueueSeals DEF CeilingInv
  <2>11. CASE batch' = batch \cup new /\ UNCHANGED queue
    <3>1. \A i \in DOMAIN queue' : JobSound(i)'
      BY <1>0, <2>1, <2>6, <2>8, <2>11 DEF JobSound, Members
    <3> QED
      BY <2>1, <2>7, <2>9, <2>11, <3>1 DEF QueueInv
  <2>12. CASE UNCHANGED <<batch, queue>>
    <3>1. \A i \in DOMAIN queue' : JobSound(i)'
      BY <1>0, <2>1, <2>6, <2>8, <2>12 DEF JobSound, Members
    <3> QED
      BY <2>1, <2>7, <2>12, <3>1 DEF QueueInv
  <2> QED
    BY <2>3, <2>10, <2>11, <2>12
<1>4. CASE Trigger \/ StartClose
  <2>1. /\ SealInto(batch) /\ UNCHANGED <<batchKey, nextId, pc>>
        /\ owner = "writer" /\ owner' \in {"writer", "closing"}
    BY <1>4 DEF Trigger, StartClose, staging
  <2>2. batch \in SUBSET Row /\ nextId' >= nextId
    BY <2>1 DEF TypeOK
  <2>3. \A r \in batch : r < nextId' /\ batchKey[r] = NoKey
    BY <2>1 DEF QueueInv
  <2> QED
    BY <2>1, <2>2, <2>3, QueueSeals DEF CeilingInv, QueueInv
<1>5. CASE StartWriter
  BY <1>5, ReplaySound DEF CeilingInv
<1>6. CASE Prepare
  <2> PICK k0 : k0 = KeyOf(Current)
    OBVIOUS
  <2>1. /\ queue # <<>> /\ queue' = [queue EXCEPT ![1].key = k0] /\ pc' # "idle"
        /\ UNCHANGED <<batch, nextId, owner>> /\ owner \in {"writer", "closing"}
    BY <1>6 DEF Prepare, At, Working
  <2>2. /\ k0 # NoKey /\ Members(k0)' = Current.rows
        /\ \A k : k # NoKey /\ Members(k) # {} => Members(k)' = Members(k)
        /\ \A r \in Row : r \in Current.rows \/ batchKey'[r] = batchKey[r]
    BY <1>6, Stamps DEF Seals
  <2>3. 1 \in DOMAIN queue /\ Current = queue[1]
    BY <2>1, HeadSound
  <2>4. /\ DOMAIN queue' = DOMAIN queue
        /\ queue'[1] = [queue[1] EXCEPT !.key = k0]
        /\ \A i \in DOMAIN queue : i # 1 => queue'[i] = queue[i]
    BY <1>0, <2>1, <2>3
  <2>5. queue'[1].key = k0 /\ queue'[1].rows = queue[1].rows
    BY <1>0, <2>3, <2>4 DEF Job
  <2>6. JobSound(1)'
    BY <1>0, <2>1, <2>2, <2>3, <2>5 DEF JobSound
  <2>7. ASSUME NEW i \in DOMAIN queue, i # 1 PROVE JobSound(i)'
    <3>1. queue'[i] = queue[i] /\ JobSound(i) /\ queue[i].rows \subseteq Row
      BY <1>0, <2>4, <2>7 DEF Job
    <3>2. \A r \in queue[i].rows : batchKey'[r] = batchKey[r]
      BY <2>2, <2>3, <2>7, <3>1 DEF QueueInv
    <3>3. queue[i].key # NoKey => Members(queue[i].key)' = Members(queue[i].key)
      <4>1. queue[i].key # NoKey => {r \in Row : batchKey'[r] = queue[i].key} = Members(queue[i].key)
        BY <2>2, <3>1 DEF JobSound, Members
      <4> QED
        BY <3>1, <4>1 DEF Members
    <3> QED
      BY <2>1, <2>7, <3>1, <3>2, <3>3 DEF JobSound
  <2>8. \A r \in batch : batchKey'[r] = batchKey[r]
    BY <2>2, <2>3 DEF QueueInv, TypeOK
  <2> QED
    BY <2>1, <2>3, <2>4, <2>5, <2>6, <2>7, <2>8 DEF QueueInv
<1>7. CASE Working /\ GiveUp /\ UNCHANGED <<owner, batch, batchKey, nextId>>
  <2>1. queue # <<>> /\ owner' \notin {"none", "opening", "draining"}
    BY <1>7 DEF Working
  <2>2. 1 \in DOMAIN queue /\ queue' = [queue EXCEPT ![1].attempted = TRUE] /\ pc' = "idle"
    BY <1>7, <2>1, HeadSound DEF GiveUp
  <2>3. /\ DOMAIN queue' = DOMAIN queue
        /\ queue'[1] = [queue[1] EXCEPT !.attempted = TRUE]
        /\ \A i \in DOMAIN queue : i # 1 => queue'[i] = queue[i]
    BY <1>0, <2>2
  <2>4. /\ queue'[1].key = queue[1].key /\ queue'[1].rows = queue[1].rows
        /\ queue'[1].attempted
    BY <1>0, <2>2, <2>3 DEF Job
  <2>5. \A i \in DOMAIN queue' : JobSound(i)'
    BY <1>0, <1>7, <2>2, <2>3, <2>4 DEF JobSound, Members
  <2>6. \A i \in DOMAIN queue' : i + 0 \in DOMAIN queue /\ queue'[i].rows = queue[i + 0].rows
    <3>1. \A i \in DOMAIN queue' : i + 0 = i /\ i \in DOMAIN queue
      BY <1>0, <2>3
    <3>2. \A i \in DOMAIN queue : queue'[i].rows = queue[i].rows
      BY <2>3, <2>4
    <3> QED
      BY <3>1, <3>2
  <2> QED
    BY <1>0, <1>7, <2>1, <2>5, <2>6, QueueKeeps
<1>8. CASE Working /\ Finished /\ UNCHANGED <<owner, batch, batchKey, nextId>>
  <2>1. queue # <<>> /\ owner' \notin {"none", "opening", "draining"} /\ queue' = Tail(queue)
    BY <1>8 DEF Working, Finished
  <2>2. \A i \in DOMAIN queue' : i \in Nat \ {0} /\ i + 1 \in DOMAIN queue /\ queue'[i] = queue[i + 1]
    BY <1>0, <2>1
  <2>3. \A i \in DOMAIN queue' : JobSound(i)'
    BY <1>0, <1>8, <2>2 DEF JobSound, Members
  <2> QED
    BY <1>0, <1>8, <2>1, <2>2, <2>3, QueueKeeps
<1>9. CASE SealAnswerLost
  <2> PICK k0 : k0 = KeyOf(Current)
    OBVIOUS
  <2>1. /\ queue # <<>> /\ queue' = [queue EXCEPT ![1].attempted = TRUE] /\ pc' = "idle" /\ pc = "idle"
        /\ UNCHANGED <<batch, nextId, owner>> /\ owner \in {"writer", "closing"}
        /\ Current.key = NoKey
    BY <1>9 DEF SealAnswerLost, GiveUp, At, Working
  <2>2. /\ \A k : k # NoKey /\ Members(k) # {} => Members(k)' = Members(k)
        /\ \A r \in Row : r \in Current.rows \/ batchKey'[r] = batchKey[r]
    BY <1>9, Stamps DEF Seals
  <2>3. 1 \in DOMAIN queue /\ Current = queue[1]
    BY <2>1, HeadSound
  <2>4. /\ DOMAIN queue' = DOMAIN queue
        /\ queue'[1] = [queue[1] EXCEPT !.attempted = TRUE]
        /\ \A i \in DOMAIN queue : i # 1 => queue'[i] = queue[i]
    BY <1>0, <2>1, <2>3
  <2>5. queue'[1].key = NoKey /\ queue'[1].rows = queue[1].rows /\ queue'[1].attempted
    BY <1>0, <2>1, <2>3, <2>4 DEF Job
  <2>6. JobSound(1)'
    BY <1>0, <2>1, <2>3, <2>5 DEF JobSound
  <2>7. ASSUME NEW i \in DOMAIN queue, i # 1 PROVE JobSound(i)'
    <3>1. queue'[i] = queue[i] /\ JobSound(i) /\ queue[i].rows \subseteq Row
      BY <1>0, <2>4, <2>7 DEF Job
    <3>2. \A r \in queue[i].rows : batchKey'[r] = batchKey[r]
      BY <2>2, <2>3, <2>7, <3>1 DEF QueueInv
    <3>3. queue[i].key # NoKey => Members(queue[i].key)' = Members(queue[i].key)
      <4>1. queue[i].key # NoKey => {r \in Row : batchKey'[r] = queue[i].key} = Members(queue[i].key)
        BY <2>2, <3>1 DEF JobSound, Members
      <4> QED
        BY <3>1, <4>1 DEF Members
    <3> QED
      BY <2>1, <2>7, <3>1, <3>2, <3>3 DEF JobSound
  <2>8. \A r \in batch : batchKey'[r] = batchKey[r]
    BY <2>2, <2>3 DEF QueueInv, TypeOK
  <2> QED
    BY <2>1, <2>3, <2>4, <2>5, <2>6, <2>7, <2>8 DEF QueueInv
<1> QED
  BY <1>1, <1>2, <1>3, <1>4, <1>5, <1>6, <1>7, <1>8, <1>9, QueueFrame DEF Seals

(***************************************************************************)
(* The attempt at the head of the queue.                                   *)
(***************************************************************************)

\* Nothing is claimed of a worker between attempts.
LEMMA AttemptIdle ==
    ASSUME pc' = "idle" \/ ~Working'
    PROVE  AttemptInv'
  BY DEF AttemptInv

\* What is owed is owed still, unless this step marks it.
LEMMA OwedStays ==
    ASSUME TypeOK, SpoolInv, [Next]_vars
    PROVE  \A k : Uncommitted(k) => \/ Uncommitted(k)'
                                    \/ MarkSpooled /\ Mark(Current.key) /\ k = Current.key
                                    \/ DrainMark /\ k = drainKey
<1>1. ASSUME NEW k, NEW s \in spoolRow, s.key = k, ~s.committed, NEW m, Mark(m), m # k
      PROVE  Uncommitted(k)'
  <2>1. (IF s.key = m THEN [s EXCEPT !.committed = TRUE] ELSE s) \in spoolRow'
    BY <1>1 DEF Mark
  <2> QED
    BY <1>1, <2>1 DEF Uncommitted
<1>2. CASE MarkSpooled \/ DrainMark
  BY <1>1, <1>2 DEF MarkSpooled, DrainMark, Uncommitted
<1>3. CASE SpoolRow
  BY <1>3 DEF SpoolRow, Uncommitted
<1>4. CASE spoolRow' = spoolRow \/ \E s \in spoolRow : s.committed /\ spoolRow' = spoolRow \ {s}
  BY <1>4 DEF Uncommitted
<1> QED
  BY <1>2, <1>3, <1>4, SpoolFrame

\* Steps of others, and of the writer, leave an attempt where it was.
LEMMA AttemptUndisturbed ==
    ASSUME TypeOK, QueueInv, LakeInv, SpoolInv, AttemptInv, HandleInv, [Next]_vars,
           Working, Current' = Current, UNCHANGED <<pc, mode, base, log>>,
           ~MarkSpooled, ~DrainMark
    PROVE  AttemptInv'
<1>1. \A k : Uncommitted(k) => Uncommitted(k)'
  BY OwedStays
<1>2. \A o \in object : \E p \in object' : p.key = o.key
  BY LakeFiles
<1>3. pc = "spoolrow" => \E f \in file' : f.key = Current.key
  <2> SUFFICES ASSUME pc = "spoolrow" PROVE \E f \in file' : f.key = Current.key
    OBVIOUS
  <2>1. PICK f \in file : f.key = Current.key
    BY DEF AttemptInv
  <2>2. ASSUME NEW s \in spoolRow, s.committed, s.key = f.key, EvictFile(s) PROVE FALSE
    <3>1. Committed(Current.key, base)
      BY <2>1, <2>2 DEF HandleInv, Working
    <3> QED
      BY <2>2, <3>1 DEF AttemptInv, EvictFile
  <2> QED
    BY <2>1, <2>2, LakeFiles
<1> QED
  BY <1>1, <1>2, <1>3 DEF AttemptInv, Committed, Encodes

\* The worker's own steps, one by one.
LEMMA AttemptWorks ==
    ASSUME DistinctRecords, TypeOK, TypeOK', CeilingInv, StagingInv, LakeInv, SpoolInv, QueueInv,
           AttemptInv, HandleInv, [Next]_vars, Worker
    PROVE  AttemptInv'
<1>0. Working => /\ queue # <<>> /\ 1 \in DOMAIN queue /\ Current = queue[1] /\ Current \in Job
                 /\ JobSound(1) /\ base \in Nat /\ base <= Len(log)
  BY HeadSound DEF Working, HandleInv, TypeOK
<1>1. CASE Prepare
  <2> PICK k0 : k0 = KeyOf(Current)
    OBVIOUS
  <2>1. /\ Working /\ pc = "idle" /\ UNCHANGED <<base, mode, log>>
        /\ queue' = [queue EXCEPT ![1].key = k0]
        /\ pc' = IF MustCheck(Current) THEN "check" ELSE "encode"
    BY <1>1 DEF Prepare, At, lake
  <2>2. /\ k0 # NoKey /\ Members(k0)' = Current.rows
        /\ \A k : k # NoKey /\ Members(k) # {} => Members(k)' = Members(k)
    BY <1>1, Stamps DEF Seals
  <2>3. Current'.key = k0
    <3>1. queue \in Seq(Job) /\ queue'[1] = [queue[1] EXCEPT !.key = k0] /\ queue' # <<>>
      BY <1>0, <2>1 DEF TypeOK
    <3> QED
      BY <1>0, <2>1, <3>1 DEF Current, Job
  <2>4. ASSUME pc' = "encode", mode # "local" PROVE ~Committed(k0, base)
    <3>1. ~Current.attempted /\ ~Current.replayed
      BY <2>1, <2>4 DEF MustCheck
    <3>2. \A r \in Current.rows : batchKey[r] = NoKey
      BY <1>0, <2>1, <3>1 DEF JobSound
    <3> SUFFICES ASSUME NEW i \in 1..base, log[i].key = k0 PROVE FALSE
      BY DEF Committed
    <3>3. i \in DOMAIN log
      BY <1>0, <2>1 DEF TypeOK
    <3>4. log[i].rows = Members(k0) /\ Members(k0) # {}
      BY <3>3 DEF LakeInv, KeysTell, IsBatch
    <3>5. Members(k0) = Current.rows
      BY <2>2, <3>4
    <3> QED
      BY <2>2, <3>2, <3>4, <3>5 DEF Members
  <2> QED
    BY <2>1, <2>2, <2>3, <2>4 DEF AttemptInv, MustCheck, Committed
<1>2. CASE Check
  <2>1. /\ Working /\ pc = "check" /\ UNCHANGED <<queue, base, mode, log>>
        /\ pc' = IF Committed(Current.key, base) THEN "mark" ELSE "encode"
    BY <1>2 DEF Check, At, lake
  <2> QED
    BY <2>1 DEF AttemptInv, Committed, Current
<1>3. CASE SpoolFile
  <2>1. /\ Working /\ pc = "encode" /\ UNCHANGED <<queue, base, mode, log>> /\ pc' = "spoolrow"
        /\ Encodes(Current) /\ file' = Put(file, Current.key, Current.rows)
    BY <1>3 DEF SpoolFile, At, lake
  <2>2. \E f \in file' : f.key = Current.key
    BY <2>1, PutHas
  <2> QED
    BY <2>1, <2>2 DEF AttemptInv, Committed, Current, Encodes
<1>4. CASE SpoolRow
  <2>1. /\ Working /\ pc = "spoolrow" /\ UNCHANGED <<queue, base, mode, log>>
        /\ pc' = IF mode = "local" THEN "prune" ELSE "upload"
    BY <1>4 DEF SpoolRow, At, lake
  <2>2. Committed(Current.key, Len(log)) \/ Uncommitted(Current.key)'
    <3>1. CASE \E s \in spoolRow : s.key = Current.key
      BY <1>4, <3>1 DEF SpoolRow, SpoolInv, Uncommitted, Current
    <3>2. CASE ~\E s \in spoolRow : s.key = Current.key
      <4>1. PICK at : [key |-> Current.key, at |-> at, committed |-> FALSE] \in spoolRow'
        BY <1>4, <3>2 DEF SpoolRow
      <4>2. Current' = Current
        BY <2>1 DEF Current
      <4> QED
        BY <4>1, <4>2 DEF Uncommitted
    <3> QED
      BY <3>1, <3>2
  <2> QED
    BY <2>1, <2>2 DEF AttemptInv, Committed, Current, Encodes
<1>5. CASE Upload
  <2>1. /\ Working /\ UNCHANGED <<queue, base, mode, log>> /\ pc' = "commit"
        /\ pc = "upload" \/ (pc = "encode" /\ Encodes(Current) /\ mode = "bucket")
        /\ object' = Put(object, Current.key, Current.rows)
    BY <1>5 DEF Upload, At
  <2>2. \E o \in object' : o.key = Current.key
    BY <2>1, PutHas
  <2> QED
    BY <2>1, <2>2 DEF AttemptInv, Committed, Current, Encodes
<1>6. CASE Commit
  <2>1. /\ Working /\ pc = "commit" /\ UNCHANGED <<queue, mode>> /\ pc' = "mark"
        /\ log' = Append(log, DataFile(Current)) /\ base' = Len(log')
    BY <1>6 DEF Commit, At
  <2>2. /\ Len(log) \in Nat /\ Len(log') = Len(log) + 1
        /\ log'[Len(log) + 1].key = Current.key
    BY <2>1, JobIsFile, LogGrows
  <2>3. \E i \in 1..base' : log'[i].key = Current.key
    BY <2>1, <2>2
  <2> QED
    BY <2>1, <2>3 DEF AttemptInv, Committed, Current
<1>7. CASE MarkSpooled
  <2>1. /\ Working /\ pc = "mark" /\ UNCHANGED <<queue, base, mode, log>> /\ pc' = "prune"
    BY <1>7 DEF MarkSpooled, At, lake
  <2>2. Committed(Current.key, Len(log))
    BY <1>0, <2>1 DEF AttemptInv, Committed, TypeOK
  <2> QED
    BY <2>1, <2>2 DEF AttemptInv, Committed, Current
<1>8. CASE Prune
  <2>1. Working /\ UNCHANGED <<queue, base, mode, log>> /\ pc' = "schemas"
    BY <1>8 DEF Prune, At, lake
  <2> QED
    BY <2>1 DEF AttemptInv
<1>9. CASE PrepareRefused \/ CommitConflict \/ Quarantine \/ Finish
  BY <1>9, AttemptIdle DEF PrepareRefused, CommitConflict, Quarantine, Finish, GiveUp, Finished
<1> QED
  BY <1>1, <1>2, <1>3, <1>4, <1>5, <1>6, <1>7, <1>8, <1>9 DEF Worker

LEMMA AttemptStep ==
    ASSUME DistinctRecords, TypeOK, TypeOK', CeilingInv, StagingInv, LakeInv, SpoolInv, QueueInv,
           AttemptInv, HandleInv, [Next]_vars
    PROVE  AttemptInv'
<1> USE DEF staging, spool, lake, process, bounds
<1>0. PlaceKept /\ Charged
  BY DEF CeilingInv
<1>1. CASE Worker
  BY <1>1, AttemptWorks
<1>2. CASE Fault /\ ~\E n \in 1..MaxInsert : InsertAnswerLost(n)
  BY <1>2, AttemptIdle DEF Fault, Crash, DrainFail, CloseExpired, CommitAnswerLost, Fail,
     SealAnswerLost, NoWriter, GiveUp
<1>3. CASE Drain \/ StoreClose \/ ClaimForWriter \/ ClaimForDrain \/ CloseDrained \/ CloseReported
           \/ \E m \in Modes : Open(m)
  <2>1. owner' \in {"none", "opening", "draining"}
    BY <1>0, <1>3 DEF Drain, DrainUpload, DrainCommit, DrainMark, DrainSpoolDone, Draining, StoreClose,
       ClaimForWriter, ClaimForDrain, Claim, CloseDrained, CloseReported, Open, Charged
  <2> QED
    BY <2>1, AttemptIdle DEF Working
<1>4. CASE StartWriter
  <2>1. pc' = "idle"
    BY <1>0, <1>4 DEF StartWriter, Draining, PlaceKept
  <2> QED
    BY <2>1, AttemptIdle
<1>5. CASE (\E n \in 1..MaxInsert : Stages(n)) \/ Trigger \/ StartClose
  <2>1. /\ owner = "writer" /\ UNCHANGED <<pc, mode, base, log, spoolRow>>
        /\ queue # <<>> => queue' # <<>> /\ Head(queue') = Head(queue)
    BY <1>5, SealKeepsHead DEF Stages, Insert, InsertAnswerLost, Trigger, StartClose, TypeOK
  <2>2. CASE pc = "idle"
    BY <2>1, <2>2, AttemptIdle
  <2>3. CASE pc # "idle"
    <3>1. Working /\ Current' = Current
      BY <1>0, <2>1, <2>3 DEF PlaceKept, Working, Current
    <3>2. ~MarkSpooled /\ ~DrainMark
      BY <2>1, <2>3 DEF MarkSpooled, DrainMark, Draining, At
    <3> QED
      BY <2>1, <3>1, <3>2, AttemptUndisturbed
  <2> QED
    BY <2>2, <2>3
<1>6. CASE Sweeper \/ UNCHANGED vars
  <2>1. UNCHANGED process /\ log' = log
    BY <1>6 DEF Sweeper, EvictFile, EvictRow, vars
  <2>2. CASE Working /\ pc # "idle"
    <3>1. ~MarkSpooled /\ ~DrainMark
      BY <2>1, <2>2 DEF MarkSpooled, DrainMark, At
    <3> QED
      BY <2>1, <2>2, <3>1, AttemptUndisturbed DEF Current
  <2> QED
    BY <2>1, <2>2, AttemptIdle DEF Working
<1> QED
  BY <1>1, <1>2, <1>3, <1>4, <1>5, <1>6 DEF Next, Caller, Stages

(***************************************************************************)
(* The writer's handle on the table, and a drain under way.                *)
(***************************************************************************)

LEMMA HandleStep ==
    ASSUME TypeOK, TypeOK', SpoolInv, AttemptInv, HandleInv, [Next]_vars
    PROVE  HandleInv'
<1> USE DEF staging, spool, lake, process, bounds
<1>0. /\ Len(log) \in Nat /\ Len(log') \in Nat /\ Len(log) <= Len(log') /\ base \in Nat
      /\ \A k : Committed(k, Len(log)) => Committed(k, Len(log))'
      /\ \A k : \A n \in Nat : n <= Len(log) => (Committed(k, n)' <=> Committed(k, n))
  BY CommitsLast DEF TypeOK
<1>1. CASE StartWriter
  <2>1. base' = Len(log) /\ log' = log /\ spoolRow' = spoolRow
    BY <1>1 DEF StartWriter
  <2> QED
    BY <1>0, <2>1 DEF HandleInv, SpoolInv, Committed
<1>2. ASSUME owner \in {"writer", "closing"}, base' \in {base, Len(log')},
             \A t \in spoolRow' : t.committed =>
                 \/ \E s \in spoolRow : s.committed /\ s.key = t.key
                 \/ Committed(t.key, base)
      PROVE  HandleInv'
  <2>1. base <= Len(log) /\ \A t \in spoolRow' : t.committed => Committed(t.key, base)
    BY <1>2 DEF HandleInv
  <2>2. base' \in Nat /\ base <= base' /\ base' <= Len(log')
    BY <1>0, <1>2, <2>1
  <2>3. ASSUME NEW k, Committed(k, base) PROVE Committed(k, base)'
    <3>1. Committed(k, base) <=> \E i \in 1..base : log'[i].key = k
      BY <1>0, <2>1 DEF Committed
    <3>2. \A i \in 1..base : i \in 1..base'
      BY <1>0, <2>2
    <3> QED
      BY <2>3, <3>1, <3>2 DEF Committed
  <2> QED
    BY <2>1, <2>2, <2>3 DEF HandleInv
<1>3. CASE MarkSpooled
  <2>1. /\ owner \in {"writer", "closing"} /\ base' = base /\ Committed(Current.key, base)
        /\ spoolRow' = spoolRow \/ Mark(Current.key)
    BY <1>3 DEF MarkSpooled, At, Working, AttemptInv
  <2> QED
    BY <1>2, <2>1, Marks
<1>4. CASE SpoolRow
  <2>1. /\ owner \in {"writer", "closing"} /\ base' = base
        /\ \/ spoolRow' = spoolRow
           \/ \E at \in CreatedAt :
                spoolRow' = spoolRow \cup {[key |-> Current.key, at |-> at, committed |-> FALSE]}
    BY <1>4 DEF SpoolRow, At, Working
  <2>2. \A t \in spoolRow' : t.committed => t \in spoolRow
    BY <2>1
  <2> QED
    BY <1>2, <2>1, <2>2
<1>5. CASE Worker /\ ~MarkSpooled /\ ~SpoolRow
  <2>1. owner \in {"writer", "closing"} /\ base' \in {base, Len(log')} /\ spoolRow' = spoolRow
    BY <1>5 DEF Worker, Prepare, PrepareRefused, Check, Quarantine, SpoolFile, Upload, Commit,
       CommitConflict, Prune, Finish, At, Working, Reloaded
  <2> QED
    BY <1>2, <2>1
<1>6. CASE Fault \/ Drain
  <2>1. \/ owner' \notin {"writer", "closing"}
        \/ owner \in {"writer", "closing"} /\ base' \in {base, Len(log')} /\ spoolRow' = spoolRow
    BY <1>6 DEF Fault, Crash, DrainFail, CloseExpired, CommitAnswerLost, Fail, SealAnswerLost,
       InsertAnswerLost, At, Working, Drain, DrainUpload, DrainCommit, DrainMark, DrainSpoolDone, Draining
  <2> QED
    BY <1>2, <2>1 DEF HandleInv
<1>7. CASE Caller /\ ~StartWriter
  <2>1. \/ owner' \notin {"writer", "closing"}
        \/ owner \in {"writer", "closing"} /\ base' = base /\ spoolRow' = spoolRow
    BY <1>7 DEF Caller, StoreClose, ClaimForWriter, ClaimForDrain, Claim, Open, Trigger, StartClose,
       CloseDrained, CloseReported, Insert
  <2> QED
    BY <1>2, <2>1 DEF HandleInv
<1>8. CASE Sweeper \/ UNCHANGED vars
  <2>1. owner' = owner /\ base' = base /\ spoolRow' \subseteq spoolRow
    BY <1>8 DEF Sweeper, EvictFile, EvictRow, vars
  <2> QED
    BY <1>2, <2>1 DEF HandleInv
<1> QED
  BY <1>1, <1>3, <1>4, <1>5, <1>6, <1>7, <1>8 DEF Next

LEMMA DrainStep ==
    ASSUME TypeOK, CeilingInv, LakeInv, QueueInv, AttemptInv, SpoolInv, DrainInv, [Next]_vars
    PROVE  DrainInv'
<1> USE DEF staging, spool, lake, process, bounds
<1>0. PlaceKept /\ Charged
  BY DEF CeilingInv
<1>1. CASE ClaimForWriter \/ ClaimForDrain
  <2>1. drainKey' = NoKey /\ pc' = "idle"
    BY <1>0, <1>1 DEF ClaimForWriter, ClaimForDrain, Claim, PlaceKept
  <2> QED
    BY <2>1 DEF DrainInv
<1>2. CASE DrainUpload
  <2>1. /\ pc = "idle" /\ pc' = pc /\ spoolRow' = spoolRow
        /\ \E s \in Backlog, f \in file :
              f.key = s.key /\ object' = Put(object, f.key, f.rows) /\ drainKey' = f.key
    BY <1>0, <1>2 DEF DrainUpload, Draining, PlaceKept, Oldest
  <2>2. Uncommitted(drainKey)'
    BY <2>1 DEF Backlog, Uncommitted
  <2>3. \E o \in object' : o.key = drainKey'
    BY <2>1, PutHas
  <2> QED
    BY <2>1, <2>2, <2>3 DEF DrainInv
<1>3. CASE DrainCommit
  <2>1. /\ Draining /\ drainKey # NoKey /\ UNCHANGED <<drainKey, object, spoolRow>>
        /\ \E f \in file : /\ f.key = drainKey
                           /\ \/ Committed(drainKey, Len(log)) /\ log' = log
                              \/ log' = Append(log, f)
    BY <1>3 DEF DrainCommit
  <2>2. Committed(drainKey, Len(log))'
    <3>1. CASE Committed(drainKey, Len(log)) /\ log' = log
      BY <2>1, <3>1 DEF Committed
    <3>2. CASE \E f \in file : f.key = drainKey /\ log' = Append(log, f)
      <4>1. PICK f \in file : f.key = drainKey /\ log' = Append(log, f)
        BY <3>2
      <4>2. f \in DataFiles
        BY DEF TypeOK
      <4>3. Len(log) \in Nat /\ Len(log') = Len(log) + 1 /\ log'[Len(log) + 1].key = drainKey
        BY <4>1, <4>2, LogGrows
      <4>4. Len(log) + 1 \in 1..Len(log')
        BY <4>3
      <4> QED
        BY <2>1, <4>3, <4>4 DEF Committed
    <3> QED
      BY <2>1, <3>1, <3>2
  <2> QED
    BY <2>1, <2>2 DEF DrainInv, Uncommitted
<1>4. CASE DrainMark
  BY <1>4 DEF DrainMark, DrainInv
<1>5. CASE Sweeper \/ UNCHANGED vars
  <2>2. \A k : Uncommitted(k) => Uncommitted(k)'
    <3>1. spoolRow' = spoolRow \/ \E s \in spoolRow : s.committed /\ spoolRow' = spoolRow \ {s}
      BY <1>5 DEF Sweeper, EvictFile, EvictRow, Evictable, vars
    <3> QED
      BY <3>1 DEF Uncommitted
  <2>3. UNCHANGED <<owner, pc, drainKey, object, log>>
    BY <1>5 DEF Sweeper, EvictFile, EvictRow, vars
  <2> QED
    BY <2>2, <2>3 DEF DrainInv, Draining, Committed
<1>6. CASE Worker \/ Fault \/ DrainSpoolDone
           \/ (Caller /\ ~ClaimForWriter /\ ~ClaimForDrain)
  <2>1. owner' \notin {"opening", "draining"}
    BY <1>0, <1>6 DEF Worker, Prepare, PrepareRefused, Check, Quarantine, SpoolFile, SpoolRow, Upload,
       Commit, CommitConflict, MarkSpooled, Prune, Finish, At, Working, Fault, Crash, DrainFail,
       CloseExpired, CommitAnswerLost, Fail, SealAnswerLost, InsertAnswerLost, DrainSpoolDone, Caller,
       StoreClose, Open, Trigger, StartWriter, StartClose, CloseDrained, CloseReported, Insert, Charged
  <2> QED
    BY <2>1 DEF DrainInv, Draining
<1> QED
  BY <1>1, <1>2, <1>3, <1>4, <1>5, <1>6 DEF Next, Drain

(***************************************************************************)
(* Where a record is.                                                      *)
(***************************************************************************)

LEMMA SpooledIs ==
    /\ \A r : r \in Spooled <=> \E f \in file : r \in f.rows /\ Uncommitted(f.key)
    /\ \A r : r \in Spooled' <=> \E f \in file' : r \in f.rows /\ Uncommitted(f.key)'
  BY DEF Spooled, Uncommitted

\* A key that is in the table has all its records there.
LEMMA CommittedIsDelivered ==
    ASSUME TypeOK, LakeInv, NEW k, Committed(k, Len(log))
    PROVE  Members(k) \subseteq Delivered
<1>1. PICK i \in 1..Len(log) : log[i].key = k
  BY DEF Committed
<1>2. i \in DOMAIN log
  BY DEF TypeOK
<1>3. log[i].rows = Members(k)
  BY <1>1, <1>2 DEF LakeInv, KeysTell, IsBatch
<1> QED
  BY <1>2, <1>3 DEF Delivered

LEMMA DeliveredGrows ==
    ASSUME TypeOK
    PROVE  /\ log' = log => Delivered' = Delivered
           /\ \A x \in DataFiles : log' = Append(log, x) => Delivered' = Delivered \cup x.rows
<1>1. log' = log => Delivered' = Delivered
  BY DEF Delivered
<1>2. ASSUME NEW x \in DataFiles, log' = Append(log, x) PROVE Delivered' = Delivered \cup x.rows
  <2>1. /\ DOMAIN log' = DOMAIN log \cup {Len(log) + 1} /\ log'[Len(log) + 1] = x
        /\ \A i \in DOMAIN log : log'[i] = log[i]
    BY <1>2, LogGrows
  <2> QED
    BY <2>1 DEF Delivered
<1> QED
  BY <1>1, <1>2

\* A row becomes owed only when it is first recorded.
LEMMA OwedNew ==
    ASSUME TypeOK, [Next]_vars
    PROVE  \A k : Uncommitted(k)' => Uncommitted(k) \/ (SpoolRow /\ k = Current.key)
<1>1. CASE MarkSpooled \/ DrainMark
  <2>1. spoolRow' = spoolRow \/ \E m : Mark(m)
    BY <1>1 DEF MarkSpooled, DrainMark
  <2> QED
    BY <2>1, Marks DEF Uncommitted
<1>2. CASE SpoolRow
  BY <1>2 DEF SpoolRow, Uncommitted
<1>3. CASE spoolRow' = spoolRow \/ \E s \in spoolRow : s.committed /\ spoolRow' = spoolRow \ {s}
  BY <1>3 DEF Uncommitted
<1> QED
  BY <1>1, <1>2, <1>3, SpoolFrame

\* What the spool owes is owed after the step, or is in the table already.
LEMMA SpooledStays ==
    ASSUME TypeOK, QueueInv, LakeInv, SpoolInv, AttemptInv, HandleInv, DrainInv, [Next]_vars
    PROVE  Spooled \subseteq Spooled' \cup Delivered
<1> SUFFICES ASSUME NEW r \in Spooled PROVE r \in Spooled' \cup Delivered
  OBVIOUS
<1>1. PICK f \in file : r \in f.rows /\ Uncommitted(f.key)
  BY SpooledIs
<1>2. f.rows = Members(f.key)
  BY DEF LakeInv, KeysTell, IsBatch
<1>3. \E g \in file' : g.key = f.key /\ g.rows = f.rows
  BY <1>1, LakeFiles DEF SpoolInv, Uncommitted
<1>4. CASE Uncommitted(f.key)'
  BY <1>1, <1>3, <1>4, SpooledIs
<1>5. CASE MarkSpooled /\ f.key = Current.key
  <2>1. Committed(f.key, base) /\ base <= Len(log) /\ base \in Nat /\ Len(log) \in Nat
    BY <1>5 DEF MarkSpooled, At, Working, AttemptInv, HandleInv, TypeOK
  <2>2. Committed(f.key, Len(log))
    BY <2>1 DEF Committed
  <2> QED
    BY <1>1, <1>2, <2>2, CommittedIsDelivered
<1>6. CASE DrainMark /\ f.key = drainKey
  <2>1. Committed(f.key, Len(log))
    BY <1>6 DEF DrainMark, DrainInv
  <2> QED
    BY <1>1, <1>2, <2>1, CommittedIsDelivered
<1> QED
  BY <1>1, <1>4, <1>5, <1>6, OwedStays

\* What the spool owes after a step it owed before, or staging still holds.
LEMMA SpooledWasStaged ==
    ASSUME TypeOK, CeilingInv, QueueInv, LakeInv, SpoolInv, AttemptInv, [Next]_vars
    PROVE  Spooled' \subseteq Spooled \cup staged
<1> SUFFICES ASSUME NEW r \in Spooled' PROVE r \in Spooled \cup staged
  OBVIOUS
<1>1. PICK g \in file' : r \in g.rows /\ Uncommitted(g.key)'
  BY SpooledIs
<1>2. CASE SpoolFile /\ g.rows = Current.rows
  <2>1. Current.rows \subseteq staged
    BY <1>2 DEF SpoolFile, At, CeilingInv, AttemptHasRows
  <2> QED
    BY <1>1, <1>2, <2>1
<1>3. CASE \E f \in file : g.key = f.key /\ g.rows = f.rows
  <2>1. PICK f \in file : g.key = f.key /\ g.rows = f.rows
    BY <1>3
  <2>2. CASE Uncommitted(g.key)
    BY <1>1, <2>1, <2>2, SpooledIs
  <2>3. CASE SpoolRow /\ g.key = Current.key
    <3>1. Current.rows \subseteq staged /\ IsBatch(Current)
      BY <2>3, HeadIsBatch DEF SpoolRow, At, CeilingInv, AttemptHasRows, AttemptInv
    <3>2. f.rows = Current.rows
      BY <2>1, <2>3, <3>1 DEF LakeInv, KeysTell, IsBatch
    <3> QED
      BY <1>1, <2>1, <3>1, <3>2
  <2> QED
    BY <1>1, <2>2, <2>3, OwedNew
<1> QED
  BY <1>1, <1>2, <1>3, LakeFiles

\* A pruned record is in the table, or in a file owed to it.
LEMMA PrunedIsSafe ==
    ASSUME TypeOK, QueueInv, LakeInv, SpoolInv, AttemptInv, Prune
    PROVE  /\ staged' = staged \ Current.rows
           /\ Current.rows \subseteq Delivered \cup Spooled
<1>1. Working /\ pc = "prune" /\ staged' = staged \ Current.rows
  BY DEF Prune, At
<1>2. Current.rows = Members(Current.key)
  BY <1>1, HeadSound DEF Working, AttemptInv, JobSound
<1>3. CASE Committed(Current.key, Len(log))
  BY <1>1, <1>2, <1>3, CommittedIsDelivered
<1>4. CASE Uncommitted(Current.key)
  <2>1. PICK f \in file : f.key = Current.key
    BY <1>4 DEF Uncommitted, SpoolInv, BacklogFilesPresent
  <2>2. f.rows = Current.rows
    BY <1>2, <2>1 DEF LakeInv, KeysTell, IsBatch
  <2> QED
    BY <1>1, <1>4, <2>1, <2>2, SpooledIs
<1> QED
  BY <1>1, <1>3, <1>4 DEF AttemptInv

\* No step takes a record out of everything that keeps one.
LEMMA NothingVanishes ==
    ASSUME TypeOK, QueueInv, LakeInv, SpoolInv, AttemptInv, HandleInv, DrainInv, [Next]_vars
    PROVE  staged \cup Spooled \cup Delivered \subseteq staged' \cup Spooled' \cup Delivered
<1>1. Spooled \subseteq Spooled' \cup Delivered
  BY SpooledStays
<1>2. CASE Prune
  BY <1>1, <1>2, PrunedIsSafe
<1>3. CASE staged \subseteq staged'
  BY <1>1, <1>3
<1> QED
  BY <1>2, <1>3, StagingFrame, StagesRows, SealsHead DEF Quarantine, staging

LEMMA NoRecordLostStep ==
    ASSUME TypeOK, QueueInv, LakeInv, SpoolInv, AttemptInv, HandleInv, DrainInv, NoRecordLost,
           [Next]_vars
    PROVE  NoRecordLost'
<1>1. staged \cup Spooled \cup Delivered \subseteq staged' \cup Spooled' \cup Delivered'
  BY NothingVanishes, LogFrame, DeliveredGrows, JobIsFile DEF At, TypeOK
<1>2. CASE \E n \in 1..MaxInsert : Stages(n)
  <2> PICK n \in 1..MaxInsert : Stages(n)
    BY <1>2
  <2>1. /\ n \in Nat /\ nextId \in Nat /\ nextId' = nextId + n
        /\ staged' = staged \cup (nextId..(nextId + n - 1))
    BY StagesRows
  <2>2. 1..(nextId' - 1) \subseteq 1..(nextId - 1) \cup (nextId..(nextId + n - 1))
    BY <2>1
  <2> QED
    BY <1>1, <2>1, <2>2 DEF NoRecordLost
<1>3. CASE nextId' = nextId
  BY <1>1, <1>3 DEF NoRecordLost
<1> QED
  BY <1>2, <1>3, StagingFrame, SealsHead DEF Quarantine, Prune, staging

(***************************************************************************)
(* The invariant, and what it gives.                                       *)
(***************************************************************************)

LEMMA FlushInit == Init => FlushInv
<1> SUFFICES ASSUME Init PROVE FlushInv
  OBVIOUS
<1>1. StagingInv
  BY DEF Init, StagingInv, FreshIds, SealsTell, PrunedWhole, QuarantinedWhole, ScanAccepts, QuarantinedBad
<1>2. LakeInv /\ SpoolInv
  BY DEF Init, LakeInv, KeysTell, SnapshotsDiffer, CommitsHaveObjects, SpoolInv, BacklogFilesPresent
<1>3. QueueInv
  BY DEF Init, QueueInv
<1>4. AttemptInv /\ HandleInv /\ DrainInv
  BY DEF Init, AttemptInv, Working, HandleInv, DrainInv, Draining
<1>5. NoRecordLost
  BY DEF Init, NoRecordLost
<1> QED
  BY <1>1, <1>2, <1>3, <1>4, <1>5 DEF FlushInv

LEMMA FlushStep ==
    ASSUME DistinctRecords
    PROVE  TypeOK /\ CeilingInv /\ FlushInv /\ [Next]_vars => FlushInv'
<1> SUFFICES ASSUME TypeOK, CeilingInv, FlushInv, [Next]_vars PROVE FlushInv'
  OBVIOUS
<1>0. TypeOK'
  BY TypeStep
<1> USE DEF FlushInv
<1>1. StagingInv' /\ LakeInv' /\ SpoolInv'
  BY StagingStep, LakeStep, SpoolStep
<1>2. QueueInv' /\ AttemptInv' /\ HandleInv' /\ DrainInv'
  BY <1>0, QueueStep, AttemptStep, HandleStep, DrainStep
<1>3. NoRecordLost'
  BY NoRecordLostStep
<1> QED
  BY <1>1, <1>2, <1>3

\* Two snapshots that share a record would be one.
LEMMA InvDelivers ==
    ASSUME TypeOK, FlushInv
    PROVE  ExactlyOnce /\ FilesStand /\ BatchesWhole
<1> USE DEF FlushInv
<1>1. CommittedOnce
  BY DEF LakeInv, KeysTell, SnapshotsDiffer, IsBatch, Members, CommittedOnce
<1>2. CommittedFilesReadable
  BY DEF LakeInv, KeysTell, CommitsHaveObjects, IsBatch, CommittedFilesReadable
<1>3. SealedBatchWhole
  <2>1. \A r \in staged : batchKey[r] # NoKey => Sealed(batchKey[r]) = Members(batchKey[r])
    BY DEF StagingInv, PrunedWhole, Sealed, Members, TypeOK
  <2> QED
    BY <2>1 DEF StagingInv, SealsTell, SealedBatchWhole, TypeOK
<1> QED
  BY <1>1, <1>2, <1>3 DEF StagingInv, SpoolInv, ExactlyOnce, FilesStand, BatchesWhole

\* The inductive invariant, over every behaviour.
LEMMA FlushInvHolds ==
    ASSUME DistinctRecords
    PROVE  Spec => [](TypeOK /\ CeilingInv /\ FlushInv)
<1>1. Init => TypeOK /\ CeilingInv /\ FlushInv
  BY TypeInit, CeilingInit, FlushInit
<1>2. TypeOK /\ CeilingInv /\ FlushInv /\ [Next]_vars => (TypeOK /\ CeilingInv /\ FlushInv)'
  BY TypeStep, CeilingStep, FlushStep
<1> QED
  BY <1>1, <1>2, PTL DEF Spec

\* A record that was accepted is never lost and is never in two snapshots, over
\* any number of failures, kills, replays, drains and changes of configuration,
\* provided that no two records encode alike.
THEOREM DeliveredExactlyOnce ==
    ASSUME DistinctRecords
    PROVE  Spec => []ExactlyOnce
  BY FlushInvHolds, InvDelivers, PTL

\* What a snapshot or an owed spool row names is there and holds what it says:
\* no upload, eviction or half-finished attempt takes it away or replaces it.
THEOREM FilesAlwaysStand ==
    ASSUME DistinctRecords
    PROVE  Spec => []FilesStand
  BY FlushInvHolds, InvDelivers, PTL

\* A sealed batch is pruned whole and quarantined whole, and its key stays the
\* hash of its rows: a store that was closed or killed anywhere opens again, and
\* replays each batch under the name it was sealed with.
THEOREM BatchesStayWhole ==
    ASSUME DistinctRecords
    PROVE  Spec => []BatchesWhole
  BY FlushInvHolds, InvDelivers, PTL

-----------------------------------------------------------------------------
(***************************************************************************)
(* FlushPath implements Delivery: each of its steps accepts records,       *)
(* delivers a batch, sets one aside, or is invisible to the caller.        *)
(***************************************************************************)

(***************************************************************************)
(* Where a record is, seen from outside.                                   *)
(***************************************************************************)

\* A record that is in the table or in an owed file was sealed, and into a batch
\* that encodes.
LEMMA KeptWasSealed ==
    ASSUME TypeOK, FlushInv, NEW r \in Delivered \cup Spooled
    PROVE  r \in Row /\ batchKey[r] # NoKey /\ Members(batchKey[r]) \cap Bad = {}
<1> USE DEF FlushInv, LakeInv, KeysTell
<1>1. CASE r \in Delivered
  <2>1. PICK i \in DOMAIN log : r \in log[i].rows
    BY <1>1 DEF Delivered
  <2> QED
    BY <2>1 DEF IsBatch, Members, Encodes
<1>2. CASE r \in Spooled
  <2>1. PICK f \in file : r \in f.rows
    BY <1>2, SpooledIs
  <2> QED
    BY <2>1 DEF IsBatch, Members, Encodes
<1> QED
  BY <1>1, <1>2

\* A record that was set aside is neither in the table nor owed to it.
LEMMA SetAsideApart ==
    ASSUME TypeOK, FlushInv
    PROVE  quarantined \cap (Delivered \cup Spooled) = {}
  BY KeptWasSealed DEF FlushInv, StagingInv, QuarantinedBad

\* A batch whose key no snapshot has shares no record with the table.
LEMMA NewBatchApart ==
    ASSUME TypeOK, FlushInv, NEW x, IsBatch(x), ~Committed(x.key, Len(log))
    PROVE  x.rows \cap Delivered = {}
<1> SUFFICES ASSUME NEW r \in x.rows, r \in Delivered PROVE FALSE
  OBVIOUS
<1>1. PICK i \in DOMAIN log : r \in log[i].rows
  BY DEF Delivered
<1>2. IsBatch(log[i]) /\ log[i].key # x.key
  BY <1>1 DEF FlushInv, LakeInv, KeysTell, Committed, TypeOK
<1> QED
  BY <1>1, <1>2 DEF IsBatch, Members

\* The abstract table, as a sequence of batches of records.
Batches == [i \in DOMAIN log |-> log[i].rows]

LEMMA BatchesAppend ==
    ASSUME TypeOK
    PROVE  /\ UNION {Batches[i] : i \in DOMAIN Batches} = Delivered
           /\ \A x \in DataFiles : log' = Append(log, x) => Batches' = Append(Batches, x.rows)
<1>1. log \in Seq(DataFiles) /\ Batches \in Seq(SUBSET Row) /\ Len(Batches) = Len(log)
      /\ DOMAIN log = 1..Len(log)
  <2>1. log \in Seq(DataFiles) /\ Len(log) \in Nat /\ DOMAIN log = 1..Len(log)
    BY DEF TypeOK
  <2>2. \A i \in 1..Len(log) : log[i] \in DataFiles
    BY <2>1
  <2>3. \A i \in 1..Len(log) : log[i].rows \in SUBSET Row
    BY <2>2 DEF DataFiles
  <2>4. Batches \in [1..Len(log) -> SUBSET Row]
    BY <2>1, <2>3 DEF Batches
  <2>5. Batches \in Seq(SUBSET Row)
    BY <2>1, <2>4, SeqDef
  <2> QED
    BY <2>1, <2>4, <2>5, LenProperties
<1>2. UNION {Batches[i] : i \in DOMAIN Batches} = Delivered
  BY DEF Batches, Delivered
<1>3. ASSUME NEW x \in DataFiles, log' = Append(log, x) PROVE Batches' = Append(Batches, x.rows)
  <2> DEFINE B == Append(Batches, x.rows)
  <2>1. /\ DOMAIN log' = 1..(Len(log) + 1) /\ log'[Len(log) + 1] = x
        /\ \A i \in 1..Len(log) : log'[i] = log[i]
    BY <1>1, <1>3, AppendProperties
  <2>2. /\ B = [i \in 1..(Len(log) + 1) |-> IF i <= Len(log) THEN Batches[i] ELSE x.rows]
    BY <1>1
  <2>3. \A i \in 1..Len(log) : Batches[i] = log[i].rows
    BY <1>1 DEF Batches
  <2>4. Batches' = [i \in 1..(Len(log) + 1) |-> log'[i].rows]
    BY <2>1 DEF Batches
  <2>5. \A i \in 1..(Len(log) + 1) : log'[i].rows = IF i <= Len(log) THEN Batches[i] ELSE x.rows
    BY <1>1, <2>1, <2>3
  <2> QED
    BY <2>2, <2>4, <2>5
<1> QED
  BY <1>2, <1>3

(***************************************************************************)
(* The steps.                                                              *)
(***************************************************************************)
Pending == (staged \cup Spooled) \ (Delivered \cup quarantined)

\* The spool owes what it owed while its files and its rows stay as they are.
LEMMA SpooledFrame == UNCHANGED <<file, spoolRow>> => Spooled' = Spooled
  BY DEF Spooled

\* A record is accepted, answered or not, under an id that nothing bears yet.
LEMMA InsertAccepts ==
    ASSUME TypeOK, FlushInv, NEW n \in 1..MaxInsert, Stages(n)
    PROVE  \E S \in (SUBSET Row) \ {{}} :
              /\ S \cap (Pending \cup Delivered \cup quarantined) = {}
              /\ Pending' = Pending \cup S
              /\ log' = log /\ quarantined' = quarantined
<1> DEFINE new == nextId..(nextId + n - 1)
<1>1. /\ nextId \in Nat \ {0} /\ n \in Nat \ {0} /\ nextId + n - 1 <= MaxRow /\ MaxRow \in Nat
      /\ staged' = staged \cup new /\ log' = log /\ quarantined' = quarantined
      /\ UNCHANGED <<file, spoolRow>>
  BY StagesRows
<1>2. new \subseteq Row /\ nextId \in new /\ \A r \in new : r >= nextId
  BY <1>1 DEF Row
<1>3. Spooled' = Spooled /\ Delivered' = Delivered
  BY <1>1, SpooledFrame DEF Delivered
<1> HIDE DEF new
<1>4. ASSUME NEW r \in new PROVE r \notin staged \cup Spooled \cup Delivered \cup quarantined
  <2>1. r \in Row /\ r \notin staged \cup quarantined /\ batchKey[r] = NoKey
    BY <1>2 DEF FlushInv, StagingInv, FreshIds
  <2> QED
    BY <2>1, KeptWasSealed
<1>5. Pending' = Pending \cup new
  BY <1>1, <1>3, <1>4 DEF Pending
<1>6. new \in (SUBSET Row) \ {{}} /\ new \cap (Pending \cup Delivered \cup quarantined) = {}
  BY <1>2, <1>4 DEF Pending
<1> QED
  BY <1>1, <1>5, <1>6

\* A commit delivers a batch that is staged or owed, and none of it was
\* delivered before or set aside.
LEMMA CommitDelivers ==
    ASSUME TypeOK, FlushInv, NEW x \in DataFiles, IsBatch(x), ~Committed(x.key, Len(log)),
           x.rows \subseteq staged \cup Spooled, log' = Append(log, x),
           UNCHANGED <<staging, file, spoolRow>>
    PROVE  /\ x.rows \subseteq Pending /\ x.rows \in (SUBSET Row) \ {{}}
           /\ Pending' = Pending \ x.rows
           /\ Batches' = Append(Batches, x.rows) /\ quarantined' = quarantined
<1>1. x.rows \subseteq Row /\ x.rows # {} /\ x.rows = Members(x.key) /\ x.key # NoKey
      /\ x.rows \cap Bad = {}
  BY DEF IsBatch, DataFiles, Encodes
<1>2. x.rows \cap Delivered = {}
  BY NewBatchApart
<1>3. x.rows \cap quarantined = {}
  BY <1>1 DEF FlushInv, StagingInv, QuarantinedBad, Members
<1>4. Delivered' = Delivered \cup x.rows
  BY DeliveredGrows
<1>5. Spooled' = Spooled /\ staged' = staged /\ quarantined' = quarantined
  BY SpooledFrame DEF staging
<1>6. x.rows \subseteq Pending /\ Pending' = Pending \ x.rows
  BY <1>2, <1>3, <1>4, <1>5 DEF Pending
<1>7. Batches' = Append(Batches, x.rows)
  BY BatchesAppend
<1> QED
  BY <1>1, <1>5, <1>6, <1>7

\* A batch that cannot be encoded is in no snapshot: what of it was not marked
\* before is pending, and is set aside.
LEMMA QuarantineSetsAside ==
    ASSUME TypeOK, FlushInv, Quarantine, quarantined' # quarantined
    PROVE  \E S \in (SUBSET Row) \ {{}} :
              /\ S \subseteq Pending
              /\ Pending' = Pending \ S
              /\ quarantined' = quarantined \cup S /\ log' = log
<1> DEFINE S == Current.rows \ quarantined
<1>1. /\ Working /\ Current.rows \subseteq staged /\ Current.rows \cap Bad # {}
      /\ quarantined' = quarantined \cup Current.rows
      /\ staged' = staged /\ log' = log /\ UNCHANGED <<file, spoolRow>>
  BY DEF Quarantine, At, Encodes, Marked, spool, lake
<1>2. staged \subseteq Row /\ S \subseteq Row /\ S # {} /\ quarantined' = quarantined \cup S
  BY <1>1 DEF TypeOK
<1>3. Spooled' = Spooled /\ Delivered' = Delivered
  BY <1>1, SpooledFrame DEF Delivered
<1>4. ASSUME NEW r \in Current.rows PROVE r \notin Delivered
  <2>1. JobSound(1) /\ Current = queue[1]
    BY <1>1, HeadSound DEF FlushInv, Working
  <2>2. CASE Current.key = NoKey
    <3>1. batchKey[r] = NoKey
      BY <2>2 DEF Quarantine, Stranded, At, FlushInv, AttemptInv
    <3> QED
      BY <3>1, KeptWasSealed
  <2>3. CASE Current.key # NoKey
    <3>1. Current.rows = Members(Current.key) /\ batchKey[r] = Current.key
      BY <2>1, <2>3 DEF JobSound, Members
    <3> QED
      BY <1>1, <3>1, KeptWasSealed
  <2> QED
    BY <2>2, <2>3
<1>5. S \subseteq Pending /\ Pending' = Pending \ S
  BY <1>1, <1>2, <1>3, <1>4 DEF Pending
<1>6. S \in (SUBSET Row) \ {{}}
  BY <1>2
<1> HIDE DEF S
<1> QED
  BY <1>1, <1>2, <1>5, <1>6

\* Every other step leaves the caller's view as it was: a record that is pruned
\* is in the table or owed, and one no longer owed is in the table.
LEMMA OthersUnseen ==
    ASSUME TypeOK, CeilingInv, FlushInv, [Next]_vars,
           log' = log, quarantined' = quarantined, staged' \subseteq staged
    PROVE  Pending' = Pending
<1> USE DEF FlushInv
<1>1. staged \cup Spooled \cup Delivered \subseteq staged' \cup Spooled' \cup Delivered
  BY NothingVanishes
<1>2. Spooled' \subseteq Spooled \cup staged
  BY SpooledWasStaged
<1>3. Delivered' = Delivered
  BY DEF Delivered
<1> QED
  BY <1>1, <1>2, <1>3 DEF Pending

\* What a commit adds is a batch, new to the table, that is staged or owed.
LEMMA CommitsNewBatch ==
    ASSUME TypeOK, CeilingInv, FlushInv, [Next]_vars, log' # log
    PROVE  \E x \in DataFiles : /\ IsBatch(x) /\ ~Committed(x.key, Len(log))
                                /\ x.rows \subseteq staged \cup Spooled
                                /\ log' = Append(log, x)
                                /\ UNCHANGED <<staging, file, spoolRow>>
<1> USE DEF FlushInv
<1>1. CASE /\ DrainCommit
           /\ \E f \in file : /\ f.key = drainKey /\ ~Committed(drainKey, Len(log))
                              /\ log' = Append(log, f)
  <2> PICK f \in file : /\ f.key = drainKey /\ ~Committed(drainKey, Len(log))
                        /\ log' = Append(log, f)
    BY <1>1
  <2>1. f \in DataFiles /\ IsBatch(f)
    BY DEF TypeOK, LakeInv, KeysTell
  <2>2. Uncommitted(f.key)
    BY <1>1 DEF DrainCommit, DrainInv
  <2>3. f.rows \subseteq Spooled
    BY <2>2, SpooledIs
  <2>4. UNCHANGED <<staging, file, spoolRow>>
    BY <1>1 DEF DrainCommit, spool
  <2> QED
    BY <2>1, <2>3, <2>4
<1>2. CASE /\ Commit \/ CommitAnswerLost
           /\ At("commit") /\ base = Len(log) /\ log' = Append(log, DataFile(Current))
  <2> DEFINE x == DataFile(Current)
  <2>1. Working /\ pc = "commit" /\ UNCHANGED <<staging, file, spoolRow>>
    BY <1>2 DEF At, Commit, CommitAnswerLost, spool
  <2>2. x \in DataFiles /\ x.key = Current.key /\ x.rows = Current.rows
    BY <2>1, JobIsFile
  <2>3. mode # "local" /\ Encodes(Current) /\ ~Committed(Current.key, Len(log))
    BY <1>2, <2>1 DEF AttemptInv
  <2>4. IsBatch(Current)
    BY <2>1, <2>3, HeadIsBatch
  <2>5. IsBatch(x)
    BY <2>2, <2>4 DEF IsBatch, Encodes
  <2>6. x.rows \subseteq staged
    BY <2>1, <2>2 DEF CeilingInv, AttemptHasRows
  <2> HIDE DEF x
  <2>7. log' = Append(log, x)
    BY <1>2 DEF x
  <2> QED
    BY <2>1, <2>2, <2>3, <2>5, <2>6, <2>7
<1> QED
  BY <1>1, <1>2, LogFrame

(***************************************************************************)
(* The refinement.                                                         *)
(***************************************************************************)

LEMMA PromiseInit == Init => Promise!Init
<1> SUFFICES ASSUME Init PROVE Promise!Init
  OBVIOUS
<1>1. staged = {} /\ file = {} /\ quarantined = {} /\ log = <<>>
  BY DEF Init
<1>2. Spooled = {} /\ DOMAIN log = {}
  BY <1>1 DEF Spooled
<1>3. [i \in DOMAIN log |-> log[i].rows] = <<>>
  BY <1>2
<1> QED
  BY <1>1, <1>2, <1>3 DEF Promise!Init

LEMMA PromiseStep ==
    TypeOK /\ CeilingInv /\ FlushInv /\ [Next]_vars => [Promise!Next]_(Promise!deliveryVars)
<1> SUFFICES ASSUME TypeOK, CeilingInv, FlushInv, [Next]_vars
             PROVE  [Promise!Next]_(Promise!deliveryVars)
  OBVIOUS
<1> USE DEF Pending, Batches
<1>1. CASE \E n \in 1..MaxInsert : Stages(n)
  <2> PICK n \in 1..MaxInsert : Stages(n)
    BY <1>1
  <2> PICK S \in (SUBSET Row) \ {{}} :
              /\ S \cap (Pending \cup Delivered \cup quarantined) = {}
              /\ Pending' = Pending \cup S
              /\ log' = log /\ quarantined' = quarantined
    BY InsertAccepts
  <2>1. Promise!Contents = Delivered
    BY BatchesAppend DEF Promise!Contents
  <2>2. Promise!Accept(S)
    BY <2>1 DEF Promise!Accept
  <2> QED
    BY <2>2 DEF Promise!Next
<1>2. CASE log' # log
  <2> PICK x \in DataFiles : /\ IsBatch(x) /\ ~Committed(x.key, Len(log))
                             /\ x.rows \subseteq staged \cup Spooled
                             /\ log' = Append(log, x)
                             /\ UNCHANGED <<staging, file, spoolRow>>
    BY <1>2, CommitsNewBatch
  <2>1. /\ x.rows \subseteq Pending /\ x.rows \in (SUBSET Row) \ {{}}
        /\ Pending' = Pending \ x.rows
        /\ Batches' = Append(Batches, x.rows) /\ quarantined' = quarantined
    BY CommitDelivers
  <2>2. Promise!Deliver(x.rows)
    BY <2>1 DEF Promise!Deliver
  <2> QED
    BY <2>1, <2>2 DEF Promise!Next
<1>3. CASE Quarantine /\ quarantined' # quarantined
  <2> PICK S \in (SUBSET Row) \ {{}} :
              /\ S \subseteq Pending
              /\ Pending' = Pending \ S
              /\ quarantined' = quarantined \cup S /\ log' = log
    BY <1>3, QuarantineSetsAside
  <2>1. Promise!SetAside(S)
    BY DEF Promise!SetAside
  <2> QED
    BY <2>1 DEF Promise!Next
<1>4. CASE log' = log /\ quarantined' = quarantined /\ staged' \subseteq staged
  BY <1>4, OthersUnseen DEF Promise!deliveryVars
<1> QED
  BY <1>1, <1>2, <1>3, <1>4, StagingFrame, SealsHead DEF Quarantine, Prune, staging

\* Whatever fails, dies, is retried, replayed or drained, and in whatever
\* configuration the data directory is opened, a caller sees a table to which
\* batches of accepted records are added whole and once, and no record vanish:
\* the whole path implements Delivery, provided that no two records encode alike.
THEOREM PathImplementsDelivery ==
    ASSUME DistinctRecords
    PROVE  Spec => ImplementsDelivery
<1>1. Spec => [](TypeOK /\ CeilingInv /\ FlushInv)
  BY FlushInvHolds
<1> QED
  BY <1>1, PromiseInit, PromiseStep, PTL DEF Spec, ImplementsDelivery, Promise!Spec

-----------------------------------------------------------------------------
(***************************************************************************)
(* Records reach the table in the order they were accepted, and a spool    *)
(* file leaves the disk only after its commit: for every value of the      *)
(* constants, provided that no two records encode alike.                   *)
(*                                                                         *)
(* The argument.  A batch is sealed only at the head of the queue, so at   *)
(* any time at most one batch is sealed and still live in staging, and it  *)
(* is the earliest: whatever is pruned or sealed precedes whatever is      *)
(* live.  The queue, a replay after a restart, and the created_at of the   *)
(* spool's rows all inherit that order.  A record whose insert was         *)
(* answered with a failure is outside of it: the writer does not know of   *)
(* the row, and the next open batches it with what is unsealed then.       *)
(***************************************************************************)


\* The rows a scan would hand out: staged and not quarantined.
Live == staged \ quarantined

Writing == owner \in {"writer", "closing"}

\* What was sealed or pruned precedes what is live, but for the rows of the one
\* batch that is both.
SealedFirst ==
    \A q \in Live \ unanswered, r \in Row :
        r < nextId /\ (r \notin staged \/ batchKey[r] # NoKey) =>
            r < q \/ (batchKey[r] # NoKey /\ batchKey[r] = batchKey[q])

\* The rows the writer knows of: its batch and its queue.
Known == batch \cup UNION {queue[i].rows : i \in DOMAIN queue}

\* The writer knows of every live row it accepted, in order.
QueueOrdered ==
    /\ Writing => \A q \in Live \ Known : q \in unanswered /\ batchKey[q] = NoKey
    /\ \A i, j \in DOMAIN queue : i < j =>
          \A r \in queue[i].rows, q \in queue[j].rows : r < q \/ q \in unanswered
    /\ \A i \in DOMAIN queue : \A r \in queue[i].rows, q \in batch : r < q \/ q \in unanswered

\* One batch at most is sealed and live, and in the queue it is the first.
OneSealed ==
    /\ \A q, r \in Live : batchKey[q] # NoKey /\ batchKey[r] # NoKey => batchKey[q] = batchKey[r]
    /\ \A i \in DOMAIN queue : i # 1 => queue[i].key = NoKey

\* A spool row is created after the rows of every earlier batch.
SpoolOrdered ==
    /\ \A s \in spoolRow : s.at < clock
    /\ \A s, t \in spoolRow :
          s.at < t.at => \A r \in Members(s.key), q \in Members(t.key) : r < q \/ q \in unanswered

\* A batch is pruned, where there is a bucket, only when it is in the table, and
\* leaves the queue only when none of it is staged.
AttemptOrdered ==
    Working => /\ pc = "prune" /\ mode # "local" => Committed(Current.key, Len(log))
               /\ pc = "schemas" => Current.rows \cap staged = {}

\* With its cache directory and its bucket, a writer starts with an empty
\* backlog: what the spool still owes is staged too.
BacklogDrained == Writing /\ mode = "spooled" => Spooled \subseteq staged \cup Delivered

\* The file being drained is the oldest of the backlog.
DrainOrdered ==
    Draining /\ drainKey # NoKey => \E s \in Oldest(Backlog) : s.key = drainKey

OrderInv ==
    SealedFirst /\ QueueOrdered /\ OneSealed /\ SpoolOrdered /\ AttemptOrdered /\ BacklogDrained /\ DrainOrdered

(***************************************************************************)
(* The staging rows and the queue.                                         *)
(***************************************************************************)

\* A record whose insert was answered with a failure stays one.
LEMMA UnansweredStays == [Next]_vars => unanswered \subseteq unanswered'
<1> USE DEF staging, spool, lake, process, bounds
<1>1. Drain \/ Sweeper \/ Fault => unanswered \subseteq unanswered'
  BY DEF Drain, DrainUpload, DrainCommit, DrainMark, DrainSpoolDone, Sweeper, EvictFile, EvictRow,
         Fault, Crash, DrainFail, CloseExpired, CommitAnswerLost, Fail, SealAnswerLost, InsertAnswerLost
<1>2. Caller => unanswered' = unanswered
  BY DEF Caller, StoreClose, ClaimForWriter, ClaimForDrain, Claim, Open, Trigger, StartWriter,
         StartClose, CloseDrained, CloseReported, Insert
<1>3. Worker => unanswered' = unanswered
  BY DEF Worker, Prepare, PrepareRefused, Check, Quarantine, SpoolFile, SpoolRow, Upload, Commit,
         CommitConflict, MarkSpooled, Prune, Finish
<1> QED
  BY <1>1, <1>2, <1>3 DEF Next, vars

LEMMA SealedFirstStep ==
    ASSUME DistinctRecords, TypeOK, StagingInv, QueueInv, AttemptInv, SealedFirst, QueueOrdered,
           [Next]_vars
    PROVE  SealedFirst'
<1>1. /\ nextId \in Nat /\ batchKey \in [Row -> Key] /\ staged \subseteq Row
      /\ Row \subseteq Nat
  BY FlushPathAssumption DEF TypeOK, Row
<1>0. unanswered \subseteq unanswered'
  BY UnansweredStays
<1>2. CASE \E n \in 1..MaxInsert : Stages(n)
  <2> PICK n \in 1..MaxInsert : Stages(n)
    BY <1>2
  <2> DEFINE new == nextId..(nextId + n - 1)
  <2>1. /\ staged' = staged \cup new /\ nextId' = nextId + n /\ n \in Nat
        /\ UNCHANGED <<batchKey, quarantined>>
    BY StagesRows
  <2>2. \A r \in Row : r >= nextId /\ r < nextId' => r \in new
    BY <1>1, <2>1
  <2>3. \A r \in new : r >= nextId
    BY <1>1, <2>1
  <2> HIDE DEF new
  <2> SUFFICES ASSUME NEW q \in Live' \ unanswered', NEW r \in Row, r < nextId',
                      r \notin staged' \/ batchKey[r] # NoKey
               PROVE  r < q \/ (batchKey[r] # NoKey /\ batchKey[r] = batchKey[q])
    BY <2>1 DEF SealedFirst
  <2>4. r < nextId
    <3>1. r \in Nat
      BY <1>1
    <3>2. r >= nextId => r \in new /\ batchKey[r] = NoKey
      BY <2>2 DEF StagingInv, FreshIds
    <3> QED
      BY <1>1, <2>1, <3>1, <3>2
  <2>5. CASE q \in Live
    BY <1>0, <2>1, <2>4, <2>5 DEF SealedFirst
  <2>6. CASE q \in new
    <3>1. q >= nextId /\ q \in Int /\ r \in Nat
      BY <1>1, <2>3, <2>6 DEF new
    <3> QED
      BY <1>1, <2>4, <3>1
  <2> QED
    BY <2>1, <2>5, <2>6 DEF Live
<1>3. CASE Seals
  <2> PICK k0 : k0 = KeyOf(Current)
    OBVIOUS
  <2>1. /\ UNCHANGED <<staged, nextId, quarantined, unanswered>> /\ Writing /\ queue # <<>>
    BY <1>3, SealsHead DEF Working, Writing
  <2>2. /\ k0 # NoKey /\ Members(k0)' = Current.rows
        /\ \A r \in Row : r \in Current.rows \/ batchKey'[r] = batchKey[r]
        /\ \A r \in Row : batchKey[r] # NoKey => batchKey'[r] = batchKey[r]
    BY <1>3, Stamps
  <2>3. 1 \in DOMAIN queue /\ Current = queue[1] /\ DOMAIN queue = 1..Len(queue)
    BY <2>1, HeadSound DEF TypeOK
  <2> SUFFICES ASSUME NEW q \in Live \ unanswered, NEW r \in Row, r < nextId,
                      r \notin staged \/ batchKey'[r] # NoKey
               PROVE  r < q \/ (batchKey'[r] # NoKey /\ batchKey'[r] = batchKey'[q])
    BY <2>1 DEF SealedFirst, Live
  <2>4. q \in Row
    BY <1>1 DEF Live
  <2>5. CASE r \in Current.rows /\ q \in Current.rows
    BY <2>2, <2>4, <2>5 DEF Members
  <2>6. CASE r \in Current.rows /\ q \notin Current.rows
    <3>1. CASE q \in batch
      BY <2>3, <2>6, <3>1 DEF QueueOrdered
    <3>2. CASE \E i \in DOMAIN queue : q \in queue[i].rows
      <4>1. PICK i \in DOMAIN queue : q \in queue[i].rows
        BY <3>2
      <4>2. 1 < i
        BY <2>3, <2>6, <4>1
      <4> QED
        BY <2>3, <2>6, <4>1, <4>2 DEF QueueOrdered
    <3> QED
      BY <2>1, <3>1, <3>2 DEF QueueOrdered, Known
  <2>7. CASE r \notin Current.rows
    <3>1. r < q \/ (batchKey[r] # NoKey /\ batchKey[r] = batchKey[q])
      BY <2>2, <2>7 DEF SealedFirst
    <3> QED
      BY <2>2, <2>4, <3>1
  <2> QED
    BY <2>5, <2>6, <2>7
<1>4. CASE Quarantine
  <2>1. UNCHANGED <<nextId, staged, batchKey>> /\ Live' \subseteq Live
    BY <1>4 DEF Quarantine, Live
  <2> QED
    BY <1>0, <2>1 DEF SealedFirst
<1>5. CASE Prune
  <2>1. /\ staged' = staged \ Current.rows /\ Live' \subseteq Live
        /\ UNCHANGED <<nextId, batchKey>>
    BY <1>5 DEF Prune, Live
  <2>2. \A r \in Current.rows : batchKey[r] # NoKey
    BY <1>5, HeadSound DEF Prune, At, Working, AttemptInv, JobSound, Members
  <2> QED
    BY <1>0, <2>1, <2>2 DEF SealedFirst
<1>6. CASE UNCHANGED staging
  BY <1>0, <1>6 DEF staging, SealedFirst, Live
<1> QED
  BY <1>2, <1>3, <1>4, <1>5, <1>6, StagingFrame

\* The order stands when the jobs are jobs the queue had, in their order, and a
\* row that leaves the queue is live no more.
LEMMA OrderKeeps ==
    ASSUME TypeOK, QueueOrdered, queue' \in Seq(Job), batch' = batch, Writing' => Writing,
           unanswered \subseteq unanswered', Live' \subseteq Live, NEW step \in 0..1,
           \A q \in Live' \ Known : batchKey'[q] = batchKey[q],
           \A i \in DOMAIN queue' : /\ i + step \in DOMAIN queue
                                    /\ queue'[i].rows = queue[i + step].rows,
           \A i \in DOMAIN queue : \/ i = step /\ queue[i].rows \cap Live' = {}
                                   \/ \E k \in DOMAIN queue' : queue'[k].rows = queue[i].rows
    PROVE  QueueOrdered'
<1>1. \A i \in DOMAIN queue' : i \in Nat
  OBVIOUS
<1>2. ASSUME NEW i \in DOMAIN queue', NEW j \in DOMAIN queue', i < j,
             NEW r \in queue'[i].rows, NEW q \in queue'[j].rows
      PROVE  r < q \/ q \in unanswered'
  <2>1. i + step < j + step /\ i + step \in DOMAIN queue /\ j + step \in DOMAIN queue
    BY <1>1, <1>2
  <2> QED
    BY <1>2, <2>1 DEF QueueOrdered
<1>3. \A i \in DOMAIN queue' : \A r \in queue'[i].rows, q \in batch' : r < q \/ q \in unanswered'
  BY DEF QueueOrdered
<1>4. ASSUME Writing', NEW q \in Live', q \notin Known' PROVE q \in unanswered' /\ batchKey'[q] = NoKey
  <2>1. q \notin Known
    BY <1>4 DEF Known
  <2> QED
    BY <1>4, <2>1 DEF QueueOrdered
<1> QED
  BY <1>2, <1>3, <1>4 DEF QueueOrdered

\* Sealing keeps the order when what is sealed follows what is queued.
LEMMA OrderSeals ==
    ASSUME TypeOK, QueueOrdered, NEW S \in SUBSET Row, SealInto(S),
           unanswered \subseteq unanswered',
           Writing' => \A q \in Live' :
               \/ q \in S \cup UNION {queue[i].rows : i \in DOMAIN queue}
               \/ q \in unanswered' /\ batchKey'[q] = NoKey,
           \A i \in DOMAIN queue : \A r \in queue[i].rows, q \in S : r < q \/ q \in unanswered
    PROVE  QueueOrdered'
<1>1. queue \in Seq(Job) /\ Len(queue) \in Nat /\ DOMAIN queue = 1..Len(queue)
  BY DEF TypeOK
<1>2. CASE S = {}
  <2>1. queue' = queue /\ batch' = {}
    BY <1>2 DEF SealInto
  <2> QED
    BY <1>2, <2>1 DEF QueueOrdered, Known
<1>3. CASE S # {}
  <2> DEFINE j == NewJob(S)
  <2>1. queue' = Append(queue, j) /\ batch' = {} /\ j.rows = S /\ j \in Job
    BY <1>3, NoKeyIsKey DEF SealInto, NewJob, Job
  <2> HIDE DEF j
  <2>2. /\ DOMAIN queue' = DOMAIN queue \cup {Len(queue) + 1}
        /\ queue'[Len(queue) + 1].rows = S
        /\ \A i \in DOMAIN queue : queue'[i] = queue[i] /\ i < Len(queue) + 1
        /\ \A i \in DOMAIN queue : ~(Len(queue) + 1 < i)
    BY <1>1, <2>1
  <2>3. ASSUME NEW i \in DOMAIN queue', NEW k \in DOMAIN queue', i < k,
               NEW r \in queue'[i].rows, NEW q \in queue'[k].rows
        PROVE  r < q \/ q \in unanswered'
    <3>1. CASE k \in DOMAIN queue
      BY <1>1, <2>2, <2>3, <3>1 DEF QueueOrdered
    <3>2. CASE k = Len(queue) + 1
      BY <1>1, <2>2, <2>3, <3>2
    <3> QED
      BY <2>2, <3>1, <3>2
  <2>4. Writing' => \A q \in Live' \ Known' : q \in unanswered' /\ batchKey'[q] = NoKey
    BY <2>2 DEF Known
  <2> QED
    BY <2>1, <2>3, <2>4 DEF QueueOrdered
<1> QED
  BY <1>2, <1>3

\* A scan finds at most one sealed batch that is live, and it precedes the tail.
LEMMA ReplayOrdered ==
    ASSUME TypeOK, StagingInv, SealedFirst, OneSealed, StartWriter
    PROVE  QueueOrdered' /\ Len(queue') <= 1 /\ batchKey' = batchKey
<1>1. PICK q \in [1..Cardinality(PendingJobs) -> PendingJobs] : queue' = q
  BY DEF StartWriter
<1>2. /\ batch' = {r \in Live : batchKey[r] = NoKey} /\ Live' = Live
      /\ Live \subseteq Row /\ Row \subseteq Nat
      /\ \A r \in Live : r < nextId
      /\ UNCHANGED <<batchKey, unanswered>>
  BY FlushPathAssumption DEF StartWriter, Live, staging, bounds, TypeOK, Row, StagingInv, FreshIds
<1>3. ASSUME NEW r \in Live, NEW s \in Live \ unanswered, batchKey[r] # NoKey
      PROVE  r < s \/ batchKey[r] = batchKey[s]
  BY <1>2, <1>3 DEF SealedFirst
<1>4. \A k \in StagedKeys : \E r \in Live : batchKey[r] = k /\ k # NoKey
  BY DEF StagedKeys, Live
<1>5. \A k, m \in StagedKeys : k = m
  BY <1>4 DEF OneSealed
<1>6. \A a, b \in PendingJobs : a = b
  BY <1>5 DEF PendingJobs
<1>7. /\ PendingJobs = {} => Cardinality(PendingJobs) = 0
      /\ \A a \in PendingJobs : Cardinality(PendingJobs) = 1
  <2>1. \A a \in PendingJobs : PendingJobs = {a}
    BY <1>6
  <2> QED
    BY <2>1, FS_EmptySet, FS_Singleton
<1>8. DOMAIN q = 1..Cardinality(PendingJobs) /\ \A i \in DOMAIN q : q[i] \in PendingJobs
  OBVIOUS
<1>9. \A i, j \in DOMAIN q : ~(i < j)
  BY <1>7, <1>8
<1>10. \A a \in PendingJobs : \E i \in DOMAIN q : q[i] = a
  <2> SUFFICES ASSUME NEW a \in PendingJobs PROVE \E i \in DOMAIN q : q[i] = a
    OBVIOUS
  <2>1. 1 \in DOMAIN q
    BY <1>7, <1>8
  <2> QED
    BY <1>6, <1>8, <2>1
<1>11. ASSUME NEW a \in PendingJobs, NEW r \in a.rows
       PROVE  r \in Live /\ batchKey[r] # NoKey
  <2>1. PICK k \in StagedKeys : a = [key |-> k, rows |-> Sealed(k) \ quarantined,
                                     replayed |-> TRUE, attempted |-> FALSE]
    BY DEF PendingJobs
  <2> QED
    BY <1>4, <1>11, <2>1 DEF Sealed, Live
<1>12. ASSUME NEW r \in Live, batchKey[r] # NoKey PROVE \E a \in PendingJobs : r \in a.rows
  <2> DEFINE J(k) == [key |-> k, rows |-> Sealed(k) \ quarantined,
                      replayed |-> TRUE, attempted |-> FALSE]
  <2>1. batchKey[r] \in StagedKeys
    BY <1>12 DEF StagedKeys, Live
  <2>2. J(batchKey[r]) \in PendingJobs
    BY <2>1 DEF PendingJobs
  <2>3. r \in J(batchKey[r]).rows
    BY <1>12 DEF Sealed, Live
  <2> QED
    BY <2>2, <2>3
<1>13. Live \subseteq batch' \cup UNION {q[i].rows : i \in DOMAIN q}
  BY <1>2, <1>10, <1>12
<1>14. \A i \in DOMAIN q : \A r \in q[i].rows, s \in batch' : r < s \/ s \in unanswered
  BY <1>2, <1>3, <1>8, <1>11
<1>15. Len(q) <= 1
  BY <1>7, <1>8
<1>16. QueueOrdered'
  BY <1>1, <1>2, <1>9, <1>13, <1>14 DEF QueueOrdered, Known
<1> QED
  BY <1>1, <1>2, <1>15, <1>16

\* What each step does to the queue and to the live rows.
LEMMA OrderFrame ==
    ASSUME [Next]_vars
    PROVE  \/ /\ UNCHANGED <<queue, batch, batchKey>>
              /\ Writing' => Writing
              /\ Live' \subseteq Live
           \/ NoWriter /\ ~Writing' /\ UNCHANGED <<Live, batchKey>>
           \/ \E n \in 1..MaxInsert : Stages(n)
           \/ (Trigger \/ StartClose) /\ UNCHANGED <<Live, batchKey>>
           \/ StartWriter
           \/ Seals /\ Live' = Live
           \/ Working /\ GiveUp /\ UNCHANGED <<batch, batchKey, Live>>
           \/ Finish /\ UNCHANGED <<Live, batchKey>>
           \/ Quarantine /\ Finished /\ Live' \subseteq Live \ Current.rows /\ batchKey' = batchKey
<1> USE DEF staging, spool, lake, process, bounds
<1>1. Sweeper \/ UNCHANGED vars \/ Drain =>
         UNCHANGED <<queue, batch, batchKey>> /\ (Writing' => Writing) /\ Live' \subseteq Live
  BY DEF Sweeper, EvictFile, EvictRow, vars, Drain, DrainUpload, DrainCommit, DrainMark,
         DrainSpoolDone, Draining, Writing, Live
<1>2. StoreClose \/ ClaimForWriter \/ ClaimForDrain \/ (\E m \in Modes : Open(m)) =>
         UNCHANGED <<queue, batch, batchKey>> /\ (Writing' => Writing) /\ Live' \subseteq Live
  BY DEF StoreClose, ClaimForWriter, ClaimForDrain, Claim, Open, Writing, Live
<1>3. CloseDrained \/ CloseReported => NoWriter /\ ~Writing' /\ UNCHANGED <<Live, batchKey>>
  BY DEF CloseDrained, CloseReported, Writing, Live
<1>4. Trigger \/ StartClose => UNCHANGED <<Live, batchKey>>
  BY DEF Trigger, StartClose, Live
<1>5. Fault => \/ NoWriter /\ ~Writing' /\ UNCHANGED <<Live, batchKey>>
               \/ Working /\ GiveUp /\ UNCHANGED <<batch, batchKey, Live>>
               \/ SealAnswerLost \/ \E n \in 1..MaxInsert : InsertAnswerLost(n)
  BY DEF Fault, Crash, DrainFail, CloseExpired, Fail, CommitAnswerLost, At, Writing, Live
<1>6. Check \/ SpoolFile \/ SpoolRow \/ Upload \/ Commit \/ MarkSpooled =>
         UNCHANGED <<queue, batch, batchKey>> /\ (Writing' => Writing) /\ Live' \subseteq Live
  BY DEF Check, SpoolFile, SpoolRow, Upload, Commit, MarkSpooled, Writing, Live
<1>7. Prune => UNCHANGED <<queue, batch, batchKey>> /\ (Writing' => Writing) /\ Live' \subseteq Live
  BY DEF Prune, Writing, Live
<1>8. PrepareRefused \/ CommitConflict => Working /\ GiveUp /\ UNCHANGED <<batch, batchKey, Live>>
  BY DEF PrepareRefused, CommitConflict, At, Live
<1>9. Quarantine => \/ Working /\ GiveUp /\ UNCHANGED <<batch, batchKey, Live>>
                    \/ Finished /\ Live' \subseteq Live \ Current.rows /\ batchKey' = batchKey
  BY DEF Quarantine, At, Live, Marked
<1>10. (Seals => Live' = Live) /\ (Finish => UNCHANGED <<Live, batchKey>>)
  BY SealsHead DEF Finish, Live
<1> QED
  BY <1>1, <1>2, <1>3, <1>4, <1>5, <1>6, <1>7, <1>8, <1>9, <1>10
  DEF Next, Caller, Worker, Seals, Stages

LEMMA QueueOrderedStep ==
    ASSUME DistinctRecords, TypeOK, TypeOK', StagingInv, QueueInv, SealedFirst, QueueOrdered,
           OneSealed, AttemptOrdered, [Next]_vars
    PROVE  QueueOrdered'
<1>0. /\ queue \in Seq(Job) /\ queue' \in Seq(Job) /\ Len(queue) \in Nat
      /\ DOMAIN queue = 1..Len(queue) /\ \A i \in DOMAIN queue : queue[i] \in Job
      /\ unanswered \subseteq unanswered'
  BY UnansweredStays DEF TypeOK
<1>1. ASSUME DOMAIN queue' = DOMAIN queue, \A i \in DOMAIN queue : queue'[i].rows = queue[i].rows,
             batch' = batch, Writing' => Writing, Live' \subseteq Live,
             \A q \in Live' \ Known : batchKey'[q] = batchKey[q]
      PROVE  QueueOrdered'
  <2>1. \A i \in DOMAIN queue' : i + 0 \in DOMAIN queue /\ queue'[i].rows = queue[i + 0].rows
    <3>1. \A i \in DOMAIN queue : i + 0 = i
      BY <1>0
    <3> QED
      BY <1>1, <3>1
  <2> QED
    BY <1>0, <1>1, <2>1, OrderKeeps
<1>2. CASE UNCHANGED <<queue, batch, batchKey>> /\ (Writing' => Writing) /\ Live' \subseteq Live
  BY <1>1, <1>2
<1>3. CASE NoWriter /\ ~Writing'
  BY <1>3 DEF NoWriter, QueueOrdered
<1>4. CASE \E n \in 1..MaxInsert : Stages(n)
  <2> PICK n \in 1..MaxInsert : Stages(n)
    BY <1>4
  <2> DEFINE new == nextId..(nextId + n - 1)
  <2>1. /\ staged' = staged \cup new /\ quarantined' = quarantined /\ nextId \in Nat
        /\ Writing /\ nextId + n - 1 <= MaxRow /\ batchKey' = batchKey
    BY StagesRows DEF Writing
  <2>2. \/ SealInto(batch \cup new)
        \/ batch' = batch \cup new /\ UNCHANGED queue
        \/ UNCHANGED <<batch, queue>> /\ new \subseteq unanswered'
    BY DEF Stages, Insert, InsertAnswerLost, process
  <2>3. \A q \in new : q >= nextId /\ q \in Int
    BY <2>1
  <2>4. batch \cup new \in SUBSET Row
    BY <2>1, FlushPathAssumption DEF Row, TypeOK
  <2> HIDE DEF new
  <2>5. ASSUME NEW i \in DOMAIN queue, NEW r \in queue[i].rows, NEW q \in batch \cup new
        PROVE  r < q \/ q \in unanswered
    <3>1. r \in Nat /\ r < nextId
      <4>1. r \in Row /\ r < nextId
        BY <1>0, <2>5 DEF QueueInv, JobSound, Job
      <4> QED
        BY <4>1, FlushPathAssumption DEF Row
    <3>2. CASE q \in new
      BY <2>1, <2>3, <3>1, <3>2
    <3>3. CASE q \in batch
      BY <2>5, <3>3 DEF QueueOrdered
    <3> QED
      BY <3>2, <3>3
  <2>6. \A q \in Live' : \/ q \in new \cup Known
                         \/ q \in unanswered' /\ batchKey'[q] = NoKey
    BY <1>0, <2>1 DEF QueueOrdered, Live
  <2>7. CASE SealInto(batch \cup new)
    BY <1>0, <2>4, <2>5, <2>6, <2>7, OrderSeals DEF Known
  <2>8. CASE batch' = batch \cup new /\ UNCHANGED queue
    <3>1. Known' = new \cup Known
      BY <2>8 DEF Known
    <3>2. \A i, j \in DOMAIN queue' : i < j =>
              \A r \in queue'[i].rows, q \in queue'[j].rows : r < q \/ q \in unanswered'
      BY <1>0, <2>8 DEF QueueOrdered
    <3>3. \A i \in DOMAIN queue' : \A r \in queue'[i].rows, q \in batch' :
              r < q \/ q \in unanswered'
      BY <1>0, <2>5, <2>8
    <3> QED
      BY <2>6, <3>1, <3>2, <3>3 DEF QueueOrdered
  <2>9. CASE UNCHANGED <<batch, queue>> /\ new \subseteq unanswered'
    <3>1. \A q \in new : batchKey'[q] = NoKey
      BY <2>1, <2>3, <2>4 DEF StagingInv, FreshIds
    <3>2. Known' = Known
      BY <2>9 DEF Known
    <3>3. \A i, j \in DOMAIN queue' : i < j =>
              \A r \in queue'[i].rows, q \in queue'[j].rows : r < q \/ q \in unanswered'
      BY <1>0, <2>9 DEF QueueOrdered
    <3>4. \A i \in DOMAIN queue' : \A r \in queue'[i].rows, q \in batch' :
              r < q \/ q \in unanswered'
      BY <1>0, <2>9 DEF QueueOrdered
    <3> QED
      BY <2>6, <2>9, <3>1, <3>2, <3>3, <3>4 DEF QueueOrdered
  <2> QED
    BY <2>2, <2>7, <2>8, <2>9
<1>5. CASE (Trigger \/ StartClose) /\ UNCHANGED <<Live, batchKey>>
  <2>1. SealInto(batch) /\ batch \in SUBSET Row /\ Writing
    BY <1>5 DEF Trigger, StartClose, TypeOK, Writing
  <2>2. Live' = Live /\ batchKey' = batchKey
    BY <1>5
  <2>3. \A q \in Live' : \/ q \in batch \cup UNION {queue[i].rows : i \in DOMAIN queue}
                         \/ q \in unanswered' /\ batchKey'[q] = NoKey
    BY <1>0, <2>1, <2>2 DEF QueueOrdered, Known
  <2>4. \A i \in DOMAIN queue : \A r \in queue[i].rows, q \in batch : r < q \/ q \in unanswered
    BY DEF QueueOrdered
  <2> QED
    BY <1>0, <2>1, <2>3, <2>4, OrderSeals
<1>6. CASE StartWriter
  BY <1>6, ReplayOrdered
<1>7. CASE Seals /\ Live' = Live
  <2> PICK k0 : k0 = KeyOf(Current)
    OBVIOUS
  <2>1. queue # <<>> /\ batch' = batch /\ Writing
    BY <1>7, SealsHead DEF Working, Writing
  <2>2. \/ queue' = [queue EXCEPT ![1].key = k0]
        \/ queue' = [queue EXCEPT ![1].attempted = TRUE]
    BY <1>7, SealsHead DEF Seals, Prepare, SealAnswerLost, GiveUp
  <2>3. /\ DOMAIN queue' = DOMAIN queue
        /\ \A i \in DOMAIN queue : queue'[i].rows = queue[i].rows
    <3>1. 1 \in DOMAIN queue
      BY <2>1, HeadSound
    <3>2. CASE queue' = [queue EXCEPT ![1].key = k0]
      BY <1>0, <3>1, <3>2 DEF Job
    <3>3. CASE queue' = [queue EXCEPT ![1].attempted = TRUE]
      BY <1>0, <3>1, <3>3 DEF Job
    <3> QED
      BY <2>2, <3>2, <3>3
  <2>4. \A q \in Live' \ Known : batchKey'[q] = batchKey[q]
    <3>1. \A r \in Row : r \in Current.rows \/ batchKey'[r] = batchKey[r]
      BY <1>7, Stamps
    <3>2. Current.rows \subseteq Known
      BY <2>1, HeadSound DEF Known
    <3> QED
      BY <1>7, <3>1, <3>2 DEF Live, TypeOK
  <2> QED
    BY <1>1, <1>7, <2>1, <2>3, <2>4
<1>8. CASE Working /\ GiveUp /\ UNCHANGED <<batch, batchKey, Live>>
  <2>1. queue # <<>> /\ queue' = [queue EXCEPT ![1].attempted = TRUE] /\ Writing
    BY <1>8 DEF GiveUp, Working, Writing
  <2>2. /\ DOMAIN queue' = DOMAIN queue
        /\ \A i \in DOMAIN queue : queue'[i].rows = queue[i].rows
    BY <1>0, <2>1 DEF Job
  <2> QED
    BY <1>1, <1>8, <2>1, <2>2
<1>9. ASSUME Working, Finished, UNCHANGED <<batch, batchKey>>, Live' \subseteq Live,
             Live' \cap Current.rows = {}
      PROVE  QueueOrdered'
  <2>1. queue # <<>> /\ queue' = Tail(queue) /\ Writing /\ Current = queue[1]
    BY <1>9, HeadSound DEF Finished, Working, Writing
  <2>2. \A i \in DOMAIN queue' : i + 1 \in DOMAIN queue /\ queue'[i] = queue[i + 1]
    BY <1>0, <2>1
  <2>3. \A i \in DOMAIN queue : i # 1 => i - 1 \in DOMAIN queue' /\ queue'[i - 1] = queue[i]
    BY <1>0, <2>1
  <2>4. \A i \in DOMAIN queue : \/ i = 1 /\ queue[i].rows \cap Live' = {}
                                \/ \E k \in DOMAIN queue' : queue'[k].rows = queue[i].rows
    BY <1>9, <2>1, <2>3
  <2> QED
    BY <1>0, <1>9, <2>1, <2>2, <2>4, OrderKeeps
<1>10. CASE Finish /\ UNCHANGED <<Live, batchKey>>
  <2>1. Working /\ Finished /\ batch' = batch /\ pc = "schemas"
    BY <1>10 DEF Finish, At
  <2> QED
    BY <1>9, <1>10, <2>1 DEF AttemptOrdered, Live
<1>11. CASE Quarantine /\ Finished /\ Live' \subseteq Live \ Current.rows /\ batchKey' = batchKey
  <2>1. Working /\ batch' = batch
    BY <1>11 DEF Quarantine, At
  <2> QED
    BY <1>9, <1>11, <2>1
<1> QED
  BY <1>2, <1>3, <1>4, <1>5, <1>6, <1>7, <1>8, <1>10, <1>11, OrderFrame

\* While one batch is sealed and live, what follows it is not sealed, whoever
\* knows of it.
LEMMA OneSealedStep ==
    ASSUME DistinctRecords, TypeOK, TypeOK', CeilingInv, StagingInv, QueueInv, SealedFirst,
           QueueOrdered, OneSealed, [Next]_vars
    PROVE  OneSealed'
<1>0. /\ queue \in Seq(Job) /\ queue' \in Seq(Job) /\ Len(queue) \in Nat
      /\ DOMAIN queue = 1..Len(queue) /\ \A i \in DOMAIN queue : queue[i] \in Job
  BY DEF TypeOK
<1>1. ASSUME UNCHANGED batchKey, \A q \in Live' : q \in Live \/ batchKey[q] = NoKey,
             \A i \in DOMAIN queue' : i # 1 => queue'[i].key = NoKey
      PROVE  OneSealed'
  BY <1>1 DEF OneSealed
<1>2. CASE UNCHANGED <<queue, batch, batchKey>> /\ Live' \subseteq Live
  BY <1>1, <1>2 DEF OneSealed
<1>3. CASE NoWriter /\ UNCHANGED <<Live, batchKey>>
  BY <1>1, <1>3 DEF NoWriter
<1>4. ASSUME NEW S, SealInto(S) PROVE \A i \in DOMAIN queue' : i # 1 => queue'[i].key = NoKey
  <2>1. CASE queue' = queue
    BY <2>1 DEF OneSealed
  <2>2. CASE queue' = Append(queue, NewJob(S))
    BY <1>0, <2>2 DEF OneSealed, NewJob
  <2> QED
    BY <1>4, <2>1, <2>2 DEF SealInto
<1>5. CASE \E n \in 1..MaxInsert : Stages(n)
  <2> PICK n \in 1..MaxInsert : Stages(n)
    BY <1>5
  <2>1. /\ staged' = staged \cup (nextId..(nextId + n - 1)) /\ UNCHANGED <<batchKey, quarantined>>
        /\ nextId \in Nat
    BY StagesRows
  <2>2. \A q \in Live' : q \in Live \/ batchKey[q] = NoKey
    BY <2>1 DEF Live, StagingInv, FreshIds, TypeOK
  <2>3. (\E S : SealInto(S)) \/ queue' = queue
    BY DEF Stages, Insert, InsertAnswerLost, process
  <2> QED
    BY <1>1, <1>4, <2>1, <2>2, <2>3 DEF OneSealed
<1>6. CASE (Trigger \/ StartClose) /\ UNCHANGED <<Live, batchKey>>
  BY <1>1, <1>4, <1>6 DEF Trigger, StartClose
<1>7. CASE StartWriter
  <2>1. Len(queue') <= 1 /\ batchKey' = batchKey /\ Live' = Live
    BY <1>7, ReplayOrdered DEF StartWriter, Live, staging
  <2>2. \A i \in DOMAIN queue' : i = 1
    BY <1>0, <2>1
  <2> QED
    BY <1>1, <2>1, <2>2
<1>8. CASE Seals /\ Live' = Live
  <2> PICK k0 : k0 = KeyOf(Current)
    OBVIOUS
  <2>1. /\ queue # <<>> /\ batch' = batch /\ Writing /\ Sealable(Current) /\ SealRows(Current)
        /\ queue' = [queue EXCEPT ![1].key = k0] \/ queue' = [queue EXCEPT ![1].attempted = TRUE]
    BY <1>8, SealsHead DEF Seals, Prepare, SealAnswerLost, GiveUp, Working, Writing
  <2>2. 1 \in DOMAIN queue /\ Current = queue[1] /\ Current \in Job
    BY <2>1, HeadSound
  <2>3. DOMAIN queue' = DOMAIN queue /\ \A i \in DOMAIN queue : i # 1 => queue'[i] = queue[i]
    BY <1>0, <2>1
  <2>4. CASE Current.key # NoKey
    BY <1>1, <1>8, <2>1, <2>3, <2>4 DEF SealRows, OneSealed
  <2>5. CASE Current.key = NoKey
    <3>1. ASSUME NEW q \in Live, q \notin Current.rows PROVE batchKey[q] = NoKey
      <4>1. CASE q \in batch \/ q \notin Known
        BY <2>1, <4>1 DEF QueueInv, QueueOrdered
      <4>2. CASE \E i \in DOMAIN queue : q \in queue[i].rows
        <5>1. PICK i \in DOMAIN queue : q \in queue[i].rows
          BY <4>2
        <5>2. i # 1 /\ queue[i].key = NoKey
          BY <2>2, <3>1, <5>1 DEF OneSealed
        <5> QED
          BY <5>1, <5>2 DEF QueueInv, JobSound
      <4> QED
        BY <4>1, <4>2 DEF Known
    <3>2. /\ Members(k0)' = Current.rows
          /\ \A r \in Row : r \in Current.rows \/ batchKey'[r] = batchKey[r]
      BY <1>8, Stamps
    <3>3. Live \subseteq Row
      BY DEF Live, TypeOK
    <3> HIDE DEF Live
    <3>4. \A q \in Live : batchKey'[q] # NoKey => batchKey'[q] = k0
      BY <3>1, <3>2, <3>3 DEF Members
    <3> QED
      BY <1>8, <2>3, <3>4 DEF OneSealed
  <2> QED
    BY <2>4, <2>5
<1>9. CASE Working /\ GiveUp /\ UNCHANGED <<batchKey, Live>>
  <2>1. queue # <<>> /\ queue' = [queue EXCEPT ![1].attempted = TRUE]
    BY <1>9 DEF GiveUp, Working
  <2>2. DOMAIN queue' = DOMAIN queue /\ \A i \in DOMAIN queue : i # 1 => queue'[i] = queue[i]
    BY <1>0, <2>1
  <2> QED
    BY <1>1, <1>9, <2>2 DEF OneSealed
<1>10. CASE Finished /\ queue # <<>> /\ Live' \subseteq Live /\ batchKey' = batchKey
  <2>1. \A i \in DOMAIN queue' : i \in Nat \ {0} /\ i + 1 \in DOMAIN queue /\ queue'[i] = queue[i + 1]
    BY <1>0, <1>10 DEF Finished
  <2>2. \A i \in DOMAIN queue' : queue'[i].key = NoKey
    <3>1. \A i \in DOMAIN queue' : i + 1 # 1
      BY <2>1
    <3> QED
      BY <2>1, <3>1 DEF OneSealed
  <2> QED
    BY <1>1, <1>10, <2>2
<1>11. Quarantine \/ Finish => queue # <<>>
  BY DEF Quarantine, Finish, At, Working
<1> QED
  BY <1>2, <1>3, <1>5, <1>6, <1>7, <1>8, <1>9, <1>10, <1>11, OrderFrame DEF Finish

(***************************************************************************)
(* The spool's rows, the attempt and the drain.                            *)
(***************************************************************************)

\* The spool clock moves only with a new row.
LEMMA ClockFrame == [Next]_vars => clock' = clock \/ SpoolRow
<1> USE DEF staging, spool, lake, process, bounds
<1>1. Drain \/ Sweeper \/ Fault => clock' = clock
  BY DEF Drain, DrainUpload, DrainCommit, DrainMark, DrainSpoolDone, Sweeper, EvictFile, EvictRow,
         Fault, Crash, DrainFail, CloseExpired, CommitAnswerLost, Fail, SealAnswerLost, InsertAnswerLost
<1>2. Caller => clock' = clock
  BY DEF Caller, StoreClose, ClaimForWriter, ClaimForDrain, Claim, Open, Trigger, StartWriter,
         StartClose, CloseDrained, CloseReported, Insert
<1>3. Worker => clock' = clock \/ SpoolRow
  BY DEF Worker, Prepare, PrepareRefused, Check, Quarantine, SpoolFile, Upload, Commit,
         CommitConflict, MarkSpooled, Prune, Finish
<1> QED
  BY <1>1, <1>2, <1>3 DEF Next, vars

\* A spool row names a batch.
LEMMA SpoolRowsName ==
    ASSUME TypeOK, LakeInv, SpoolInv, NEW s \in spoolRow
    PROVE  s.key # NoKey /\ Members(s.key) # {}
<1>1. CASE s.committed
  <2>1. PICK i \in 1..Len(log) : log[i].key = s.key
    BY <1>1 DEF SpoolInv, Committed
  <2>2. i \in DOMAIN log
    BY <2>1 DEF TypeOK
  <2> QED
    BY <2>1, <2>2 DEF LakeInv, KeysTell, IsBatch
<1>2. CASE ~s.committed
  BY <1>2 DEF SpoolInv, BacklogFilesPresent, LakeInv, KeysTell, IsBatch
<1> QED
  BY <1>1, <1>2

\* The records of a batch are those it was sealed with.
LEMMA MembersStand ==
    ASSUME DistinctRecords, TypeOK, StagingInv, QueueInv, [Next]_vars
    PROVE  \A k : k # NoKey /\ Members(k) # {} => Members(k)' = Members(k)
<1>1. CASE Seals
  BY <1>1, Stamps
<1>2. CASE batchKey' = batchKey
  BY <1>2 DEF Members
<1> QED
  BY <1>1, <1>2, StagingFrame, StagesRows DEF Quarantine, Prune, staging

LEMMA SpoolOrderedStep ==
    ASSUME DistinctRecords, TypeOK, TypeOK', CeilingInv, FlushInv, SealedFirst, SpoolOrdered,
           [Next]_vars
    PROVE  SpoolOrdered'
<1> USE DEF FlushInv
<1>6. unanswered \subseteq unanswered'
  BY UnansweredStays
<1>0. \A s \in spoolRow : s.at \in Nat /\ s.key # NoKey /\ Members(s.key) # {}
                          /\ Members(s.key)' = Members(s.key)
  <2> SUFFICES ASSUME NEW s \in spoolRow
               PROVE  s.at \in Nat /\ s.key # NoKey /\ Members(s.key) # {}
                      /\ Members(s.key)' = Members(s.key)
    OBVIOUS
  <2>1. s.at \in Nat
    BY DEF TypeOK, SpoolRows
  <2> PICK k0 : k0 = s.key
    OBVIOUS
  <2>2. s.key # NoKey /\ Members(s.key) # {}
    BY SpoolRowsName
  <2>3. Members(k0)' = Members(k0)
    BY <2>2, MembersStand
  <2> QED
    BY <2>1, <2>2, <2>3
<1>1. ASSUME clock' = clock,
             \A t \in spoolRow' : \E s \in spoolRow : t.key = s.key /\ t.at = s.at
      PROVE  SpoolOrdered'
  <2>1. \A s \in spoolRow' : s.at < clock'
    BY <1>1 DEF SpoolOrdered
  <2>2. ASSUME NEW s \in spoolRow', NEW t \in spoolRow', s.at < t.at,
               NEW r \in Members(s.key)', NEW q \in Members(t.key)'
        PROVE  r < q \/ q \in unanswered'
    <3>1. PICK u \in spoolRow : s.key = u.key /\ s.at = u.at
      BY <1>1
    <3>2. PICK v \in spoolRow : t.key = v.key /\ t.at = v.at
      BY <1>1
    <3>3. Members(s.key)' = Members(u.key) /\ Members(t.key)' = Members(v.key)
      BY <1>0, <3>1, <3>2 DEF Members
    <3> QED
      BY <1>6, <2>2, <3>1, <3>2, <3>3 DEF SpoolOrdered
  <2> QED
    BY <2>1, <2>2 DEF SpoolOrdered
<1>2. CASE SpoolRow /\ ~UNCHANGED spoolRow
  <2>1. /\ \A s \in spoolRow : s.key # Current.key
        /\ Working /\ pc = "spoolrow" /\ UNCHANGED <<batchKey, nextId>>
    BY <1>2 DEF SpoolRow, At, staging
  <2>2. PICK at \in CreatedAt :
           /\ spoolRow' = spoolRow \cup {[key |-> Current.key, at |-> at, committed |-> FALSE]}
           /\ clock' = at + 1
    BY <1>2 DEF SpoolRow
  <2> DEFINE u == [key |-> Current.key, at |-> at, committed |-> FALSE]
  <2>3. u.key = Current.key /\ u.at = at /\ spoolRow' = spoolRow \cup {u}
    BY <2>2
  <2> HIDE DEF u
  <2>4. /\ clock \in Nat /\ at \in Nat /\ clock <= at + 1
        /\ at = clock \/ at = clock - 1
    BY <1>0 DEF CreatedAt, TypeOK
  <2>5. \A s \in spoolRow : s.at <= at
    <3> SUFFICES ASSUME NEW s \in spoolRow PROVE s.at <= at
      OBVIOUS
    <3>1. s.at \in Nat /\ s.at < clock
      BY <1>0 DEF SpoolOrdered
    <3> QED
      BY <2>4, <3>1
  <2>6. \A s \in spoolRow' : s.at < clock'
    <3> SUFFICES ASSUME NEW s \in spoolRow' PROVE s.at <= at /\ s.at \in Nat
      BY <2>2, <2>4
    <3> QED
      BY <1>0, <2>3, <2>4, <2>5
  <2>7. Current.key # NoKey /\ Encodes(Current) /\ Current.rows \subseteq staged
        /\ Current.rows = Members(Current.key)
    BY <2>1, HeadSound DEF AttemptInv, CeilingInv, AttemptHasRows, JobSound, Working
  <2>8. Current.rows \subseteq Live
    BY <2>7 DEF Live, StagingInv, QuarantinedBad, Members, Encodes
  <2>9. ASSUME NEW s \in spoolRow, NEW r \in Members(s.key), NEW q \in Members(Current.key)
        PROVE  r < q \/ q \in unanswered
    <3>1. r \in Row /\ q \in Live /\ batchKey[r] = s.key /\ batchKey[q] = Current.key
      BY <2>7, <2>8, <2>9 DEF Members
    <3>2. batchKey[r] # NoKey /\ batchKey[r] # batchKey[q]
      BY <1>0, <2>1, <3>1
    <3>3. r < nextId
      <4>1. r \in Nat /\ nextId \in Nat
        BY <3>1, FlushPathAssumption DEF TypeOK, Row
      <4> QED
        BY <3>1, <3>2, <4>1 DEF StagingInv, FreshIds
    <3> QED
      BY <3>1, <3>2, <3>3 DEF SealedFirst
  <2>10. ASSUME NEW s \in spoolRow', NEW t \in spoolRow', s.at < t.at,
                NEW r \in Members(s.key), NEW q \in Members(t.key)
         PROVE  r < q \/ q \in unanswered
    <3>1. CASE s \in spoolRow /\ t \in spoolRow
      BY <2>10, <3>1 DEF SpoolOrdered
    <3>2. CASE s \in spoolRow /\ t = u
      BY <2>3, <2>9, <2>10, <3>2
    <3>3. CASE s = u
      <4>1. t.at \in Nat /\ t.at <= at
        BY <1>0, <2>3, <2>4, <2>5
      <4> QED
        BY <2>3, <2>4, <2>10, <3>3, <4>1
    <3> QED
      BY <2>3, <3>1, <3>2, <3>3
  <2> QED
    BY <1>6, <2>1, <2>6, <2>10 DEF SpoolOrdered, Members
<1>3. CASE SpoolRow /\ UNCHANGED spoolRow
  <2>1. UNCHANGED clock
    <3>1. CASE \E s \in spoolRow : s.key = Current.key
      BY <1>3, <3>1 DEF SpoolRow
    <3>2. CASE ~\E s \in spoolRow : s.key = Current.key
      <4>1. PICK at : [key |-> Current.key, at |-> at, committed |-> FALSE] \in spoolRow'
        BY <1>3, <3>2 DEF SpoolRow
      <4> QED
        BY <1>3, <3>2, <4>1
    <3> QED
      BY <3>1, <3>2
  <2> QED
    BY <1>1, <1>3, <2>1
<1>4. CASE DrainMark \/ MarkSpooled
  <2>1. clock' = clock /\ (spoolRow' = spoolRow \/ \E k : Mark(k))
    BY <1>4 DEF DrainMark, MarkSpooled
  <2> QED
    BY <1>1, <2>1, Marks
<1>5. CASE /\ clock' = clock
           /\ \/ spoolRow' = spoolRow
              \/ \E s \in spoolRow : s.committed /\ spoolRow' = spoolRow \ {s}
  BY <1>1, <1>5
<1> QED
  BY <1>2, <1>3, <1>4, <1>5, SpoolFrame, ClockFrame

LEMMA AttemptOrderedStep ==
    ASSUME TypeOK, TypeOK', CeilingInv, FlushInv, AttemptOrdered, [Next]_vars
    PROVE  AttemptOrdered'
<1> USE DEF FlushInv
<1> USE DEF staging, spool, lake, process, bounds
<1>0. /\ Len(log) \in Nat /\ PlaceKept /\ Charged
      /\ \A k : Committed(k, Len(log)) => Committed(k, Len(log))'
  BY CommitsLast DEF CeilingInv
<1>1. pc' \notin {"prune", "schemas"} \/ ~Working' => AttemptOrdered'
  BY DEF AttemptOrdered
<1>2. CASE Prune
  <2>1. pc' = "schemas" /\ queue' = queue /\ staged' = staged \ Current.rows
    BY <1>2 DEF Prune
  <2> QED
    BY <2>1 DEF AttemptOrdered, Current
<1>3. CASE MarkSpooled
  <2>1. /\ Working /\ pc = "mark" /\ UNCHANGED <<queue, mode, log>> /\ pc' = "prune"
        /\ base \in Nat /\ base <= Len(log)
    BY <1>3 DEF MarkSpooled, At, HandleInv, Working, TypeOK
  <2>2. Committed(Current.key, Len(log))
    BY <1>0, <2>1 DEF AttemptInv, Committed
  <2> QED
    BY <2>1, <2>2 DEF AttemptOrdered, Committed, Current
<1>4. CASE SpoolRow
  <2>1. UNCHANGED <<queue, mode>> /\ pc' = IF mode = "local" THEN "prune" ELSE "upload"
    BY <1>4 DEF SpoolRow
  <2> QED
    BY <2>1 DEF AttemptOrdered
<1>5. CASE Worker /\ ~Prune /\ ~MarkSpooled /\ ~SpoolRow
  <2>1. pc' \notin {"prune", "schemas"}
    BY <1>5 DEF Worker, Prepare, PrepareRefused, Check, Quarantine, SpoolFile, Upload, Commit,
       CommitConflict, Finish, GiveUp, Finished
  <2> QED
    BY <1>1, <2>1
<1>6. CASE Fault /\ ~\E n \in 1..MaxInsert : InsertAnswerLost(n)
  BY <1>1, <1>6 DEF Fault, Crash, DrainFail, CloseExpired, CommitAnswerLost, Fail, SealAnswerLost,
     NoWriter, GiveUp
<1>7. CASE Drain \/ StoreClose \/ ClaimForWriter \/ ClaimForDrain \/ CloseDrained \/ CloseReported
           \/ \E m \in Modes : Open(m)
  <2>1. owner' \in {"none", "opening", "draining"}
    BY <1>0, <1>7 DEF Drain, DrainUpload, DrainCommit, DrainMark, DrainSpoolDone, Draining, StoreClose,
       ClaimForWriter, ClaimForDrain, Claim, CloseDrained, CloseReported, Open, Charged
  <2> QED
    BY <1>1, <2>1 DEF Working
<1>8. CASE StartWriter
  <2>1. pc' = "idle"
    BY <1>0, <1>8 DEF StartWriter, Draining, PlaceKept
  <2> QED
    BY <1>1, <2>1
<1>9. ASSUME UNCHANGED <<pc, mode, log>>, Working' /\ pc # "idle" => Working /\ Current' = Current,
             \A r \in staged' : r \in staged \/ r >= nextId
      PROVE  AttemptOrdered'
  <2>1. ASSUME Working, NEW r \in Current.rows PROVE r < nextId /\ r \in Nat /\ nextId \in Nat
    <3>1. r \in Row /\ r < nextId
      BY <2>1, HeadSound DEF JobSound, Job, Working
    <3> QED
      BY <3>1, FlushPathAssumption DEF Row, TypeOK
  <2>2. ASSUME Working, NEW r \in Current.rows, r \in staged' PROVE r \in staged
    BY <1>9, <2>1, <2>2
  <2> QED
    BY <1>0, <1>9, <2>2 DEF AttemptOrdered, Committed
<1>10. CASE (\E n \in 1..MaxInsert : Stages(n)) \/ Trigger \/ StartClose
  <2>1. /\ owner = "writer" /\ UNCHANGED <<pc, mode, log>>
        /\ queue # <<>> => queue' # <<>> /\ Head(queue') = Head(queue)
    BY <1>10, SealKeepsHead DEF Stages, Insert, InsertAnswerLost, Trigger, StartClose, TypeOK
  <2>2. \A r \in staged' : r \in staged \/ r >= nextId
    <3>1. CASE \E n \in 1..MaxInsert : Stages(n)
      <4> PICK n \in 1..MaxInsert : Stages(n)
        BY <3>1
      <4>1. staged' = staged \cup (nextId..(nextId + n - 1)) /\ nextId \in Nat
        BY StagesRows
      <4> QED
        BY <4>1
    <3>2. CASE Trigger \/ StartClose
      BY <3>2 DEF Trigger, StartClose
    <3> QED
      BY <1>10, <3>1, <3>2
  <2> QED
    BY <1>0, <1>9, <2>1, <2>2 DEF PlaceKept, Working, Current
<1>11. CASE Sweeper \/ UNCHANGED vars
  <2>1. UNCHANGED <<process, staged, log>>
    BY <1>11 DEF Sweeper, EvictFile, EvictRow, vars
  <2> QED
    BY <1>9, <2>1 DEF Working, Current
<1> QED
  BY <1>2, <1>3, <1>4, <1>5, <1>6, <1>7, <1>8, <1>10, <1>11 DEF Next, Caller, Stages

LEMMA BacklogDrainedStep ==
    ASSUME TypeOK, TypeOK', CeilingInv, FlushInv, AttemptOrdered, BacklogDrained, [Next]_vars
    PROVE  BacklogDrained'
<1> USE DEF FlushInv
<1> SUFFICES ASSUME Writing', mode' = "spooled"
             PROVE  Spooled' \subseteq staged' \cup Delivered'
  BY DEF BacklogDrained
<1>1. CASE StartWriter
  <2>1. /\ mode = "spooled" /\ Backlog = {} /\ UNCHANGED <<staging, file, spoolRow, log>>
        /\ Spooled' = Spooled /\ staged' = staged
    BY <1>1, SpooledFrame DEF StartWriter, spool, lake, staging
  <2>2. ASSUME NEW q \in Spooled PROVE q \in staged
    <3>1. PICK f \in file, s \in spoolRow : q \in f.rows /\ s.key = f.key /\ ~s.committed
      BY <2>2, SpooledIs DEF Uncommitted
    <3>2. f.key \in StagedKeys
      BY <2>1, <3>1 DEF Backlog
    <3>3. PICK r \in staged : batchKey[r] = f.key /\ f.key # NoKey
      BY <3>2 DEF StagedKeys
    <3>4. q \in Row /\ batchKey[q] = f.key
      BY <3>1 DEF LakeInv, KeysTell, IsBatch, Members
    <3> QED
      BY <3>3, <3>4 DEF StagingInv, PrunedWhole, TypeOK
  <2> QED
    BY <2>1, <2>2
<1>2. CASE Writing /\ mode' = mode
  <2>1. Spooled' \subseteq staged \cup Delivered
    BY <1>2, SpooledWasStaged DEF BacklogDrained
  <2>2. staged \subseteq staged' \cup Delivered
    <3>1. CASE Prune
      <4>1. Working /\ pc = "prune" /\ staged' = staged \ Current.rows
        BY <3>1 DEF Prune, At
      <4>2. Committed(Current.key, Len(log)) /\ Current.rows = Members(Current.key)
        BY <1>2, <4>1, HeadSound DEF AttemptOrdered, Working, AttemptInv, JobSound
      <4> QED
        BY <4>1, <4>2, CommittedIsDelivered
    <3> QED
      BY <3>1, StagingFrame, StagesRows, SealsHead DEF Quarantine, staging
  <2>3. Delivered \subseteq Delivered'
    BY LogFrame, DeliveredGrows, JobIsFile DEF At, TypeOK
  <2> QED
    BY <2>1, <2>2, <2>3
<1>3. StartWriter \/ (Writing /\ mode' = mode)
  <2> USE DEF staging, spool, lake, process, bounds
  <2>1. Worker \/ Sweeper \/ UNCHANGED vars => mode' = mode /\ (Writing' => Writing)
    BY DEF Worker, Prepare, PrepareRefused, Check, Quarantine, SpoolFile, SpoolRow, Upload, Commit,
       CommitConflict, MarkSpooled, Prune, Finish, Sweeper, EvictFile, EvictRow, vars, Writing
  <2>2. Drain \/ Fault => ~Writing' \/ (Writing /\ mode' = mode)
    BY DEF Drain, DrainUpload, DrainCommit, DrainMark, DrainSpoolDone, Draining, Fault, Crash,
       DrainFail, CloseExpired, CommitAnswerLost, Fail, SealAnswerLost, InsertAnswerLost, At, Working,
       Writing
  <2>3. Caller => StartWriter \/ ~Writing' \/ (Writing /\ mode' = mode)
    BY DEF CeilingInv, Charged, Caller, StoreClose, ClaimForWriter, ClaimForDrain, Claim, Open,
       Trigger, StartClose, CloseDrained, CloseReported, Insert, Writing
  <2> QED
    BY <2>1, <2>2, <2>3 DEF Next
<1> QED
  BY <1>1, <1>2, <1>3

LEMMA DrainOrderedStep ==
    ASSUME TypeOK, CeilingInv, DrainOrdered, [Next]_vars
    PROVE  DrainOrdered'
<1> USE DEF staging, spool, lake, process, bounds
<1>0. PlaceKept /\ Charged
  BY DEF CeilingInv
<1>1. CASE ClaimForWriter \/ ClaimForDrain
  BY <1>0, <1>1 DEF ClaimForWriter, ClaimForDrain, Claim, PlaceKept, DrainOrdered
<1>2. CASE DrainUpload
  <2>1. /\ UNCHANGED <<mode, spoolRow, staging>>
        /\ \E s \in Oldest(Backlog) : drainKey' = s.key
    BY <1>2 DEF DrainUpload
  <2>2. Backlog' = Backlog
    BY <2>1 DEF Backlog, StagedKeys
  <2> QED
    BY <2>1, <2>2 DEF DrainOrdered, Oldest
<1>3. CASE DrainCommit
  <2>1. UNCHANGED <<mode, spoolRow, staging, drainKey, owner>>
    BY <1>3 DEF DrainCommit
  <2>2. Backlog' = Backlog
    BY <2>1 DEF Backlog, StagedKeys
  <2> QED
    BY <2>1, <2>2 DEF DrainOrdered, Oldest, Draining
<1>4. CASE DrainMark
  BY <1>4 DEF DrainMark, DrainOrdered
<1>5. CASE Sweeper \/ UNCHANGED vars
  <2>1. /\ UNCHANGED <<mode, staging, drainKey, owner>>
        /\ \/ spoolRow' = spoolRow
           \/ \E s \in spoolRow : s.committed /\ spoolRow' = spoolRow \ {s}
    BY <1>5 DEF Sweeper, EvictFile, EvictRow, Evictable, vars
  <2>2. Backlog' = Backlog
    BY <2>1 DEF Backlog, StagedKeys
  <2> QED
    BY <2>1, <2>2 DEF DrainOrdered, Oldest, Draining
<1>6. CASE Worker \/ Fault \/ DrainSpoolDone
           \/ (Caller /\ ~ClaimForWriter /\ ~ClaimForDrain)
  <2>1. owner' \notin {"opening", "draining"}
    BY <1>0, <1>6 DEF Worker, Prepare, PrepareRefused, Check, Quarantine, SpoolFile, SpoolRow, Upload,
       Commit, CommitConflict, MarkSpooled, Prune, Finish, At, Working, Fault, Crash, DrainFail,
       CloseExpired, CommitAnswerLost, Fail, SealAnswerLost, InsertAnswerLost, DrainSpoolDone, Caller,
       StoreClose, Open, Trigger, StartWriter, StartClose, CloseDrained, CloseReported, Insert, Charged
  <2> QED
    BY <2>1 DEF DrainOrdered, Draining
<1> QED
  BY <1>1, <1>2, <1>3, <1>4, <1>5, <1>6 DEF Next, Drain

(***************************************************************************)
(* The invariant over every behaviour.                                     *)
(***************************************************************************)

LEMMA OrderInit == Init => OrderInv
<1> SUFFICES ASSUME Init PROVE OrderInv
  OBVIOUS
<1>1. SealedFirst /\ QueueOrdered /\ OneSealed
  BY DEF Init, SealedFirst, QueueOrdered, OneSealed, Live, Writing
<1>2. SpoolOrdered /\ AttemptOrdered /\ BacklogDrained /\ DrainOrdered
  BY DEF Init, SpoolOrdered, AttemptOrdered, BacklogDrained, DrainOrdered, Working, Writing, Draining
<1> QED
  BY <1>1, <1>2 DEF OrderInv

LEMMA OrderStep ==
    ASSUME DistinctRecords
    PROVE  TypeOK /\ CeilingInv /\ FlushInv /\ OrderInv /\ [Next]_vars => OrderInv'
<1> SUFFICES ASSUME TypeOK, CeilingInv, FlushInv, OrderInv, [Next]_vars PROVE OrderInv'
  OBVIOUS
<1>0. TypeOK'
  BY TypeStep
<1> USE DEF OrderInv
<1>1. SealedFirst' /\ QueueOrdered' /\ OneSealed'
  BY <1>0, SealedFirstStep, QueueOrderedStep, OneSealedStep DEF FlushInv
<1>2. SpoolOrdered' /\ AttemptOrdered'
  BY <1>0, SpoolOrderedStep, AttemptOrderedStep
<1>3. BacklogDrained' /\ DrainOrdered'
  BY <1>0, BacklogDrainedStep, DrainOrderedStep
<1> QED
  BY <1>1, <1>2, <1>3

LEMMA OrderInvHolds ==
    ASSUME DistinctRecords
    PROVE  Spec => [](TypeOK /\ CeilingInv /\ FlushInv /\ OrderInv)
<1>1. Init => TypeOK /\ CeilingInv /\ FlushInv /\ OrderInv
  BY TypeInit, CeilingInit, FlushInit, OrderInit
<1>2. TypeOK /\ CeilingInv /\ FlushInv /\ OrderInv /\ [Next]_vars
         => (TypeOK /\ CeilingInv /\ FlushInv /\ OrderInv)'
  BY TypeStep, CeilingStep, FlushStep, OrderStep
<1> QED
  BY <1>1, <1>2, PTL DEF Spec

(***************************************************************************)
(* The two orders.                                                         *)
(***************************************************************************)

\* A worker commits the earliest live batch; what is earlier and not in the
\* table is quarantined, unknown to its writer, or was pruned by a process
\* without a bucket.
LEMMA WorkerInOrder ==
    ASSUME TypeOK, CeilingInv, FlushInv, OrderInv, At("commit"),
           NEW r \in Current.rows, NEW q \in Row, q < r
    PROVE  q \in Delivered \cup Current.rows \cup quarantined \cup unanswered
                 \cup (IF mode = "bucket" THEN Spooled \ staged ELSE {})
<1> USE DEF FlushInv, OrderInv
<1>1. Working /\ Writing /\ Modes \subseteq {"bucket", "spooled", "local"}
      /\ mode \in {"bucket", "spooled"} /\ 1 \in DOMAIN queue /\ Current = queue[1] /\ JobSound(1)
      /\ Current \in Job /\ DOMAIN queue = 1..Len(queue)
  BY HeadSound, FlushPathAssumption DEF At, Working, Writing, AttemptInv, CeilingInv, Charged, TypeOK
<1>2. q \in Nat /\ r \in Nat /\ nextId \in Nat /\ r < nextId
  BY <1>1, FlushPathAssumption DEF TypeOK, Row, JobSound, Job
<1>3. q \in 1..(nextId - 1)
  BY <1>2, FlushPathAssumption DEF Row
<1>4. q \in staged \cup Delivered \cup Spooled
  BY <1>3 DEF NoRecordLost
<1>5. CASE q \in staged \ quarantined
  <2>1. CASE q \in batch
    BY <1>1, <1>2, <2>1 DEF QueueOrdered
  <2>2. CASE \E i \in DOMAIN queue : q \in queue[i].rows
    <3>1. PICK i \in DOMAIN queue : q \in queue[i].rows
      BY <2>2
    <3>2. i = 1 \/ 1 < i
      BY <1>1, <3>1
    <3> QED
      BY <1>1, <1>2, <3>1, <3>2 DEF QueueOrdered
  <2> QED
    BY <1>1, <1>5, <2>1, <2>2 DEF QueueOrdered, Known, Live
<1>6. CASE q \in Spooled \ staged
  BY <1>1, <1>6 DEF BacklogDrained
<1> QED
  BY <1>4, <1>5, <1>6

\* A drain commits the oldest file of the backlog; what is earlier and not in
\* the table is quarantined or in a file of the same millisecond.
LEMMA DrainInOrder ==
    ASSUME TypeOK, CeilingInv, FlushInv, OrderInv, Draining, drainKey # NoKey,
           NEW f \in file, f.key = drainKey, NEW r \in f.rows, NEW q \in Row, q < r
    PROVE  q \in Delivered \cup f.rows \cup quarantined \cup unanswered \cup SpooledWith(r)
<1> USE DEF FlushInv, OrderInv
<1>1. PICK s \in Oldest(Backlog) : s.key = drainKey
  BY DEF DrainOrdered
<1>2. /\ s \in spoolRow /\ s.key \notin StagedKeys
      /\ \A t \in Backlog : s.at <= t.at /\ s.at \in Nat /\ t.at \in Nat
      /\ mode = "spooled"
  BY <1>1 DEF Oldest, Backlog, TypeOK, SpoolRows
<1>3. IsBatch(f) /\ f.rows = Members(drainKey)
  BY DEF LakeInv, KeysTell, IsBatch
<1>4. r \in Row /\ batchKey[r] = drainKey
  BY <1>3 DEF Members
<1>5. r \notin staged
  BY <1>1, <1>2, <1>3, <1>4 DEF StagedKeys, StagingInv, QuarantinedBad, IsBatch, Encodes, Members
<1>6. r < nextId /\ q \in 1..(nextId - 1)
  <2>1. r \in Nat \ {0} /\ q \in Nat \ {0} /\ nextId \in Nat
    BY <1>4, FlushPathAssumption DEF TypeOK, Row
  <2>2. r < nextId
    BY <1>4, <2>1 DEF StagingInv, FreshIds
  <2> QED
    BY <2>1, <2>2
<1>7. q \in staged \cup Delivered \cup Spooled
  BY <1>6 DEF NoRecordLost
<1>8. CASE q \in (staged \ quarantined) \ unanswered
  <2>1. r < q \/ batchKey[q] = drainKey
    BY <1>4, <1>5, <1>6, <1>8 DEF SealedFirst, Live
  <2>2. r \in Nat /\ q \in Nat
    BY <1>4, FlushPathAssumption DEF Row
  <2>3. batchKey[q] = drainKey
    BY <2>1, <2>2
  <2> QED
    BY <1>3, <2>3 DEF Members
<1>9. CASE q \in Spooled \ staged
  <2>1. PICK g \in file, t \in spoolRow : q \in g.rows /\ t.key = g.key /\ ~t.committed
    BY <1>9, SpooledIs DEF Uncommitted
  <2>2. batchKey[q] = g.key /\ g.rows = Members(g.key) /\ g.key # NoKey
    BY <2>1 DEF LakeInv, KeysTell, IsBatch, Members
  <2>3. g.key \notin StagedKeys
    BY <1>9, <2>2 DEF StagedKeys, StagingInv, PrunedWhole, TypeOK
  <2>4. s.at <= t.at /\ s.at \in Nat /\ t.at \in Nat
    BY <1>2, <2>1, <2>3 DEF Backlog
  <2>5. CASE s.at < t.at
    <3>1. r < q \/ q \in unanswered
      BY <1>1, <1>2, <1>3, <2>1, <2>2, <2>5 DEF SpoolOrdered
    <3> QED
      BY <1>4, <3>1, FlushPathAssumption DEF Row
  <2>6. CASE s.at = t.at
    BY <1>1, <1>2, <2>1, <2>6 DEF SpooledWith
  <2> QED
    BY <2>4, <2>5, <2>6
<1> QED
  BY <1>7, <1>8, <1>9

\* What a step adds to the table follows everything that could be in it.
LEMMA CommitsFollow ==
    ASSUME TypeOK, CeilingInv, FlushInv, OrderInv, [Next]_vars,
           NEW r \in Delivered' \ Delivered, NEW q \in Row, q < r
    PROVE  q \in Delivered' \cup quarantined \cup unanswered \cup SpooledWith(r)
                 \cup (IF mode = "bucket" THEN Spooled \ staged ELSE {})
<1>1. CASE log' = log
  BY <1>1, DeliveredGrows
<1>2. CASE DrainCommit /\ \E f \in file : f.key = drainKey /\ log' = Append(log, f)
  <2>1. PICK f \in file : f.key = drainKey /\ log' = Append(log, f)
    BY <1>2
  <2>2. Delivered' = Delivered \cup f.rows
    BY <2>1, DeliveredGrows DEF TypeOK
  <2> QED
    BY <1>2, <2>1, <2>2, DrainInOrder DEF DrainCommit
<1>3. CASE At("commit") /\ log' = Append(log, DataFile(Current))
  <2>1. Delivered' = Delivered \cup Current.rows
    BY <1>3, JobIsFile, DeliveredGrows DEF At
  <2> QED
    BY <1>3, <2>1, WorkerInOrder
<1> QED
  BY <1>1, <1>2, <1>3, LogFrame

\* A file that is gone was marked, so what it held is in the table.
LEMMA EvictedWasCommitted ==
    ASSUME TypeOK, FlushInv, [Next]_vars, NEW f \in file
    PROVE  f.rows \subseteq (UNION {g.rows : g \in file'}) \cup Delivered
<1> USE DEF FlushInv
<1>1. CASE \E g \in file' : g.rows = f.rows
  BY <1>1
<1>2. CASE \E s \in spoolRow : s.committed /\ s.key = f.key
  <2>1. Committed(f.key, Len(log)) /\ f.rows = Members(f.key)
    BY <1>2 DEF SpoolInv, LakeInv, KeysTell, IsBatch
  <2>2. Members(f.key) \subseteq Delivered
    BY <2>1, CommittedIsDelivered
  <2> QED
    BY <2>1, <2>2
<1> QED
  BY <1>1, <1>2, LakeFiles

\* Records reach the table in the order they were accepted, across kills,
\* retries, replays, drains and changes of configuration, but for those the
\* drain cannot tell apart (files of one millisecond), the writer does not know
\* of (an insert answered with a failure) or a process without a cache directory
\* cannot see; and a spool file leaves the disk only when the
\* table holds its records.  No two records may encode alike.
THEOREM MovedInOrder ==
    ASSUME DistinctRecords
    PROVE  Spec => MovesInOrder
<1>1. TypeOK /\ CeilingInv /\ FlushInv /\ OrderInv /\ [Next]_vars =>
         [\A r \in Delivered' \ Delivered, q \in Row :
             q < r => q \in Delivered' \cup quarantined \cup unanswered \cup SpooledWith(r)
                            \cup (IF mode = "bucket" THEN Spooled \ staged ELSE {})]_vars
  BY CommitsFollow
<1>2. TypeOK /\ CeilingInv /\ FlushInv /\ OrderInv /\ [Next]_vars =>
         [\A f \in file : f.rows \subseteq (UNION {g.rows : g \in file'}) \cup Delivered]_vars
  BY EvictedWasCommitted
<1> QED
  BY OrderInvHolds, <1>1, <1>2, PTL DEF Spec, MovesInOrder, CommitsInOrder, EvictedOnlyCommitted
=============================================================================
