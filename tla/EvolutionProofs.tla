-------------------------- MODULE EvolutionProofs --------------------------
(***************************************************************************)
(* Whatever is staged or spooled can be moved, an open writer's columns    *)
(* are the table's, and what is committed reads back as it was accepted,   *)
(* for any declarations, any number of deployments, records and kills.     *)
(*                                                                         *)
(* The argument.  A batch key names its rows, so as long as one of them is *)
(* staged they all are, under that key, alive or dead together; a file or  *)
(* a commit under a key is of the rows it names, as they were accepted     *)
(* with nulls behind.  A replayed batch may be spooled again under another *)
(* shape, but until it is pruned its file is not the drain's to move.  And *)
(* what is committed is of a shape that the live table was just made to    *)
(* have, whose columns move along promotions only.                         *)
(***************************************************************************)
EXTENDS Evolution, FiniteSetTheorems, SequenceTheorems, WellFoundedInduction, TLAPS

IsSeq(s) == \E T : s \in Seq(T)

Column == [name : STRING, type : STRING, required : BOOLEAN]

Drains == {"drain", "drain put", "drain commit", "drain mark"}
InHands == {"asked", "encode", "spool row", "upload", "commit", "mark", "prune"}

(***************************************************************************)
(* Rows and files.                                                         *)
(***************************************************************************)

\* The values of row n under some shape: what was given, and nulls behind it.
Carries(values, n) ==
    LET given == accepted[n].values
    IN  /\ DOMAIN given \subseteq DOMAIN values
        /\ \A i \in DOMAIN given : values[i] = given[i]
        /\ \A i \in DOMAIN values \ DOMAIN given : values[i] = Null

RowInv(n) ==
    LET r == staged[n]
    IN  /\ n \in DOMAIN accepted
        /\ r = [fp |-> r.fp, values |-> r.values, key |-> r.key, dead |-> r.dead]
        /\ r.fp \in Declarations /\ DOMAIN r.values = DOMAIN r.fp /\ r.dead \in BOOLEAN
        /\ Carries(r.values, n)

\* A key is of exactly the rows that carry it, alive or dead together.
Keyed(n) ==
    LET k == staged[n].key
    IN  k # Unsealed =>
           /\ n \in k.rows
           /\ \A m \in k.rows : /\ m \in DOMAIN staged
                                /\ staged[m].key = k /\ staged[m].dead = staged[n].dead

WholeFile(k, f) ==
    /\ f.shape \in Declarations /\ DOMAIN f.rows = k.rows
    /\ \A n \in k.rows : DOMAIN f.rows[n] = DOMAIN f.shape /\ Carries(f.rows[n], n)

\* A key that a file, an object or a commit bears is of no row staged otherwise.
Bears(k) ==
    /\ k.rows \subseteq DOMAIN accepted
    /\ \A n \in k.rows \intersect DOMAIN staged : staged[n].key = k

StagingInv ==
    /\ \E m \in Nat : DOMAIN accepted = 1..m
    /\ \A n \in DOMAIN staged : RowInv(n) /\ Keyed(n)

FileInv ==
    /\ \A k \in DOMAIN files : WholeFile(k, files[k])
    /\ \A k \in DOMAIN objects : WholeFile(k, objects[k])
    /\ \A k \in SpoolKeys \union DOMAIN files \union DOMAIN objects \union committed : Bears(k)

(***************************************************************************)
(* The spool's table and the drain.                                        *)
(***************************************************************************)
OnDisk(i) == spool[i].key \in DOMAIN files /\ files[spool[i].key].shape = spool[i].fp

SpoolInv ==
    /\ IsSeq(spool)
    /\ \A i \in DOMAIN spool :
          /\ spool[i] = [key |-> spool[i].key, fp |-> spool[i].fp, done |-> spool[i].done]
          /\ spool[i].fp \in Declarations /\ spool[i].done \in BOOLEAN
          /\ spool[i].done => spool[i].key \in committed
    /\ \A i, j \in DOMAIN spool : spool[i].key = spool[j].key => i = j

DrainInv ==
    pc \in Drains =>
    /\ mode = "bucket"
    /\ \A k \in backlog : k \notin StagedKeys /\ \E i \in DOMAIN spool : spool[i].key = k /\ ~spool[i].done
    /\ pc # "drain" => backlog # {}
    /\ pc \in {"drain put", "drain commit"} => Verified(live, SpoolRow(OldestFile).fp)
    /\ pc = "drain mark" => OldestFile \in committed

(***************************************************************************)
(* The writer and the batch in hand.                                       *)
(***************************************************************************)
Fitting == \A n \in Pending : staged[n].fp = bin \/ Compatible(staged[n].fp, bin)

InHand == /\ job.key # Unsealed /\ job.rows = job.key.rows /\ job.rows # {}
          /\ \A n \in job.rows : n \in Pending /\ staged[n].key = job.key

JobInv ==
    /\ job = [key |-> job.key, rows |-> job.rows, replayed |-> job.replayed]
    /\ pc = "prepare" /\ job.key = Unsealed =>
          job.rows # {} /\ \A n \in job.rows : n \in Pending /\ staged[n].key = Unsealed
    /\ pc = "prepare" /\ job.key # Unsealed => job.replayed
    /\ pc \in InHands \/ (pc = "prepare" /\ job.key # Unsealed) => InHand
    /\ Running => \A k \in replays : k \in StagedKeys /\ (pc # "idle" => k # job.key)

AttemptInv ==
    /\ pc \in {"asked", "upload", "commit", "mark"} => mode = "bucket"
    /\ pc \in {"encode", "spool row"} /\ mode = "bucket" => job.key \notin committed
    /\ pc = "spool row" => job.key \in DOMAIN files /\ files[job.key].shape = bin
    /\ pc \in {"upload", "commit", "prune"} =>
          \A i \in DOMAIN spool : spool[i].key = job.key /\ ~spool[i].done => OnDisk(i)
    /\ pc = "mark" => job.key \in committed
    /\ pc = "commit" => job.key \in DOMAIN objects /\ objects[job.key].shape = bin

WriterInv ==
    /\ pc \in {"down", "table", "shapes", "idle", "prepare"} \union Drains \union InHands
    /\ pc \in Drains => bin \in Shapes
    /\ pc \in {"table", "shapes"} \/ Running => bin \in Declarations
    /\ pc = "table" => mode = "bucket"
    /\ live \in Seq(Column)
    /\ (Running \/ pc = "shapes") /\ mode = "bucket" => Verified(live, bin)
    /\ Running => Fitting

EvoInv ==
    /\ StagingInv /\ FileInv /\ SpoolInv /\ DrainInv /\ JobInv /\ AttemptInv /\ WriterInv
    /\ BacklogReadable

(***************************************************************************)
(* What is committed can be read.                                          *)
(***************************************************************************)

Readable(f) ==
    \A i \in DOMAIN f.shape : i \in DOMAIN live /\ Agrees(f.shape[i].type, live[i].type)

ReadInv ==
    /\ pc = "drain commit" =>
          /\ OldestFile \in DOMAIN objects
          /\ OldestFile \notin QuarantinedKeys => objects[OldestFile].shape = SpoolRow(OldestFile).fp
    /\ \A k \in committed : /\ k \in DOMAIN objects
                            /\ k \notin QuarantinedKeys => Readable(objects[k])

(***************************************************************************)
(* Sequences, sets of numbers, declarations.                               *)
(***************************************************************************)

LEMMA NatMin ==
    ASSUME NEW S, S \subseteq Nat, S # {}
    PROVE  Min(S) \in S
<1>1. IsWellFoundedOn(OpToRel(<, Nat), Nat)
  BY NatLessThanWellFounded
<1>2. PICK x \in S : \A y \in S : ~(<<y, x>> \in OpToRel(<, Nat))
  BY <1>1, WFMin
<1>3. ASSUME NEW y \in S
      PROVE  x <= y
  <2>1. x \in Nat /\ y \in Nat
    OBVIOUS
  <2>2. <<y, x>> \in Nat \X Nat /\ ~(y < x)
    BY <1>2, <2>1 DEF OpToRel
  <2> QED
    BY <2>1, <2>2
<1> QED
  BY <1>2, <1>3 DEF Min

LEMMA SeqDomain ==
    ASSUME NEW s, IsSeq(s)
    PROVE  Len(s) \in Nat /\ DOMAIN s = 1..Len(s) /\ DOMAIN s \subseteq Nat \ {0}
  BY LenProperties DEF IsSeq

LEMMA Declared ==
    ASSUME NEW d \in Declarations
    PROVE  /\ d \in Seq(Column) /\ d # NoShape
           /\ Len(d) \in Nat /\ DOMAIN d = 1..Len(d) /\ DOMAIN d \subseteq Nat \ {0}
<1>1. d \in Seq(Column) /\ d # NoShape
  BY ShapesAssumption DEF Column
<1> QED
  BY <1>1, LenProperties

\* A sequence with one element added.
LEMMA Appended ==
    ASSUME NEW s, IsSeq(s), NEW e
    PROVE  /\ IsSeq(Append(s, e))
           /\ DOMAIN Append(s, e) = 1..(Len(s) + 1)
           /\ Append(s, e)[Len(s) + 1] = e
           /\ \A i \in DOMAIN s : Append(s, e)[i] = s[i]
<1>1. PICK T : s \in Seq(T)
  BY DEF IsSeq
<1>2. Len(s) \in Nat /\ DOMAIN s = 1..Len(s)
  BY SeqDomain
<1>3. s \in Seq(T \union {e})
  BY <1>1, SeqMonotonic
<1>4. Append(s, e) \in Seq(T \union {e})
  BY <1>3
<1> QED
  BY <1>2, <1>3, <1>4, AppendProperties, LenProperties DEF IsSeq

\* A sequence with one element left out.
LEMMA Removed ==
    ASSUME NEW s, IsSeq(s), NEW i \in DOMAIN s
    PROVE  /\ IsSeq(RemoveAt(s, i))
           /\ \A j \in DOMAIN RemoveAt(s, i) :
                 RemoveAt(s, i)[j] = s[IF j < i THEN j ELSE j + 1]
           /\ \A j \in DOMAIN RemoveAt(s, i) : (IF j < i THEN j ELSE j + 1) \in DOMAIN s \ {i}
           /\ DOMAIN RemoveAt(s, i) \subseteq Nat
<1>1. PICK T : s \in Seq(T)
  BY DEF IsSeq
<1>2. Len(s) \in Nat /\ DOMAIN s = 1..Len(s) /\ i \in 1..Len(s)
  BY SeqDomain
<1> DEFINE a == SubSeq(s, 1, i - 1)
           b == SubSeq(s, i + 1, Len(s))
<1>3. \A j \in 1..Len(s) : s[j] \in T
  BY <1>1, ElementOfSeq
<1>4. /\ a \in Seq(T) /\ Len(a) = i - 1
      /\ \A j \in 1..(i - 1) : a[j] = s[j]
  <2>1. \A j \in 1..(i - 1) : s[j] \in T
    BY <1>2, <1>3
  <2>2. /\ a \in Seq(T)
        /\ Len(a) = IF 1 <= i - 1 THEN i - 1 - 1 + 1 ELSE 0
        /\ \A j \in 1..(i - 1 - 1 + 1) : a[j] = s[1 + j - 1]
    BY <1>2, <2>1, SubSeqProperties
  <2> QED
    BY <1>2, <2>2
<1>5. /\ b \in Seq(T) /\ Len(b) = Len(s) - i
      /\ \A j \in 1..(Len(s) - i) : b[j] = s[i + j]
  <2>1. \A j \in (i + 1)..Len(s) : s[j] \in T
    BY <1>2, <1>3
  <2>2. /\ b \in Seq(T)
        /\ Len(b) = IF i + 1 <= Len(s) THEN Len(s) - (i + 1) + 1 ELSE 0
        /\ \A j \in 1..(Len(s) - (i + 1) + 1) : b[j] = s[(i + 1) + j - 1]
    BY <1>2, <2>1, SubSeqProperties
  <2> QED
    BY <1>2, <2>2
<1> HIDE DEF a, b
<1>6. /\ a \o b \in Seq(T) /\ Len(a \o b) = Len(s) - 1
      /\ \A j \in 1..(Len(s) - 1) : (a \o b)[j] = IF j <= i - 1 THEN a[j] ELSE b[j - (i - 1)]
  <2>1. Len(a) + Len(b) = Len(s) - 1
    BY <1>2, <1>4, <1>5
  <2>2. /\ a \o b \in Seq(T) /\ Len(a \o b) = Len(a) + Len(b)
        /\ \A j \in 1..(Len(a) + Len(b)) : (a \o b)[j] = IF j <= Len(a) THEN a[j] ELSE b[j - Len(a)]
    BY <1>4, <1>5, ConcatProperties
  <2> QED
    BY <1>4, <2>1, <2>2
<1>7. DOMAIN (a \o b) = 1..(Len(s) - 1)
  BY <1>6, LenProperties
<1>8. ASSUME NEW j \in 1..(Len(s) - 1)
      PROVE  /\ (a \o b)[j] = s[IF j < i THEN j ELSE j + 1]
             /\ (IF j < i THEN j ELSE j + 1) \in DOMAIN s \ {i}
  <2>1. CASE j < i
    BY <1>2, <1>4, <1>6, <2>1
  <2>2. CASE ~(j < i)
    <3>1. j - (i - 1) \in 1..(Len(s) - i) /\ i + (j - (i - 1)) = j + 1
      BY <1>2, <2>2
    <3>2. (a \o b)[j] = b[j - (i - 1)] /\ b[j - (i - 1)] = s[i + (j - (i - 1))]
      BY <1>2, <1>5, <1>6, <2>2, <3>1
    <3> QED
      BY <1>2, <2>2, <3>1, <3>2
  <2> QED
    BY <2>1, <2>2
<1>9. IsSeq(a \o b) /\ 1..(Len(s) - 1) \subseteq Nat
  BY <1>2, <1>6 DEF IsSeq
<1>10. RemoveAt(s, i) = a \o b
  BY DEF RemoveAt, a, b
<1> QED
  BY <1>7, <1>8, <1>9, <1>10

(***************************************************************************)
(* What the steps on rows do.                                              *)
(***************************************************************************)

\* The next row id is of no row.
LEMMA NextId ==
    ASSUME StagingInv
    PROVE  LET n == Cardinality(DOMAIN accepted) + 1
           IN  /\ n \in Nat /\ n \notin DOMAIN accepted /\ n \notin DOMAIN staged
               /\ DOMAIN accepted \union {n} = 1..n
<1>1. PICK m \in Nat : DOMAIN accepted = 1..m
  BY DEF StagingInv
<1>2. Cardinality(DOMAIN accepted) = m
  BY <1>1, FS_Interval
<1>3. m + 1 \in Nat /\ m + 1 \notin 1..m /\ (1..m) \union {m + 1} = 1..(m + 1)
  OBVIOUS
<1>4. DOMAIN staged \subseteq 1..m
  BY <1>1 DEF StagingInv, RowInv
<1> QED
  BY <1>1, <1>2, <1>3, <1>4

\* Insert adds one row, to what is accepted and to what is staged.
LEMMA InsertAdds ==
    ASSUME StagingInv, WriterInv, Insert
    PROVE  \E n, row :
              /\ n \in Nat /\ n \notin DOMAIN accepted /\ n \notin DOMAIN staged
              /\ DOMAIN accepted' = DOMAIN accepted \union {n} /\ DOMAIN accepted' = 1..n
              /\ accepted'[n] = [shape |-> bin, values |-> row]
              /\ \A x \in DOMAIN accepted : accepted'[x] = accepted[x]
              /\ DOMAIN staged' = DOMAIN staged \union {n}
              /\ staged'[n] = [fp |-> bin, values |-> row, key |-> Unsealed, dead |-> FALSE]
              /\ \A x \in DOMAIN staged : staged'[x] = staged[x]
              /\ DOMAIN row = DOMAIN bin
<1> DEFINE n == Cardinality(DOMAIN accepted) + 1
           r(filled) == [i \in DOMAIN bin |-> IF bin[i].required \/ filled THEN i ELSE Null]
<1>1. PICK filled \in BOOLEAN :
         /\ accepted' = Put(accepted, n, [shape |-> bin, values |-> r(filled)])
         /\ staged' = Put(staged, n, [fp |-> bin, values |-> r(filled), key |-> Unsealed, dead |-> FALSE])
  BY DEF Insert
<1>2. PICK row : row = r(filled)
  OBVIOUS
<1>3. DOMAIN row = DOMAIN bin
  BY <1>2
<1>4. /\ n \in Nat /\ n \notin DOMAIN accepted /\ n \notin DOMAIN staged
      /\ DOMAIN accepted \union {n} = 1..n
  BY NextId
<1> HIDE DEF n, r
<1> QED
  BY <1>1, <1>2, <1>3, <1>4 DEF Put

LEMMA PruneTakes ==
    ASSUME Prune
    PROVE  /\ DOMAIN staged' = DOMAIN staged \ job.rows
           /\ \A n \in DOMAIN staged' : staged'[n] = staged[n]
  BY DEF Prune, Without, Restrict

\* A pending row carried into the current shape is still what was accepted.
LEMMA Carried ==
    ASSUME StagingInv, Fitting, bin \in Declarations, NEW n \in Pending
    PROVE  /\ DOMAIN staged[n].fp \subseteq DOMAIN bin
           /\ DOMAIN ToCurrent(n) = DOMAIN bin /\ Carries(ToCurrent(n), n)
<1>1. n \in DOMAIN staged /\ RowInv(n)
  BY DEF StagingInv, Pending
<1> DEFINE f == staged[n].fp
<1>2. f \in Declarations /\ DOMAIN staged[n].values = DOMAIN f /\ Carries(staged[n].values, n)
  BY <1>1 DEF RowInv
<1>3. /\ Len(f) \in Nat /\ DOMAIN f = 1..Len(f)
      /\ Len(bin) \in Nat /\ DOMAIN bin = 1..Len(bin)
  BY <1>2, Declared
<1>4. f = bin \/ Compatible(f, bin)
  BY DEF Fitting
<1>5. DOMAIN f \subseteq DOMAIN bin
  BY <1>3, <1>4 DEF Compatible
<1>6. /\ DOMAIN ToCurrent(n) = DOMAIN bin
      /\ \A i \in DOMAIN bin : ToCurrent(n)[i] = IF i \in DOMAIN f THEN staged[n].values[i] ELSE Null
  BY DEF ToCurrent, Remap
<1> HIDE DEF f
<1>7. Carries(ToCurrent(n), n)
  BY <1>2, <1>5, <1>6 DEF Carries
<1> QED
  BY <1>5, <1>6, <1>7 DEF f

\* The three outcomes of preparing a batch.
LEMMA Prepared ==
    ASSUME Prepare, JobInv, bin \in Declarations
    PROVE  \/ /\ UNCHANGED <<staged, stagingShapes, job>> /\ job.key # Unsealed
              /\ pc' = IF mode = "bucket" THEN "asked" ELSE "encode"
           \/ \E k :
              /\ k = [shape |-> bin, rows |-> job.rows] /\ k # Unsealed /\ k.rows = job.rows
              /\ job.key = Unsealed /\ ~Unencodable
              /\ job' = [key |-> k, rows |-> job.rows, replayed |-> job.replayed]
              /\ DOMAIN staged' = DOMAIN staged
              /\ \A n \in job.rows \intersect DOMAIN staged :
                    staged'[n] = [staged[n] EXCEPT !.key = k, !.fp = bin, !.values = ToCurrent(n)]
              /\ \A n \in DOMAIN staged \ job.rows : staged'[n] = staged[n]
              /\ stagingShapes' = stagingShapes \union {bin} /\ pc' = "encode"
           \/ /\ Unencodable /\ job' = NoJob /\ pc' = "idle" /\ UNCHANGED stagingShapes
              /\ DOMAIN staged' = DOMAIN staged
              /\ \A n \in job.rows \intersect DOMAIN staged : staged'[n] = [staged[n] EXCEPT !.dead = TRUE]
              /\ \A n \in DOMAIN staged \ job.rows : staged'[n] = staged[n]
<1>1. CASE Unencodable
  <2>1. Quarantine
    BY <1>1 DEF Prepare
  <2> QED
    BY <1>1, <2>1 DEF Quarantine
<1>2. CASE ~Unencodable /\ PrepareSealed
  <2>1. job.key # Unsealed /\ job.replayed /\ pc = "prepare"
    BY <1>2 DEF PrepareSealed, JobInv, Prepare
  <2> QED
    BY <1>2, <2>1 DEF PrepareSealed, stagingVars
<1>3. CASE ~Unencodable /\ PrepareNew
  <2>1. PICK k : k = [shape |-> bin, rows |-> job.rows]
    OBVIOUS
  <2>2. k # Unsealed /\ k.rows = job.rows
    <3>1. bin # NoShape
      BY Declared
    <3>2. k.shape = bin /\ Unsealed.shape = NoShape
      BY <2>1 DEF Unsealed
    <3> QED
      BY <2>1, <3>1, <3>2
  <2>3. job' = [key |-> k, rows |-> job.rows, replayed |-> job.replayed]
    BY <1>3, <2>1 DEF PrepareNew, JobInv
  <2>4. job'.key = k
    BY <2>3
  <2>5. /\ DOMAIN staged' = DOMAIN staged
        /\ \A n \in job.rows \intersect DOMAIN staged :
              staged'[n] = [staged[n] EXCEPT !.key = k, !.fp = bin, !.values = ToCurrent(n)]
        /\ \A n \in DOMAIN staged \ job.rows : staged'[n] = staged[n]
    BY <1>3, <2>4 DEF PrepareNew, SealedRow
  <2> QED
    BY <1>3, <2>1, <2>2, <2>3, <2>5 DEF PrepareNew
<1> QED
  BY <1>1, <1>2, <1>3 DEF Prepare

(***************************************************************************)
(* Which steps touch what.                                                 *)
(***************************************************************************)

Drain == DrainOpens \/ DrainPuts \/ DrainCommits \/ DrainMarks \/ DrainEnds
Write == Insert \/ TakeJob \/ Prepare \/ Ask \/ Encode \/ RecordSpoolFile \/ Upload \/ Commit \/ MarkCommitted \/ Prune
Sweep == \E i \in DOMAIN spool : Evict(i)

LEMMA Cases ==
    ASSUME Next
    PROVE  OpenWriter \/ DrainSpool \/ Kill \/ Drain \/ OpenTable \/ Opened \/ Write \/ Sweep
  BY DEF Next, Drain, Write, Sweep

LEMMA Touches ==
    ASSUME [Next]_vars
    PROVE  /\ accepted' = accepted \/ Insert
           /\ staged' = staged \/ Insert \/ Prepare \/ Prune
           /\ stagingShapes' = stagingShapes \/ Insert \/ Prepare \/ Prune
           /\ live' = live \/ DrainOpens \/ OpenTable
           /\ committed' = committed \/ DrainCommits \/ Commit
           /\ objects' = objects \/ DrainPuts \/ Upload
           /\ files' = files \/ Encode \/ Sweep
           /\ spool' = spool \/ DrainMarks \/ RecordSpoolFile \/ MarkCommitted \/ Sweep
           /\ spoolShapes' = spoolShapes \/ RecordSpoolFile \/ Sweep
           /\ job' = job \/ pc' = "down" \/ TakeJob \/ Prepare \/ Prune
           /\ UNCHANGED <<bin, mode>> \/ pc' = "down" \/ OpenWriter \/ DrainSpool
<1> USE DEF durable, process, catalogVars, stagingVars, spoolVars
<1>1. CASE UNCHANGED vars
  BY <1>1 DEF vars
<1>2. CASE OpenWriter
  BY <1>2 DEF OpenWriter, Start
<1>3. CASE DrainSpool
  BY <1>3 DEF DrainSpool, Start
<1>4. CASE Kill
  BY <1>4 DEF Kill, Down
<1>5. CASE Drain
  <2>1. CASE DrainOpens
    BY <2>1 DEF DrainOpens, Down
  <2>2. CASE DrainPuts
    BY <2>2 DEF DrainPuts, Down
  <2>3. CASE DrainCommits
    BY <2>3 DEF DrainCommits
  <2>4. CASE DrainMarks
    BY <2>4 DEF DrainMarks
  <2>5. CASE DrainEnds
    BY <2>5 DEF DrainEnds, Down
  <2> QED
    BY <1>5, <2>1, <2>2, <2>3, <2>4, <2>5 DEF Drain
<1>6. CASE OpenTable
  BY <1>6 DEF OpenTable, Down
<1>7. CASE Opened
  BY <1>7 DEF Opened, Down
<1>8. CASE Write
  <2>1. CASE Insert
    BY <2>1 DEF Insert
  <2>2. CASE TakeJob
    BY <2>2 DEF TakeJob
  <2>3. CASE Prepare
    BY <2>3 DEF Prepare
  <2>4. CASE Ask
    BY <2>4 DEF Ask
  <2>5. CASE Encode
    BY <2>5 DEF Encode
  <2>6. CASE RecordSpoolFile
    BY <2>6 DEF RecordSpoolFile
  <2>7. CASE Upload
    BY <2>7 DEF Upload
  <2>8. CASE Commit
    BY <2>8 DEF Commit
  <2>9. CASE MarkCommitted
    BY <2>9 DEF MarkCommitted
  <2>10. CASE Prune
    BY <2>10 DEF Prune
  <2> QED
    BY <1>8, <2>1, <2>2, <2>3, <2>4, <2>5, <2>6, <2>7, <2>8, <2>9, <2>10 DEF Write
<1>9. CASE Sweep
  BY <1>9 DEF Sweep, Evict
<1> QED
  BY <1>1, <1>2, <1>3, <1>4, <1>5, <1>6, <1>7, <1>8, <1>9, Cases

(***************************************************************************)
(* Rows stay what was accepted, and batches whole.                         *)
(***************************************************************************)

LEMMA StagingStep ==
    ASSUME StagingInv, JobInv, WriterInv, [Next]_vars
    PROVE  StagingInv'
<1>1. CASE UNCHANGED <<accepted, staged>>
  BY <1>1 DEF StagingInv, RowInv, Keyed, Carries
<1>2. CASE Insert
  <2>1. PICK n, row :
           /\ n \in Nat /\ n \notin DOMAIN accepted /\ n \notin DOMAIN staged
           /\ DOMAIN accepted' = DOMAIN accepted \union {n} /\ DOMAIN accepted' = 1..n
           /\ accepted'[n] = [shape |-> bin, values |-> row]
           /\ \A x \in DOMAIN accepted : accepted'[x] = accepted[x]
           /\ DOMAIN staged' = DOMAIN staged \union {n}
           /\ staged'[n] = [fp |-> bin, values |-> row, key |-> Unsealed, dead |-> FALSE]
           /\ \A x \in DOMAIN staged : staged'[x] = staged[x]
           /\ DOMAIN row = DOMAIN bin
    BY <1>2, InsertAdds
  <2>2. bin \in Declarations
    BY <1>2 DEF Insert, WriterInv
  <2>3. ASSUME NEW x \in DOMAIN staged'
        PROVE  RowInv(x)' /\ Keyed(x)'
    <3>1. CASE x = n
      <4>1. /\ staged'[x] = [fp |-> bin, values |-> row, key |-> Unsealed, dead |-> FALSE]
            /\ accepted'[x] = [shape |-> bin, values |-> row] /\ x \in DOMAIN accepted'
        BY <2>1, <3>1
      <4>2. /\ staged'[x].fp = bin /\ staged'[x].values = row /\ staged'[x].key = Unsealed
            /\ staged'[x].dead = FALSE /\ accepted'[x].values = row
        BY <4>1
      <4>3. RowInv(x)'
        BY <2>1, <2>2, <4>1, <4>2 DEF RowInv, Carries
      <4>4. Keyed(x)'
        BY <4>2 DEF Keyed
      <4> QED
        BY <4>3, <4>4
    <3>2. CASE x # n
      <4>1. x \in DOMAIN staged /\ RowInv(x) /\ Keyed(x)
        BY <2>1, <2>3, <3>2 DEF StagingInv
      <4>2. x \in DOMAIN accepted /\ accepted'[x] = accepted[x] /\ staged'[x] = staged[x]
        BY <2>1, <4>1 DEF RowInv
      <4>3. RowInv(x)'
        BY <2>1, <4>1, <4>2 DEF RowInv, Carries
      <4>4. Keyed(x)'
        BY <2>1, <4>1, <4>2 DEF Keyed
      <4> QED
        BY <4>3, <4>4
    <3> QED
      BY <3>1, <3>2
  <2> QED
    BY <2>1, <2>3 DEF StagingInv
<1>3. CASE Prepare
  <2>1. /\ pc = "prepare" /\ Running /\ bin \in Declarations /\ Fitting
        /\ accepted' = accepted
    BY <1>3 DEF Prepare, WriterInv, Running
  <2>2. \A n \in job.rows : n \in DOMAIN staged /\ n \in Pending /\ staged[n].key = job.key
    BY <2>1 DEF JobInv, InHand, Pending
  <2>3. job.key # Unsealed => job.rows = job.key.rows
    BY <2>1 DEF JobInv, InHand
  <2>4. CASE UNCHANGED staged
    BY <1>1, <2>1, <2>4
  <2>5. ASSUME NEW k, k # Unsealed, k.rows = job.rows, job.key = Unsealed,
               DOMAIN staged' = DOMAIN staged,
               \A n \in job.rows \intersect DOMAIN staged :
                  staged'[n] = [staged[n] EXCEPT !.key = k, !.fp = bin, !.values = ToCurrent(n)],
               \A n \in DOMAIN staged \ job.rows : staged'[n] = staged[n]
        PROVE  StagingInv'
    <3>1. ASSUME NEW x \in DOMAIN staged, x \in job.rows
          PROVE  /\ staged'[x] = [fp |-> bin, values |-> ToCurrent(x), key |-> k, dead |-> FALSE]
                 /\ staged'[x].key = k /\ staged'[x].dead = FALSE
      <4>1. RowInv(x) /\ ~staged[x].dead
        BY <2>2, <3>1 DEF StagingInv, Pending
      <4>2. staged[x] = [fp |-> staged[x].fp, values |-> staged[x].values, key |-> staged[x].key, dead |-> staged[x].dead]
        BY <4>1 DEF RowInv
      <4>3. PICK v : v = ToCurrent(x)
        OBVIOUS
      <4>4. staged'[x] = [staged[x] EXCEPT !.key = k, !.fp = bin, !.values = v]
        BY <2>5, <3>1, <4>3
      <4>5. staged[x].dead = FALSE
        BY <4>1 DEF RowInv
      <4>6. staged'[x] = [fp |-> bin, values |-> v, key |-> k, dead |-> staged[x].dead]
        BY <4>2, <4>4
      <4>7. staged'[x] = [fp |-> bin, values |-> v, key |-> k, dead |-> FALSE]
        BY <4>5, <4>6
      <4>8. staged'[x].key = k /\ staged'[x].dead = FALSE
        BY <4>7
      <4> QED
        BY <4>3, <4>7, <4>8
    <3>2. ASSUME NEW x \in DOMAIN staged
          PROVE  RowInv(x)' /\ Keyed(x)'
      <4>1. RowInv(x) /\ Keyed(x)
        BY DEF StagingInv
      <4>2. CASE x \in job.rows
        <5>1. DOMAIN ToCurrent(x) = DOMAIN bin /\ Carries(ToCurrent(x), x)
          BY <2>1, <2>2, <4>2, Carried
        <5>2. PICK v : v = ToCurrent(x)
          OBVIOUS
        <5>3. staged'[x] = [fp |-> bin, values |-> v, key |-> k, dead |-> FALSE]
          BY <3>1, <4>2, <5>2
        <5>4. Carries(v, x) /\ DOMAIN v = DOMAIN bin
          BY <5>1, <5>2
        <5>5. RowInv(x)'
          BY <2>1, <4>1, <5>3, <5>4 DEF RowInv, Carries
        <5>6. Keyed(x)'
          <6>1. staged'[x].key = k /\ staged'[x].dead = FALSE
            BY <5>3
          <6>2. \A m \in job.rows : m \in DOMAIN staged' /\ staged'[m].key = k /\ staged'[m].dead = FALSE
            BY <2>2, <2>5, <3>1
          <6> QED
            BY <2>5, <4>2, <6>1, <6>2 DEF Keyed
        <5> QED
          BY <5>5, <5>6
      <4>3. CASE x \notin job.rows
        <5>1. staged'[x] = staged[x]
          BY <2>5, <4>3
        <5>2. RowInv(x)'
          BY <2>1, <4>1, <5>1 DEF RowInv, Carries
        <5>3. Keyed(x)'
          BY <2>2, <2>5, <4>1, <5>1 DEF Keyed
        <5> QED
          BY <5>2, <5>3
      <4> QED
        BY <4>2, <4>3
    <3> QED
      BY <2>1, <2>5, <3>2 DEF StagingInv
  <2>6. ASSUME DOMAIN staged' = DOMAIN staged,
               \A n \in job.rows \intersect DOMAIN staged : staged'[n] = [staged[n] EXCEPT !.dead = TRUE],
               \A n \in DOMAIN staged \ job.rows : staged'[n] = staged[n]
        PROVE  StagingInv'
    <3>1. ASSUME NEW x \in DOMAIN staged, x \in job.rows
          PROVE  /\ staged'[x] = [fp |-> staged'[x].fp, values |-> staged'[x].values,
                                   key |-> staged'[x].key, dead |-> staged'[x].dead]
                 /\ staged'[x].fp = staged[x].fp /\ staged'[x].values = staged[x].values
                 /\ staged'[x].key = staged[x].key /\ staged'[x].dead = TRUE
      <4>1. PICK f, v, k, d : staged[x] = [fp |-> f, values |-> v, key |-> k, dead |-> d]
        BY DEF StagingInv, RowInv
      <4>2. staged'[x] = [fp |-> f, values |-> v, key |-> k, dead |-> TRUE]
        BY <2>6, <3>1, <4>1
      <4> QED
        BY <4>1, <4>2
    <3>2. ASSUME NEW x \in DOMAIN staged
          PROVE  RowInv(x)' /\ Keyed(x)'
      <4>1. RowInv(x) /\ Keyed(x)
        BY DEF StagingInv
      <4>2. RowInv(x)'
        <5>1. CASE x \in job.rows
          BY <2>1, <2>6, <3>1, <4>1, <5>1 DEF RowInv, Carries
        <5>2. CASE x \notin job.rows
          BY <2>1, <2>6, <4>1, <5>2 DEF RowInv, Carries
        <5> QED
          BY <5>1, <5>2
      <4>3. Keyed(x)'
        <5>1. CASE x \in job.rows
          <6>1. \A m \in job.rows :
                   m \in DOMAIN staged' /\ staged'[m].key = staged[m].key /\ staged'[m].dead = TRUE
            BY <2>2, <2>6, <3>1
          <6> QED
            BY <2>2, <2>3, <4>1, <5>1, <6>1 DEF Keyed
        <5>2. CASE x \notin job.rows
          BY <2>2, <2>3, <2>6, <4>1, <5>2 DEF Keyed
        <5> QED
          BY <5>1, <5>2
      <4> QED
        BY <4>2, <4>3
    <3> QED
      BY <2>1, <2>6, <3>2 DEF StagingInv
  <2> QED
    BY <1>3, <2>1, <2>4, <2>5, <2>6, Prepared
<1>4. CASE Prune
  <2>1. InHand /\ accepted' = accepted
    BY <1>4 DEF Prune, JobInv, InHands
  <2>2. DOMAIN staged' = DOMAIN staged \ job.rows /\ \A n \in DOMAIN staged' : staged'[n] = staged[n]
    BY <1>4, PruneTakes
  <2>3. ASSUME NEW x \in DOMAIN staged'
        PROVE  RowInv(x)' /\ Keyed(x)'
    <3>1. x \in DOMAIN staged /\ x \notin job.rows /\ staged'[x] = staged[x] /\ RowInv(x) /\ Keyed(x)
      BY <2>2, <2>3 DEF StagingInv
    <3>2. RowInv(x)'
      BY <2>1, <3>1 DEF RowInv, Carries
    <3>3. Keyed(x)'
      BY <2>1, <2>2, <3>1 DEF Keyed, InHand
    <3> QED
      BY <3>2, <3>3
  <2> QED
    BY <2>1, <2>3 DEF StagingInv
<1> QED
  BY <1>1, <1>2, <1>3, <1>4, Touches DEF Insert, Prepare, Prune

(***************************************************************************)
(* The file the drain has in hand, and what its steps do to the spool.     *)
(***************************************************************************)

LEMMA SpoolRowIs ==
    ASSUME SpoolInv, NEW i \in DOMAIN spool
    PROVE  SpoolRow(spool[i].key) = spool[i]
  BY DEF SpoolInv, SpoolRow

LEMMA Oldest ==
    ASSUME SpoolInv, DrainInv, pc \in Drains, backlog # {}
    PROVE  /\ OldestFile \in backlog /\ OldestFile \in SpoolKeys /\ OldestFile \notin StagedKeys
           /\ \E i \in DOMAIN spool :
                 spool[i].key = OldestFile /\ ~spool[i].done /\ SpoolRow(OldestFile) = spool[i]
<1> DEFINE S == {i \in DOMAIN spool : spool[i].key \in backlog}
<1>1. S \subseteq Nat /\ S # {}
  <2>1. PICK k : k \in backlog
    OBVIOUS
  <2>2. PICK i \in DOMAIN spool : spool[i].key = k
    BY <2>1 DEF DrainInv
  <2> QED
    BY <2>1, <2>2, SeqDomain DEF SpoolInv
<1>2. Min(S) \in S
  BY <1>1, NatMin
<1>3. PICK i \in DOMAIN spool : i = Min(S) /\ spool[i].key \in backlog
  BY <1>2
<1>4. OldestFile = spool[i].key
  BY <1>3 DEF OldestFile
<1>5. PICK j \in DOMAIN spool : spool[j].key = spool[i].key /\ ~spool[j].done
  BY <1>3 DEF DrainInv
<1>6. i = j
  BY <1>5 DEF SpoolInv
<1> QED
  BY <1>3, <1>4, <1>5, <1>6, SpoolRowIs DEF SpoolKeys, DrainInv

LEMMA Marked ==
    ASSUME NEW k, MarkDone(k), SpoolInv
    PROVE  /\ DOMAIN spool' = DOMAIN spool /\ Len(spool') = Len(spool) /\ IsSeq(spool')
           /\ \A i \in DOMAIN spool :
                 /\ spool'[i] = [key |-> spool'[i].key, fp |-> spool'[i].fp, done |-> spool'[i].done]
                 /\ spool'[i].key = spool[i].key /\ spool'[i].fp = spool[i].fp
                 /\ spool'[i].done \in BOOLEAN
                 /\ spool'[i].done <=> (spool[i].key = k \/ spool[i].done)
<1>1. Len(spool) \in Nat /\ DOMAIN spool = 1..Len(spool)
  BY SeqDomain DEF SpoolInv
<1>2. spool' = [i \in DOMAIN spool |->
                   IF spool[i].key = k THEN [spool[i] EXCEPT !.done = TRUE] ELSE spool[i]]
  BY DEF MarkDone
<1>3. DOMAIN spool' = DOMAIN spool
  BY <1>2
<1>4. \E T : spool' \in [1..Len(spool) -> T]
  <2>1. spool' \in [1..Len(spool) -> {spool'[i] : i \in 1..Len(spool)}]
    BY <1>1, <1>2
  <2> QED
    BY <2>1
<1>5. IsSeq(spool') /\ Len(spool') = Len(spool)
  <2>1. PICK T : spool' \in [1..Len(spool) -> T]
    BY <1>4
  <2>2. spool' \in Seq(T)
    BY <1>1, <2>1, SeqDef
  <2> QED
    BY <1>1, <1>3, <2>2, LenProperties DEF IsSeq
<1>6. ASSUME NEW i \in DOMAIN spool
      PROVE  /\ spool'[i] = [key |-> spool'[i].key, fp |-> spool'[i].fp, done |-> spool'[i].done]
             /\ spool'[i].key = spool[i].key /\ spool'[i].fp = spool[i].fp
             /\ spool'[i].done \in BOOLEAN
             /\ spool'[i].done <=> (spool[i].key = k \/ spool[i].done)
  <2>1. PICK a, b, c : spool[i] = [key |-> a, fp |-> b, done |-> c]
    BY DEF SpoolInv
  <2>2. CASE a = k
    <3>1. spool[i].key = k
      BY <2>1, <2>2
    <3>2. PICK r : r = spool[i]
      OBVIOUS
    <3>3. spool'[i] = [key |-> a, fp |-> b, done |-> TRUE]
      <4>1. spool'[i] = [r EXCEPT !.done = TRUE]
        BY <1>2, <3>1, <3>2
      <4>2. r = [key |-> a, fp |-> b, done |-> c]
        BY <2>1, <3>2
      <4> QED
        BY <4>1, <4>2
    <3>4. spool'[i].done = TRUE
      BY <3>3
    <3> QED
      BY <2>1, <3>1, <3>3, <3>4
  <2>3. CASE a # k
    <3>1. spool'[i] = spool[i]
      BY <1>2, <2>1, <2>3
    <3>2. spool[i].done \in BOOLEAN /\ spool[i].key # k
      BY <2>1, <2>3 DEF SpoolInv
    <3> QED
      BY <2>1, <3>1, <3>2
  <2> QED
    BY <2>2, <2>3
<1> QED
  BY <1>3, <1>5, <1>6

LEMMA Recorded ==
    ASSUME RecordSpoolFile, SpoolInv
    PROVE  /\ IsSeq(spool')
           /\ \A i \in DOMAIN spool' :
                 \/ /\ i \in DOMAIN spool /\ spool[i].key # job.key /\ spool'[i] = spool[i]
                 \/ /\ spool'[i] = [key |-> job.key, fp |-> bin, done |-> spool'[i].done]
                    /\ i \in DOMAIN spool => spool[i].key = job.key /\ spool'[i].done = spool[i].done
                    /\ i \notin DOMAIN spool => i = Len(spool) + 1 /\ spool'[i].done = FALSE /\ job.key \notin SpoolKeys
<1>1. Len(spool) \in Nat /\ DOMAIN spool = 1..Len(spool) /\ IsSeq(spool)
  BY SeqDomain DEF SpoolInv
<1>2. CASE job.key \in SpoolKeys
  <2>1. spool' = [i \in DOMAIN spool |->
                     IF spool[i].key = job.key THEN [spool[i] EXCEPT !.fp = bin] ELSE spool[i]]
    BY <1>2 DEF RecordSpoolFile, Rewritten
  <2>2. IsSeq(spool')
    <3>1. spool' \in [1..Len(spool) -> {spool'[i] : i \in 1..Len(spool)}]
      BY <1>1, <2>1
    <3> QED
      BY <1>1, <3>1, SeqDef DEF IsSeq
  <2>3. ASSUME NEW i \in DOMAIN spool, spool[i].key = job.key
        PROVE  /\ spool'[i] = [key |-> job.key, fp |-> bin, done |-> spool'[i].done]
               /\ spool'[i].done = spool[i].done
    <3>1. PICK a, b, c : spool[i] = [key |-> a, fp |-> b, done |-> c]
      BY DEF SpoolInv
    <3>2. a = job.key
      BY <2>3, <3>1
    <3>3. spool'[i] = [key |-> a, fp |-> bin, done |-> c]
      BY <2>1, <2>3, <3>1
    <3> QED
      BY <3>1, <3>2, <3>3
  <2> QED
    BY <2>1, <2>2, <2>3
<1>3. CASE job.key \notin SpoolKeys
  <2>1. PICK e : e = [key |-> job.key, fp |-> bin, done |-> FALSE]
    OBVIOUS
  <2>2. spool' = Append(spool, e)
    BY <1>3, <2>1 DEF RecordSpoolFile
  <2>3. /\ IsSeq(spool') /\ DOMAIN spool' = 1..(Len(spool) + 1)
        /\ spool'[Len(spool) + 1] = e /\ \A i \in DOMAIN spool : spool'[i] = spool[i]
    BY <1>1, <2>2, Appended
  <2>4. ASSUME NEW i \in DOMAIN spool'
        PROVE  \/ /\ i \in DOMAIN spool /\ spool[i].key # job.key /\ spool'[i] = spool[i]
               \/ /\ spool'[i] = [key |-> job.key, fp |-> bin, done |-> spool'[i].done]
                  /\ i \in DOMAIN spool => spool[i].key = job.key /\ spool'[i].done = spool[i].done
                  /\ i \notin DOMAIN spool => i = Len(spool) + 1 /\ spool'[i].done = FALSE /\ job.key \notin SpoolKeys
    <3>1. CASE i \in DOMAIN spool
      BY <1>3, <2>3, <3>1 DEF SpoolKeys
    <3>2. CASE i \notin DOMAIN spool
      <4>1. i = Len(spool) + 1
        BY <1>1, <2>3, <3>2
      <4>2. spool'[i] = e /\ e.done = FALSE
        BY <2>1, <2>3, <4>1
      <4> QED
        BY <1>3, <2>1, <3>2, <4>1, <4>2
    <3> QED
      BY <3>1, <3>2
  <2> QED
    BY <2>3, <2>4
<1> QED
  BY <1>2, <1>3

LEMMA Evicted ==
    ASSUME SpoolInv, NEW i \in DOMAIN spool, Evict(i)
    PROVE  /\ spool[i].done /\ mode = "bucket" /\ Running
           /\ IsSeq(spool')
           /\ \A j \in DOMAIN spool' : \E m \in DOMAIN spool \ {i} : spool'[j] = spool[m]
           /\ \A j, l \in DOMAIN spool' : spool'[j].key = spool'[l].key => j = l
           /\ DOMAIN files' = DOMAIN files \ {spool[i].key}
           /\ \A k \in DOMAIN files' : files'[k] = files[k]
<1>1. /\ spool[i].done /\ mode = "bucket" /\ Running /\ spool' = RemoveAt(spool, i)
      /\ files' = [k \in DOMAIN files \ {spool[i].key} |-> files[k]]
  BY DEF Evict, Without, Restrict
<1>2. /\ IsSeq(spool') /\ DOMAIN spool' \subseteq Nat
      /\ \A j \in DOMAIN spool' : spool'[j] = spool[IF j < i THEN j ELSE j + 1]
      /\ \A j \in DOMAIN spool' : (IF j < i THEN j ELSE j + 1) \in DOMAIN spool \ {i}
  BY <1>1, Removed DEF SpoolInv
<1>3. ASSUME NEW j \in DOMAIN spool', NEW l \in DOMAIN spool', spool'[j].key = spool'[l].key
      PROVE  j = l
  <2>1. (IF j < i THEN j ELSE j + 1) = (IF l < i THEN l ELSE l + 1)
    BY <1>2, <1>3 DEF SpoolInv
  <2>2. j \in Nat /\ l \in Nat /\ i \in Nat
    BY <1>2, SeqDomain DEF SpoolInv
  <2> QED
    BY <2>1, <2>2
<1> QED
  BY <1>1, <1>2, <1>3

(***************************************************************************)
(* A file, an object or a commit is of the rows its key names.             *)
(***************************************************************************)

\* A key that is borne keeps its rows to itself.
LEMMA BearsKept ==
    ASSUME StagingInv, JobInv, WriterInv, [Next]_vars, NEW k, Bears(k)
    PROVE  /\ k.rows \subseteq DOMAIN accepted /\ k.rows \subseteq DOMAIN accepted'
           /\ \A n \in k.rows \intersect DOMAIN staged' : staged'[n].key = k
<1>1. CASE UNCHANGED <<accepted, staged>>
  BY <1>1 DEF Bears
<1>2. CASE Insert
  <2>1. PICK n, row :
           /\ n \in Nat /\ n \notin DOMAIN accepted
           /\ DOMAIN accepted' = DOMAIN accepted \union {n}
           /\ DOMAIN staged' = DOMAIN staged \union {n}
           /\ \A x \in DOMAIN staged : staged'[x] = staged[x]
    BY <1>2, InsertAdds
  <2> QED
    BY <2>1 DEF Bears
<1>3. CASE Prepare
  <2>1. /\ pc = "prepare" /\ Running /\ bin \in Declarations
        /\ accepted' = accepted
    BY <1>3 DEF Prepare, WriterInv, Running
  <2>2. CASE UNCHANGED staged
    BY <1>1, <2>1, <2>2
  <2>3. ASSUME NEW n \in k.rows \intersect DOMAIN staged', DOMAIN staged' = DOMAIN staged,
               job.key = Unsealed, \A m \in DOMAIN staged \ job.rows : staged'[m] = staged[m]
        PROVE  staged'[n].key = k
    <3>1. staged[n].key = k
      BY <2>3 DEF Bears
    <3>2. n \notin job.rows
      <4>1. SUFFICES ASSUME n \in job.rows PROVE FALSE
        OBVIOUS
      <4>2. staged[n].key = Unsealed
        BY <2>1, <2>3, <4>1 DEF JobInv
      <4> QED
        BY <3>1, <4>2 DEF Unsealed
    <3> QED
      BY <2>3, <3>1, <3>2
  <2>4. ASSUME NEW n \in k.rows \intersect DOMAIN staged', DOMAIN staged' = DOMAIN staged,
               \A m \in job.rows \intersect DOMAIN staged : staged'[m] = [staged[m] EXCEPT !.dead = TRUE],
               \A m \in DOMAIN staged \ job.rows : staged'[m] = staged[m]
        PROVE  staged'[n].key = k
    <3>1. staged[n].key = k
      BY <2>4 DEF Bears
    <3>2. CASE n \in job.rows
      <4>1. PICK r, a, b, c, d : /\ r = staged[n] /\ r = [fp |-> a, values |-> b, key |-> c, dead |-> d]
        BY <2>4 DEF StagingInv, RowInv
      <4>2. staged'[n] = [r EXCEPT !.dead = TRUE]
        BY <2>4, <3>2, <4>1
      <4> QED
        BY <3>1, <4>1, <4>2
    <3> QED
      BY <2>4, <3>1, <3>2
  <2> QED
    BY <1>3, <2>1, <2>2, <2>3, <2>4, Prepared DEF Bears
<1>4. CASE Prune
  <2>1. accepted' = accepted
    BY <1>4 DEF Prune
  <2> QED
    BY <1>4, <2>1, PruneTakes DEF Bears
<1> QED
  BY <1>1, <1>2, <1>3, <1>4, Touches DEF Prepare, Prune

LEMMA AcceptedStands ==
    ASSUME StagingInv, WriterInv, [Next]_vars, NEW n \in DOMAIN accepted
    PROVE  n \in DOMAIN accepted' /\ accepted'[n] = accepted[n]
<1>1. CASE Insert
  BY <1>1, InsertAdds
<1>2. CASE UNCHANGED accepted
  BY <1>2
<1> QED
  BY <1>1, <1>2, Touches

\* The file of the batch in hand.
LEMMA FileWhole ==
    ASSUME StagingInv, Fitting, bin \in Declarations, InHand
    PROVE  WholeFile(job.key, File) /\ Bears(job.key) /\ File.shape = bin
<1>1. DOMAIN File.rows = job.rows /\ File.shape = bin /\ \A n \in job.rows : File.rows[n] = ToCurrent(n)
  BY DEF File
<1>2. \A n \in job.rows : n \in DOMAIN staged /\ n \in Pending /\ staged[n].key = job.key /\ n \in DOMAIN accepted
  BY DEF InHand, Pending, StagingInv, RowInv
<1>3. job.rows = job.key.rows
  BY DEF InHand
<1>4. ASSUME NEW n \in job.rows
      PROVE  DOMAIN File.rows[n] = DOMAIN bin /\ Carries(File.rows[n], n)
  <2>1. DOMAIN ToCurrent(n) = DOMAIN bin /\ Carries(ToCurrent(n), n)
    BY <1>2, Carried
  <2> QED
    BY <1>1, <2>1
<1>5. Bears(job.key)
  BY <1>2, <1>3 DEF Bears
<1>6. WholeFile(job.key, File)
  BY <1>1, <1>3, <1>4 DEF WholeFile
<1> QED
  BY <1>1, <1>5, <1>6

\* Where the files, objects and keys of a step's result come from.
LEMMA Sources ==
    ASSUME SpoolInv, DrainInv, JobInv, WriterInv, [Next]_vars
    PROVE  /\ \A k \in DOMAIN files' :
                 \/ k \in DOMAIN files /\ files'[k] = files[k]
                 \/ /\ k = job.key /\ files'[k] = File /\ pc = "encode"
           /\ \A k \in DOMAIN objects' :
                 \/ k \in DOMAIN objects /\ objects'[k] = objects[k]
                 \/ k \in DOMAIN files /\ objects'[k] = files[k] /\ k = OldestFile /\ pc = "drain put"
                 \/ k = job.key /\ objects'[k] = File /\ pc = "upload"
           /\ \A k \in committed' : \/ k \in committed
                                    \/ (k = OldestFile /\ k \in SpoolKeys /\ pc = "drain commit")
                                    \/ k = job.key /\ pc = "commit"
           /\ \A k \in SpoolKeys' : k \in SpoolKeys \/ (k = job.key /\ pc = "spool row")
           /\ DOMAIN objects \subseteq DOMAIN objects' /\ committed \subseteq committed'
<1>1. /\ \A k \in DOMAIN files' : \/ k \in DOMAIN files /\ files'[k] = files[k]
                                  \/ k = job.key /\ files'[k] = File /\ pc = "encode"
  <2>1. CASE UNCHANGED files
    BY <2>1
  <2>2. CASE Encode
    <3>1. PICK f : f = File
      OBVIOUS
    <3>2. files' = Put(files, job.key, f) /\ pc = "encode"
      BY <2>2, <3>1 DEF Encode
    <3> QED
      BY <3>1, <3>2 DEF Put
  <2>3. CASE Sweep
    BY <2>3, Evicted DEF Sweep
  <2> QED
    BY <2>1, <2>2, <2>3, Touches
<1>2. /\ DOMAIN objects \subseteq DOMAIN objects'
      /\ \A k \in DOMAIN objects' :
            \/ k \in DOMAIN objects /\ objects'[k] = objects[k]
            \/ k \in DOMAIN files /\ objects'[k] = files[k] /\ k = OldestFile /\ pc = "drain put"
            \/ k = job.key /\ objects'[k] = File /\ pc = "upload"
  <2>1. CASE UNCHANGED objects
    BY <2>1
  <2>2. CASE DrainPuts
    <3>1. PICK o : o = OldestFile
      OBVIOUS
    <3>2. pc = "drain put" /\ (UNCHANGED objects \/ (o \in DOMAIN files /\ objects' = Put(objects, o, files[o])))
      BY <2>2, <3>1 DEF DrainPuts
    <3> QED
      BY <3>1, <3>2 DEF Put
  <2>3. CASE Upload
    <3>1. PICK f : f = File
      OBVIOUS
    <3>2. objects' = Put(objects, job.key, f) /\ pc = "upload"
      BY <2>3, <3>1 DEF Upload
    <3> QED
      BY <3>1, <3>2 DEF Put
  <2> QED
    BY <2>1, <2>2, <2>3, Touches
<1>3. /\ committed \subseteq committed'
      /\ \A k \in committed' : \/ k \in committed
                               \/ (k = OldestFile /\ k \in SpoolKeys /\ pc = "drain commit")
                               \/ k = job.key /\ pc = "commit"
  <2>1. CASE UNCHANGED committed
    BY <2>1
  <2>2. CASE DrainCommits
    <3>1. OldestFile \in SpoolKeys
      BY <2>2, Oldest DEF DrainCommits, DrainInv, Drains
    <3> QED
      BY <2>2, <3>1 DEF DrainCommits
  <2>3. CASE Commit
    BY <2>3 DEF Commit
  <2> QED
    BY <2>1, <2>2, <2>3, Touches
<1>4. \A k \in SpoolKeys' : k \in SpoolKeys \/ (k = job.key /\ pc = "spool row")
  <2>1. CASE UNCHANGED spool
    <3>1. SpoolKeys' = SpoolKeys
      BY <2>1 DEF SpoolKeys
    <3> QED
      BY <3>1
  <2>2. CASE DrainMarks \/ MarkCommitted
    <3>1. PICK k : MarkDone(k)
      BY <2>2 DEF DrainMarks, MarkCommitted
    <3>2. DOMAIN spool' = DOMAIN spool /\ \A i \in DOMAIN spool : spool'[i].key = spool[i].key
      BY <3>1, Marked
    <3>3. SpoolKeys' \subseteq SpoolKeys
      BY <3>2 DEF SpoolKeys
    <3> QED
      BY <3>3
  <2>3. CASE RecordSpoolFile
    <3>1. pc = "spool row"
      BY <2>3 DEF RecordSpoolFile
    <3>2. ASSUME NEW i \in DOMAIN spool'
          PROVE  spool'[i].key \in SpoolKeys \union {job.key}
      <4>1. CASE i \in DOMAIN spool /\ spool'[i] = spool[i]
        BY <4>1 DEF SpoolKeys
      <4>2. CASE spool'[i] = [key |-> job.key, fp |-> bin, done |-> spool'[i].done]
        <5>1. spool'[i].key = job.key
          BY <4>2
        <5> QED
          BY <5>1
      <4> QED
        BY <2>3, <4>1, <4>2, Recorded
    <3>3. SpoolKeys' \subseteq SpoolKeys \union {job.key}
      BY <3>2 DEF SpoolKeys
    <3> QED
      BY <3>1, <3>3
  <2>4. CASE Sweep
    <3>1. \A j \in DOMAIN spool' : \E m \in DOMAIN spool : spool'[j] = spool[m]
      BY <2>4, Evicted DEF Sweep
    <3>2. SpoolKeys' \subseteq SpoolKeys
      BY <3>1 DEF SpoolKeys
    <3> QED
      BY <3>2
  <2> QED
    BY <2>1, <2>2, <2>3, <2>4, Touches
<1> QED
  BY <1>1, <1>2, <1>3, <1>4

LEMMA FileStep ==
    ASSUME StagingInv, FileInv, SpoolInv, DrainInv, JobInv, WriterInv, [Next]_vars
    PROVE  FileInv'
<1>1. pc \in {"encode", "spool row", "upload", "commit"} => WholeFile(job.key, File) /\ Bears(job.key)
  <2>1. SUFFICES ASSUME pc \in {"encode", "spool row", "upload", "commit"}
                 PROVE  WholeFile(job.key, File) /\ Bears(job.key)
    OBVIOUS
  <2>2. InHand /\ Fitting /\ bin \in Declarations
    BY <2>1 DEF JobInv, WriterInv, Running, InHands
  <2> QED
    BY <2>2, FileWhole
<1>2. ASSUME NEW k, NEW f, WholeFile(k, f), Bears(k)
      PROVE  /\ f.shape \in Declarations /\ DOMAIN f.rows = k.rows
             /\ \A n \in k.rows : DOMAIN f.rows[n] = DOMAIN f.shape /\ Carries(f.rows[n], n)'
  <2>1. k.rows \subseteq DOMAIN accepted
    BY <1>2 DEF Bears
  <2>2. ASSUME NEW n \in k.rows
        PROVE  DOMAIN f.rows[n] = DOMAIN f.shape /\ Carries(f.rows[n], n)'
    <3>1. accepted'[n] = accepted[n]
      BY <2>1, AcceptedStands
    <3>2. DOMAIN f.rows[n] = DOMAIN f.shape /\ Carries(f.rows[n], n)
      BY <1>2 DEF WholeFile
    <3> QED
      BY <3>1, <3>2 DEF Carries
  <2> QED
    BY <1>2, <2>2 DEF WholeFile
<1>3. ASSUME NEW k \in DOMAIN files'
      PROVE  WholeFile(k, files[k])'
  <2>1. PICK f : f = files'[k]
    OBVIOUS
  <2>2. WholeFile(k, f) /\ Bears(k)
    BY <1>1, <2>1, Sources DEF FileInv
  <2> QED
    BY <1>2, <2>1, <2>2 DEF WholeFile
<1>4. ASSUME NEW k \in DOMAIN objects'
      PROVE  WholeFile(k, objects[k])'
  <2>1. PICK f : f = objects'[k]
    OBVIOUS
  <2>2. WholeFile(k, f) /\ Bears(k)
    BY <1>1, <2>1, Sources DEF FileInv
  <2> QED
    BY <1>2, <2>1, <2>2 DEF WholeFile
<1>5. ASSUME NEW k \in (SpoolKeys \union DOMAIN files \union DOMAIN objects \union committed)'
      PROVE  Bears(k)'
  <2>1. Bears(k)
    BY <1>1, Sources DEF FileInv
  <2> QED
    BY <2>1, BearsKept DEF Bears
<1> QED
  BY <1>3, <1>4, <1>5 DEF FileInv

(***************************************************************************)
(* The spool's table.                                                      *)
(***************************************************************************)

LEMMA SpoolStep ==
    ASSUME SpoolInv, DrainInv, JobInv, AttemptInv, WriterInv, [Next]_vars
    PROVE  SpoolInv'
<1>1. committed \subseteq committed'
  BY Sources
<1>2. CASE UNCHANGED spool
  BY <1>1, <1>2 DEF SpoolInv, IsSeq
<1>3. ASSUME NEW k \in committed, MarkDone(k)
      PROVE  SpoolInv'
  <2>1. IsSeq(spool') /\ DOMAIN spool' = DOMAIN spool
    BY <1>3, Marked
  <2>2. ASSUME NEW i \in DOMAIN spool
        PROVE  /\ spool'[i] = [key |-> spool'[i].key, fp |-> spool'[i].fp, done |-> spool'[i].done]
               /\ spool'[i].key = spool[i].key /\ spool'[i].fp \in Declarations
               /\ spool'[i].done \in BOOLEAN
               /\ spool'[i].done => spool'[i].key \in committed'
    <3>1. /\ spool'[i] = [key |-> spool'[i].key, fp |-> spool'[i].fp, done |-> spool'[i].done]
          /\ spool'[i].key = spool[i].key /\ spool'[i].fp = spool[i].fp
          /\ spool'[i].done \in BOOLEAN
          /\ spool'[i].done => (spool[i].key = k \/ spool[i].done)
      BY <1>3, Marked
    <3>2. spool[i].fp \in Declarations /\ (spool[i].done => spool[i].key \in committed)
      BY DEF SpoolInv
    <3> QED
      BY <1>1, <1>3, <3>1, <3>2
  <2>3. \A i, j \in DOMAIN spool : spool[i].key = spool[j].key => i = j
    BY DEF SpoolInv
  <2> QED
    BY <2>1, <2>2, <2>3 DEF SpoolInv
<1>4. CASE DrainMarks
  BY <1>3, <1>4 DEF DrainMarks, DrainInv, Drains
<1>5. CASE MarkCommitted
  BY <1>3, <1>5 DEF MarkCommitted, AttemptInv
<1>6. CASE RecordSpoolFile
  <2>1. bin \in Declarations
    BY <1>6 DEF RecordSpoolFile, WriterInv, Running
  <2>2. IsSeq(spool')
    BY <1>6, Recorded
  <2>3. ASSUME NEW i \in DOMAIN spool'
        PROVE  /\ spool'[i] = [key |-> spool'[i].key, fp |-> spool'[i].fp, done |-> spool'[i].done]
               /\ spool'[i].fp \in Declarations /\ spool'[i].done \in BOOLEAN
               /\ spool'[i].done => spool'[i].key \in committed'
               /\ spool'[i].key = job.key => \/ i = Len(spool) + 1 /\ job.key \notin SpoolKeys
                                             \/ i \in DOMAIN spool /\ spool[i].key = job.key
               /\ spool'[i].key # job.key => i \in DOMAIN spool /\ spool'[i] = spool[i]
    <3>1. CASE i \in DOMAIN spool /\ spool[i].key # job.key /\ spool'[i] = spool[i]
      BY <1>1, <3>1 DEF SpoolInv
    <3>2. CASE /\ spool'[i] = [key |-> job.key, fp |-> bin, done |-> spool'[i].done]
               /\ i \in DOMAIN spool => spool[i].key = job.key /\ spool'[i].done = spool[i].done
               /\ i \notin DOMAIN spool => i = Len(spool) + 1 /\ spool'[i].done = FALSE /\ job.key \notin SpoolKeys
      <4>1. spool'[i].key = job.key /\ spool'[i].fp = bin
        BY <3>2
      <4>2. spool'[i].done \in BOOLEAN /\ (spool'[i].done => job.key \in committed')
        BY <1>1, <3>2 DEF SpoolInv
      <4>3. spool'[i] = [key |-> spool'[i].key, fp |-> spool'[i].fp, done |-> spool'[i].done]
        BY <3>2, <4>1
      <4>4. \/ i = Len(spool) + 1 /\ job.key \notin SpoolKeys
            \/ i \in DOMAIN spool /\ spool[i].key = job.key
        BY <3>2
      <4>5. spool'[i].done => spool'[i].key \in committed'
        BY <4>1, <4>2
      <4>6. spool'[i].fp \in Declarations /\ spool'[i].done \in BOOLEAN
        BY <2>1, <4>1, <4>2
      <4> QED
        BY <4>1, <4>3, <4>4, <4>5, <4>6
    <3> QED
      BY <1>6, <3>1, <3>2, Recorded
  <2>4. ASSUME NEW i \in DOMAIN spool', NEW j \in DOMAIN spool', spool'[i].key = spool'[j].key
        PROVE  i = j
    <3>1. CASE spool'[i].key = job.key
      <4>1. \A l \in DOMAIN spool : spool[l].key \in SpoolKeys
        BY DEF SpoolKeys
      <4>2. /\ \/ i = Len(spool) + 1 /\ job.key \notin SpoolKeys
               \/ i \in DOMAIN spool /\ spool[i].key = job.key
            /\ \/ j = Len(spool) + 1 /\ job.key \notin SpoolKeys
               \/ j \in DOMAIN spool /\ spool[j].key = job.key
        BY <2>3, <2>4, <3>1
      <4>3. \A l, m \in DOMAIN spool : spool[l].key = spool[m].key => l = m
        BY DEF SpoolInv
      <4> QED
        BY <4>1, <4>2, <4>3
    <3>2. CASE spool'[i].key # job.key
      BY <2>3, <2>4, <3>2 DEF SpoolInv
    <3> QED
      BY <3>1, <3>2
  <2> QED
    BY <2>2, <2>3, <2>4 DEF SpoolInv
<1>7. CASE Sweep
  <2>1. PICK i \in DOMAIN spool : Evict(i)
    BY <1>7 DEF Sweep
  <2>2. /\ IsSeq(spool')
        /\ \A j \in DOMAIN spool' : \E m \in DOMAIN spool : spool'[j] = spool[m]
        /\ \A j, l \in DOMAIN spool' : spool'[j].key = spool'[l].key => j = l
    BY <2>1, Evicted
  <2> QED
    BY <1>1, <2>2 DEF SpoolInv
<1> QED
  BY <1>2, <1>4, <1>5, <1>6, <1>7, Touches

(***************************************************************************)
(* The live table.                                                         *)
(***************************************************************************)

LEMMA ReconciledIs ==
    ASSUME NEW have \in Seq(Column), NEW want \in Declarations
    PROVE  /\ Reconciled(have, want) \in Seq(Column)
           /\ DOMAIN have \subseteq DOMAIN Reconciled(have, want)
           /\ \A i \in DOMAIN have :
                 \/ Reconciled(have, want)[i].type = have[i].type
                 \/ /\ i \in DOMAIN want /\ have[i].name = want[i].name
                    /\ Reconciled(have, want)[i].type = want[i].type
<1> DEFINE N == IF Len(have) > Len(want) THEN Len(have) ELSE Len(want)
           after == Reconciled(have, want)
<1>1. /\ Len(have) \in Nat /\ DOMAIN have = 1..Len(have)
      /\ Len(want) \in Nat /\ DOMAIN want = 1..Len(want) /\ want \in Seq(Column)
  BY Declared, LenProperties
<1>2. N \in Nat /\ DOMAIN have \subseteq 1..N
  BY <1>1
<1>3. DOMAIN after = 1..N
  BY DEF Reconciled
<1>4. ASSUME NEW i \in 1..N
      PROVE  /\ after[i] \in Column
             /\ i \in DOMAIN have =>
                   \/ after[i].type = have[i].type
                   \/ /\ i \in DOMAIN want /\ have[i].name = want[i].name
                      /\ after[i].type = want[i].type
  <2>1. i \in DOMAIN have => have[i] \in Column
    BY <1>1, ElementOfSeq
  <2>2. i \in DOMAIN want => want[i] \in Column
    BY <1>1, ElementOfSeq
  <2>3. PICK h, w : h = have[i] /\ w = want[i]
    OBVIOUS
  <2>4. CASE i > Len(want)
    <3>1. after[i] = have[i] /\ i \in DOMAIN have
      BY <1>1, <1>2, <2>4 DEF Reconciled
    <3> QED
      BY <2>1, <3>1
  <2>5. CASE i <= Len(want) /\ i > Len(have)
    <3>1. after[i] = [w EXCEPT !.required = FALSE] /\ i \in DOMAIN want /\ i \notin DOMAIN have
      BY <1>1, <2>3, <2>5 DEF Reconciled
    <3>2. w \in Column
      BY <2>2, <2>3, <3>1
    <3>3. [w EXCEPT !.required = FALSE] \in Column
      BY <3>2 DEF Column
    <3> QED
      BY <3>1, <3>3
  <2>6. CASE i <= Len(want) /\ i <= Len(have)
    <3>1. i \in DOMAIN want /\ i \in DOMAIN have /\ ~(i > Len(want)) /\ ~(i > Len(have))
      BY <1>1, <1>2, <2>6
    <3>2. w \in Column /\ h \in Column
      BY <2>1, <2>2, <2>3, <3>1
    <3>3. CASE h.name # w.name
      <4>1. after[i] = [h EXCEPT !.name = w.name]
        BY <2>3, <3>1, <3>3 DEF Reconciled
      <4>2. [h EXCEPT !.name = w.name] \in Column /\ [h EXCEPT !.name = w.name].type = h.type
        BY <3>2 DEF Column
      <4> QED
        BY <2>3, <4>1, <4>2
    <3>4. CASE h.name = w.name
      <4>1. after[i] = [h EXCEPT !.type = w.type]
        BY <2>3, <3>1, <3>4 DEF Reconciled
      <4>2. [h EXCEPT !.type = w.type] \in Column /\ [h EXCEPT !.type = w.type].type = w.type
        BY <3>2 DEF Column
      <4> QED
        BY <2>3, <3>1, <3>4, <4>1, <4>2
    <3> QED
      BY <3>3, <3>4
  <2> QED
    BY <1>1, <1>2, <2>4, <2>5, <2>6
<1>5. after \in Seq(Column)
  <2>1. after \in [1..N -> Column]
    BY <1>3, <1>4 DEF Reconciled
  <2> QED
    BY <1>2, <2>1, SeqDef
<1> QED
  BY <1>2, <1>3, <1>4, <1>5

\* Whatever the declaration, the live columns keep their places, and their types
\* move along promotions.
LEMMA LiveMoves ==
    ASSUME live \in Seq(Column), NEW want \in Declarations
    PROVE  /\ LiveAfter(want) \in Seq(Column)
           /\ \A i \in DOMAIN live : /\ i \in DOMAIN LiveAfter(want)
                                     /\ Agrees(live[i].type, LiveAfter(want)[i].type)
<1>1. CASE live = NoTable
  <2>1. LiveAfter(want) = want /\ want \in Seq(Column)
    BY <1>1, Declared DEF LiveAfter
  <2>2. DOMAIN live = {}
    BY <1>1 DEF NoTable
  <2> QED
    BY <2>1, <2>2
<1>2. CASE live # NoTable /\ Reconcilable(live, want)
  <2>1. LiveAfter(want) = Reconciled(live, want)
    BY <1>2 DEF LiveAfter
  <2>2. /\ Reconciled(live, want) \in Seq(Column)
        /\ DOMAIN live \subseteq DOMAIN Reconciled(live, want)
        /\ \A i \in DOMAIN live :
              \/ Reconciled(live, want)[i].type = live[i].type
              \/ /\ i \in DOMAIN want /\ live[i].name = want[i].name
                 /\ Reconciled(live, want)[i].type = want[i].type
    BY ReconciledIs
  <2>3. \A i \in DOMAIN live : i \in DOMAIN want /\ live[i].name = want[i].name =>
                                  live[i].type = want[i].type \/ <<live[i].type, want[i].type>> \in Widens
    BY <1>2 DEF Reconcilable, Narrows
  <2> QED
    BY <2>1, <2>2, <2>3 DEF Agrees
<1>3. CASE live # NoTable /\ ~Reconcilable(live, want)
  BY <1>3 DEF LiveAfter, Agrees
<1> QED
  BY <1>1, <1>2, <1>3

LEMMA LiveStep ==
    ASSUME SpoolInv, DrainInv, WriterInv, [Next]_vars
    PROVE  /\ live' \in Seq(Column)
           /\ \A i \in DOMAIN live : i \in DOMAIN live' /\ Agrees(live[i].type, live'[i].type)
<1>1. ASSUME NEW want \in Declarations, live' = LiveAfter(want)
      PROVE  /\ live' \in Seq(Column)
             /\ \A i \in DOMAIN live : i \in DOMAIN live' /\ Agrees(live[i].type, live'[i].type)
  BY <1>1, LiveMoves DEF WriterInv
<1>2. CASE UNCHANGED live
  BY <1>2 DEF WriterInv, Agrees
<1>3. CASE DrainOpens
  <2>1. SpoolRow(OldestFile).fp \in Declarations
    BY <1>3, Oldest DEF DrainOpens, Drains, SpoolInv
  <2>2. UNCHANGED live \/ live' = LiveAfter(SpoolRow(OldestFile).fp)
    BY <1>3 DEF DrainOpens
  <2> QED
    BY <1>1, <1>2, <2>1, <2>2
<1>4. CASE OpenTable
  <2>1. bin \in Declarations /\ live' = LiveAfter(bin)
    BY <1>4 DEF OpenTable, WriterInv
  <2> QED
    BY <1>1, <2>1
<1> QED
  BY <1>2, <1>3, <1>4, Touches

(***************************************************************************)
(* The drain.                                                              *)
(***************************************************************************)

LEMMA DrainStep ==
    ASSUME StagingInv, SpoolInv, DrainInv, WriterInv, [Next]_vars
    PROVE  DrainInv'
<1> SUFFICES ASSUME pc' \in Drains
             PROVE  DrainInv'
  BY DEF DrainInv
<1>1. CASE UNCHANGED vars
  <2>1. UNCHANGED <<staged, spool, mode, backlog, live, committed, pc>>
    BY <1>1 DEF vars, durable, process, catalogVars, stagingVars, spoolVars
  <2>2. OldestFile' = OldestFile /\ SpoolRow(OldestFile)' = SpoolRow(OldestFile) /\ StagedKeys' = StagedKeys
    BY <2>1 DEF OldestFile, SpoolRow, StagedKeys, Pending
  <2> QED
    BY <2>1, <2>2 DEF DrainInv, Verified
<1>2. CASE OpenWriter \/ DrainSpool
  <2>1. /\ mode' = "bucket" /\ backlog' = BacklogKeys /\ pc' = "drain"
        /\ UNCHANGED <<staged, spool>>
    BY <1>2 DEF OpenWriter, DrainSpool, Start, Drains, durable, stagingVars, spoolVars
  <2>2. ASSUME NEW k \in BacklogKeys
        PROVE  k \notin StagedKeys /\ \E i \in DOMAIN spool : spool[i].key = k /\ ~spool[i].done
    BY DEF BacklogKeys
  <2> QED
    <3>1. StagedKeys' = StagedKeys
      BY <2>1 DEF StagedKeys, Pending
    <3> QED
      BY <2>1, <2>2, <3>1 DEF DrainInv
<1>3. CASE DrainOpens
  <2>1. /\ pc = "drain" /\ backlog # {} /\ pc' = "drain put"
        /\ UNCHANGED <<staged, spool, mode, backlog>>
        /\ live' = LiveAfter(SpoolRow(OldestFile).fp) /\ Opens(SpoolRow(OldestFile).fp)
    BY <1>3 DEF DrainOpens, Down, process, stagingVars, spoolVars, Drains
  <2>2. OldestFile' = OldestFile /\ SpoolRow(OldestFile)' = SpoolRow(OldestFile) /\ StagedKeys' = StagedKeys
    BY <2>1 DEF OldestFile, SpoolRow, StagedKeys, Pending
  <2>3. PICK f : f = SpoolRow(OldestFile).fp
    OBVIOUS
  <2>4. Verified(live', f)
    BY <2>1, <2>3 DEF Opens
  <2>5. Verified(live, SpoolRow(OldestFile).fp)'
    BY <2>2, <2>3, <2>4 DEF Verified
  <2>6. /\ mode = "bucket"
        /\ \A k \in backlog : k \notin StagedKeys /\ \E i \in DOMAIN spool : spool[i].key = k /\ ~spool[i].done
    BY <2>1 DEF DrainInv, Drains
  <2> QED
    BY <2>1, <2>2, <2>5, <2>6 DEF DrainInv
<1>4. CASE DrainPuts \/ DrainCommits
  <2>1. /\ UNCHANGED <<staged, spool, mode, backlog, live>>
        /\ \/ pc = "drain put" /\ pc' = "drain commit"
           \/ pc = "drain commit" /\ pc' = "drain mark" /\ committed' = committed \union {OldestFile}
    BY <1>4 DEF DrainPuts, DrainCommits, Down, process, stagingVars, spoolVars, catalogVars, Drains
  <2>2. OldestFile' = OldestFile /\ SpoolRow(OldestFile)' = SpoolRow(OldestFile) /\ StagedKeys' = StagedKeys
    BY <2>1 DEF OldestFile, SpoolRow, StagedKeys, Pending
  <2> QED
    BY <2>1, <2>2 DEF DrainInv, Drains, Verified
<1>5. CASE DrainMarks
  <2>1. /\ pc = "drain mark" /\ pc' = "drain" /\ UNCHANGED <<staged, mode>>
        /\ MarkDone(OldestFile) /\ backlog' = backlog \ {OldestFile}
    BY <1>5 DEF DrainMarks, stagingVars
  <2>2. PICK o : o = OldestFile
    OBVIOUS
  <2>3. /\ DOMAIN spool' = DOMAIN spool
        /\ \A i \in DOMAIN spool : /\ spool'[i].key = spool[i].key
                                   /\ spool'[i].done <=> (spool[i].key = o \/ spool[i].done)
    BY <2>1, <2>2, Marked
  <2>4. ASSUME NEW k \in backlog'
        PROVE  k \notin StagedKeys /\ \E i \in DOMAIN spool' : spool'[i].key = k /\ ~spool'[i].done
    <3>1. k \in backlog /\ k # o
      BY <2>1, <2>2
    <3>2. PICK i \in DOMAIN spool : spool[i].key = k /\ ~spool[i].done
      BY <2>1, <3>1 DEF DrainInv, Drains
    <3> QED
      BY <2>1, <2>3, <3>1, <3>2 DEF DrainInv, Drains
  <2>5. mode = "bucket"
    BY <2>1 DEF DrainInv, Drains
  <2>6. StagedKeys' = StagedKeys
    BY <2>1 DEF StagedKeys, Pending
  <2> QED
    BY <2>1, <2>4, <2>5, <2>6 DEF DrainInv
<1>6. ASSUME Kill \/ DrainEnds \/ OpenTable \/ Opened
      PROVE  FALSE
  BY <1>6 DEF Kill, DrainEnds, OpenTable, Opened, Down, Drains
<1>7. ASSUME Write \/ Sweep
      PROVE  FALSE
  <2>1. ASSUME Insert \/ Sweep PROVE FALSE
    BY <2>1 DEF Insert, Sweep, Evict, Drains, Running
  <2>2. ASSUME Prepare PROVE FALSE
    BY <2>2 DEF Prepare, Quarantine, PrepareSealed, PrepareNew, Drains
  <2>3. ASSUME TakeJob \/ Ask \/ Encode \/ RecordSpoolFile \/ Upload \/ Commit \/ MarkCommitted \/ Prune PROVE FALSE
    BY <2>3 DEF TakeJob, Ask, Encode, RecordSpoolFile, Upload, Commit, MarkCommitted, Prune, Drains
  <2> QED
    BY <1>7, <2>1, <2>2, <2>3 DEF Write
<1> QED
  BY <1>1, <1>2, <1>3, <1>4, <1>5, <1>6, <1>7, Cases DEF Drain

(***************************************************************************)
(* The open writer.                                                        *)
(***************************************************************************)

\* How control moves through the writer's steps.
LEMMA WriterMoves ==
    ASSUME Write \/ Sweep
    PROVE  /\ Running /\ Running' /\ UNCHANGED <<bin, mode, live>>
           /\ pc' \in {"idle", "prepare"} \union InHands
<1>1. CASE Insert \/ Sweep
  BY <1>1 DEF Insert, Sweep, Evict, process, catalogVars, Running, InHands
<1>2. CASE TakeJob
  BY <1>2 DEF TakeJob, durable, catalogVars, Running, InHands
<1>3. CASE Prepare
  BY <1>3 DEF Prepare, Quarantine, PrepareSealed, PrepareNew, catalogVars, Running, InHands
<1>4. CASE Ask
  BY <1>4 DEF Ask, durable, catalogVars, process, Running, InHands
<1>5. CASE Encode
  BY <1>5 DEF Encode, catalogVars, process, Running, InHands
<1>6. CASE RecordSpoolFile
  BY <1>6 DEF RecordSpoolFile, catalogVars, process, Running, InHands
<1>7. CASE Upload
  BY <1>7 DEF Upload, catalogVars, process, Running, InHands
<1>8. CASE Commit
  BY <1>8 DEF Commit, process, Running, InHands
<1>9. CASE MarkCommitted
  BY <1>9 DEF MarkCommitted, catalogVars, process, Running, InHands
<1>10. CASE Prune
  BY <1>10 DEF Prune, catalogVars, Running, InHands
<1> QED
  BY <1>1, <1>2, <1>3, <1>4, <1>5, <1>6, <1>7, <1>8, <1>9, <1>10 DEF Write

LEMMA FittingStep ==
    ASSUME StagingInv, JobInv, WriterInv, Write \/ Sweep, [Next]_vars
    PROVE  Fitting'
<1>1. Running /\ Fitting /\ bin \in Declarations /\ bin' = bin
  BY WriterMoves DEF WriterInv
<1>2. CASE UNCHANGED staged
  BY <1>1, <1>2 DEF Fitting, Pending
<1>3. CASE Insert
  <2>1. PICK n, row :
           /\ DOMAIN staged' = DOMAIN staged \union {n}
           /\ staged'[n] = [fp |-> bin, values |-> row, key |-> Unsealed, dead |-> FALSE]
           /\ \A x \in DOMAIN staged : staged'[x] = staged[x]
    BY <1>3, InsertAdds
  <2>2. staged'[n].fp = bin
    BY <2>1
  <2>3. ASSUME NEW x \in DOMAIN staged', ~staged'[x].dead
        PROVE  staged'[x].fp = bin \/ Compatible(staged'[x].fp, bin)
    BY <1>1, <2>1, <2>2, <2>3 DEF Fitting, Pending
  <2> QED
    BY <1>1, <2>3 DEF Fitting, Pending
<1>4. CASE Prepare
  <2>1. CASE UNCHANGED staged
    BY <1>2, <2>1
  <2>2. ASSUME NEW k, DOMAIN staged' = DOMAIN staged,
               \A n \in job.rows \intersect DOMAIN staged :
                  staged'[n] = [staged[n] EXCEPT !.key = k, !.fp = bin, !.values = ToCurrent(n)],
               \A n \in DOMAIN staged \ job.rows : staged'[n] = staged[n]
        PROVE  Fitting'
    <3>1. ASSUME NEW x \in DOMAIN staged, ~staged'[x].dead
          PROVE  staged'[x].fp = bin \/ Compatible(staged'[x].fp, bin)
      <4>1. CASE x \in job.rows
        <5>1. PICK r, a, b, c, d, v :
                 r = staged[x] /\ r = [fp |-> a, values |-> b, key |-> c, dead |-> d] /\ v = ToCurrent(x)
          BY DEF StagingInv, RowInv
        <5>2. staged'[x] = [r EXCEPT !.key = k, !.fp = bin, !.values = v]
          BY <2>2, <4>1, <5>1
        <5>3. staged'[x].fp = bin
          BY <5>1, <5>2
        <5> QED
          BY <5>3
      <4>2. CASE x \notin job.rows
        BY <1>1, <2>2, <3>1, <4>2 DEF Fitting, Pending
      <4> QED
        BY <4>1, <4>2
    <3> QED
      BY <1>1, <2>2, <3>1 DEF Fitting, Pending
  <2>3. ASSUME DOMAIN staged' = DOMAIN staged,
               \A n \in job.rows \intersect DOMAIN staged : staged'[n] = [staged[n] EXCEPT !.dead = TRUE],
               \A n \in DOMAIN staged \ job.rows : staged'[n] = staged[n]
        PROVE  Fitting'
    <3>1. ASSUME NEW x \in DOMAIN staged, ~staged'[x].dead
          PROVE  staged'[x].fp = bin \/ Compatible(staged'[x].fp, bin)
      <4>1. x \notin job.rows
        <5>1. SUFFICES ASSUME x \in job.rows PROVE staged'[x].dead
          BY <3>1
        <5>2. PICK r, a, b, c, d :
                 r = staged[x] /\ r = [fp |-> a, values |-> b, key |-> c, dead |-> d]
          BY DEF StagingInv, RowInv
        <5>3. staged'[x] = [r EXCEPT !.dead = TRUE]
          BY <2>3, <5>1, <5>2
        <5>4. staged'[x].dead = TRUE
          BY <5>2, <5>3
        <5> QED
          BY <5>4
      <4> QED
        BY <1>1, <2>3, <3>1, <4>1 DEF Fitting, Pending
    <3> QED
      BY <1>1, <2>3, <3>1 DEF Fitting, Pending
  <2>4. bin \in Declarations
    BY <1>1
  <2> QED
    BY <1>4, <2>1, <2>2, <2>3, <2>4, Prepared
<1>5. CASE Prune
  BY <1>1, <1>5, PruneTakes DEF Fitting, Pending
<1> QED
  BY <1>2, <1>3, <1>4, <1>5, Touches

LEMMA WriterStep ==
    ASSUME StagingInv, SpoolInv, DrainInv, JobInv, WriterInv, [Next]_vars
    PROVE  WriterInv'
<1>1. live' \in Seq(Column)
  BY LiveStep
<1>2. CASE UNCHANGED vars
  <2>1. UNCHANGED <<staged, bin, mode, live, pc>>
    BY <1>2 DEF vars, durable, process, catalogVars, stagingVars
  <2> QED
    BY <2>1 DEF WriterInv, Fitting, Pending, Verified, Running
<1>3. CASE OpenWriter \/ DrainSpool
  <2>1. /\ bin' \in Shapes /\ mode' \in Modes
        /\ \/ pc' = "drain" /\ mode' = "bucket"
           \/ pc' = "shapes" /\ mode' # "bucket" /\ bin' \in Declarations
    BY <1>3 DEF OpenWriter, DrainSpool, Start, Shapes, Modes
  <2> QED
    BY <1>1, <2>1 DEF WriterInv, Running, InHands, Drains
<1>4. CASE Kill
  BY <1>1, <1>4 DEF Kill, Down, WriterInv, Running, InHands, Drains
<1>5. CASE DrainOpens \/ DrainPuts \/ DrainCommits \/ DrainMarks
  <2>1. \/ pc' = "down"
        \/ pc \in Drains /\ pc' \in Drains /\ bin' = bin
    BY <1>5 DEF DrainOpens, DrainPuts, DrainCommits, DrainMarks, Down, process, Drains
  <2> QED
    BY <1>1, <2>1 DEF WriterInv, Running, InHands, Drains
<1>6. CASE DrainEnds
  <2>1. \/ pc' = "down"
        \/ pc' = "table" /\ bin' = bin /\ bin \in Declarations /\ mode' = mode /\ mode = "bucket"
    BY <1>6 DEF DrainEnds, Down, process, Drains, WriterInv, DrainInv, Shapes
  <2> QED
    BY <1>1, <2>1 DEF WriterInv, Running, InHands, Drains
<1>7. CASE OpenTable
  <2>1. \/ pc' = "down"
        \/ pc' = "shapes" /\ bin' = bin /\ bin \in Declarations /\ Verified(live', bin)
    BY <1>7 DEF OpenTable, Down, process, WriterInv, Opens
  <2> QED
    BY <1>1, <2>1 DEF WriterInv, Running, InHands, Drains, Verified
<1>8. CASE Opened
  <2>1. /\ UNCHANGED <<live, staged>>
        /\ \/ pc' = "down"
           \/ pc' = "idle" /\ bin' = bin /\ bin \in Declarations /\ mode' = mode /\ PendingMappable
              /\ (mode = "bucket" => Verified(live, bin))
    BY <1>8 DEF Opened, Down, durable, catalogVars, stagingVars, WriterInv
  <2>2. PendingMappable => Fitting
    BY DEF PendingMappable, Fitting
  <2> QED
    BY <1>1, <2>1, <2>2 DEF WriterInv, Running, InHands, Drains, Verified, Fitting, Pending
<1>9. CASE Write \/ Sweep
  <2>1. Fitting'
    BY <1>9, FittingStep
  <2>2. /\ Running /\ Running' /\ UNCHANGED <<bin, mode, live>>
        /\ pc' \in {"idle", "prepare"} \union InHands
    BY <1>9, WriterMoves
  <2>3. pc' \notin Drains /\ pc' # "table" /\ pc' # "shapes"
    BY <2>2 DEF InHands, Drains
  <2>4. bin \in Declarations /\ (mode = "bucket" => Verified(live, bin))
    BY <2>2 DEF WriterInv
  <2> QED
    BY <1>1, <2>1, <2>2, <2>3, <2>4 DEF WriterInv, Verified
<1> QED
  BY <1>2, <1>3, <1>4, <1>5, <1>6, <1>7, <1>8, <1>9, Cases DEF Drain

(***************************************************************************)
(* The batch in hand.                                                      *)
(***************************************************************************)

LEMMA StagedKey ==
    ASSUME NEW n \in Pending, staged[n].key # Unsealed
    PROVE  staged[n].key \in StagedKeys
  BY DEF StagedKeys

LEMMA KeyStaged ==
    ASSUME NEW k \in StagedKeys
    PROVE  k # Unsealed /\ \E n \in Pending : n \in DOMAIN staged /\ staged[n].key = k
  BY DEF StagedKeys, Pending

\* A batch that is staged and not in hand stays staged, and pending.
LEMMA OthersStay ==
    ASSUME StagingInv, JobInv, WriterInv, [Next]_vars, NEW k \in StagedKeys,
           pc \in {"prepare", "prune"} => k # job.key
    PROVE  k \in StagedKeys'
<1>1. PICK n \in Pending : n \in DOMAIN staged /\ staged[n].key = k /\ k # Unsealed
  BY KeyStaged
<1>2. ~staged[n].dead
  BY DEF Pending
<1>3. SUFFICES n \in DOMAIN staged' /\ staged'[n] = staged[n]
  BY <1>1, <1>2 DEF StagedKeys, Pending
<1>4. CASE UNCHANGED staged
  BY <1>1, <1>4
<1>5. CASE Insert
  BY <1>1, <1>5, InsertAdds
<1>6. CASE Prepare
  <2>1. pc = "prepare" /\ bin \in Declarations
    BY <1>6 DEF Prepare, WriterInv, Running
  <2>2. n \notin job.rows
    BY <1>1, <2>1 DEF JobInv, InHand
  <2> QED
    BY <1>1, <1>6, <2>1, <2>2, Prepared
<1>7. CASE Prune
  <2>1. n \notin job.rows
    BY <1>1, <1>7 DEF Prune, JobInv, InHand, InHands
  <2> QED
    BY <1>1, <1>7, <2>1, PruneTakes
<1> QED
  BY <1>4, <1>5, <1>6, <1>7, Touches

LEMMA TakeJobTakes ==
    ASSUME StagingInv, JobInv, TakeJob
    PROVE  JobInv'
<1>1. /\ pc = "idle" /\ pc' = "prepare" /\ UNCHANGED staged /\ Running
      /\ Pending' = Pending /\ StagedKeys' = StagedKeys
  BY DEF TakeJob, durable, stagingVars, Running, Pending, StagedKeys
<1>2. DOMAIN staged \subseteq Nat
  BY DEF StagingInv, RowInv
<1>3. CASE replays # {}
  <2> DEFINE S == {n \in Pending : staged[n].key \in replays}
  <2>1. PICK k : k \in replays /\ k \in StagedKeys
    BY <1>1, <1>3 DEF JobInv
  <2>2. S # {} /\ S \subseteq Nat
    BY <1>2, <2>1, KeyStaged DEF Pending
  <2>3. Min(S) \in S
    BY <2>2, NatMin
  <2>4. PICK o, m : o = OldestBatch /\ m = Min(S)
    OBVIOUS
  <2>5. o = staged[m].key /\ m \in Pending /\ m \in DOMAIN staged /\ o \in replays
    BY <2>3, <2>4 DEF OldestBatch, Pending
  <2>6. o # Unsealed
    BY <1>1, <2>5, KeyStaged DEF JobInv
  <2>7. PICK R : R = {n \in Pending : staged[n].key = o}
    OBVIOUS
  <2>8. job' = [key |-> o, rows |-> R, replayed |-> TRUE] /\ replays' = replays \ {o}
    BY <1>3, <2>4, <2>7 DEF TakeJob
  <2>9. job'.key = o /\ job'.rows = R /\ job'.replayed = TRUE
    BY <2>8
  <2>10. R = o.rows
    <3>1. \A n \in R : n \in o.rows
      BY <2>6, <2>7 DEF StagingInv, Keyed, Pending
    <3>2. \A n \in o.rows : n \in DOMAIN staged /\ staged[n].key = o /\ staged[n].dead = staged[m].dead
      BY <2>5, <2>6 DEF StagingInv, Keyed
    <3>3. \A n \in o.rows : n \in R
      BY <2>5, <2>7, <3>2 DEF Pending
    <3> QED
      BY <3>1, <3>3
  <2>11. m \in R
    BY <2>5, <2>7
  <2>12. InHand'
    BY <1>1, <2>6, <2>7, <2>9, <2>10, <2>11 DEF InHand
  <2>13. \A j \in replays' : j \in StagedKeys' /\ j # job'.key
    BY <1>1, <2>8, <2>9 DEF JobInv
  <2>14. job' = [key |-> job'.key, rows |-> job'.rows, replayed |-> job'.replayed]
    BY <2>8
  <2> QED
    BY <1>1, <2>6, <2>9, <2>12, <2>13, <2>14 DEF JobInv, InHands
<1>4. CASE replays = {}
  <2>1. PICK n \in Loose : job' = [key |-> Unsealed, rows |-> {m \in Loose : m <= n}, replayed |-> FALSE]
    BY <1>4 DEF TakeJob
  <2>2. PICK R : R = {m \in Loose : m <= n}
    OBVIOUS
  <2>3. job' = [key |-> Unsealed, rows |-> R, replayed |-> FALSE]
    BY <2>1, <2>2
  <2>4. job'.key = Unsealed /\ job'.rows = R
    BY <2>3
  <2>5. n \in Nat
    BY <1>2 DEF Loose, Pending
  <2>6. n \in R
    BY <2>2, <2>5
  <2>7. \A m \in R : m \in Pending' /\ staged'[m].key = Unsealed
    BY <1>1, <2>2 DEF Loose
  <2>8. replays' = {}
    BY <1>4 DEF TakeJob
  <2>9. job' = [key |-> job'.key, rows |-> job'.rows, replayed |-> job'.replayed]
    BY <2>3
  <2> QED
    BY <1>1, <2>4, <2>6, <2>7, <2>8, <2>9 DEF JobInv, InHands
<1> QED
  BY <1>3, <1>4

LEMMA PrepareKeeps ==
    ASSUME StagingInv, JobInv, WriterInv, Prepare, [Next]_vars
    PROVE  JobInv'
<1>1. /\ pc = "prepare" /\ Running /\ bin \in Declarations /\ replays' = replays
      /\ \A k \in replays : k \in StagedKeys /\ k # job.key
  BY DEF Prepare, WriterInv, JobInv, Running
<1>2. \A k \in replays' : k \in StagedKeys'
  BY <1>1, OthersStay
<1>3. CASE /\ UNCHANGED <<staged, job>> /\ job.key # Unsealed
           /\ pc' = IF mode = "bucket" THEN "asked" ELSE "encode"
  <2>1. InHand'
    BY <1>1, <1>3 DEF JobInv, InHand, Pending
  <2>2. pc' \in InHands /\ pc' # "prepare"
    BY <1>3 DEF InHands
  <2> QED
    BY <1>1, <1>2, <1>3, <2>1, <2>2 DEF JobInv
<1>4. ASSUME NEW k, k = [shape |-> bin, rows |-> job.rows], k # Unsealed, k.rows = job.rows,
             job.key = Unsealed, job' = [key |-> k, rows |-> job.rows, replayed |-> job.replayed],
             DOMAIN staged' = DOMAIN staged,
             \A n \in job.rows \intersect DOMAIN staged :
                staged'[n] = [staged[n] EXCEPT !.key = k, !.fp = bin, !.values = ToCurrent(n)],
             pc' = "encode"
      PROVE  JobInv'
  <2>1. job'.key = k /\ job'.rows = job.rows
    BY <1>4
  <2>2. \A n \in job.rows : n \in Pending /\ staged[n].key = Unsealed
    BY <1>1, <1>4 DEF JobInv
  <2>3. ASSUME NEW n \in job.rows
        PROVE  n \in Pending' /\ staged'[n].key = k
    <3>1. PICK r, a, b, c, d, v :
             r = staged[n] /\ r = [fp |-> a, values |-> b, key |-> c, dead |-> d] /\ v = ToCurrent(n)
      BY <2>2 DEF StagingInv, RowInv, Pending
    <3>2. staged'[n] = [r EXCEPT !.key = k, !.fp = bin, !.values = v]
      BY <1>4, <2>2, <3>1 DEF Pending
    <3>3. staged'[n].key = k /\ staged'[n].dead = d
      BY <3>1, <3>2
    <3>4. staged'[n].dead = staged[n].dead
      BY <3>1, <3>3
    <3> QED
      BY <1>4, <2>2, <3>3, <3>4 DEF Pending
  <2>4. job.rows # {}
    BY <1>1, <1>4 DEF JobInv
  <2>5. InHand'
    BY <1>4, <2>1, <2>3, <2>4 DEF InHand
  <2>6. ASSUME NEW j \in replays
        PROVE  j # k
    <3>1. PICK n \in Pending : n \in DOMAIN staged /\ staged[n].key = j /\ j # Unsealed
      BY <1>1, KeyStaged
    <3>2. n \in j.rows /\ n \notin job.rows
      BY <2>2, <3>1 DEF StagingInv, Keyed
    <3> QED
      BY <1>4, <3>2
  <2>7. job' = [key |-> job'.key, rows |-> job'.rows, replayed |-> job'.replayed]
    BY <1>4
  <2> QED
    BY <1>1, <1>2, <1>4, <2>1, <2>5, <2>6, <2>7 DEF JobInv, InHands
<1>5. CASE job' = NoJob /\ pc' = "idle"
  <2>1. job' = [key |-> job'.key, rows |-> job'.rows, replayed |-> job'.replayed]
    BY <1>5 DEF NoJob
  <2> QED
    BY <1>2, <1>5, <2>1 DEF JobInv, InHands
<1> QED
  BY <1>1, <1>3, <1>4, <1>5, Prepared

LEMMA JobStep ==
    ASSUME StagingInv, JobInv, WriterInv, [Next]_vars
    PROVE  JobInv'
<1>1. ASSUME UNCHANGED <<job, staged, replays>>, Running' => Running,
             pc' \in InHands => pc \in InHands, pc' = "prepare" => pc = "prepare",
             Running' /\ pc' # "idle" => pc # "idle"
      PROVE  JobInv'
  <2>1. StagedKeys' = StagedKeys /\ InHand' = InHand
    BY <1>1 DEF StagedKeys, InHand, Pending
  <2>2. /\ job' = [key |-> job'.key, rows |-> job'.rows, replayed |-> job'.replayed]
        /\ pc' = "prepare" /\ job'.key = Unsealed =>
              job'.rows # {} /\ \A n \in job'.rows : n \in Pending' /\ staged'[n].key = Unsealed
        /\ pc' = "prepare" /\ job'.key # Unsealed => job'.replayed
    BY <1>1 DEF JobInv, Pending
  <2>3. pc' \in InHands \/ (pc' = "prepare" /\ job'.key # Unsealed) => InHand'
    BY <1>1, <2>1 DEF JobInv
  <2>4. Running' => \A k \in replays' : k \in StagedKeys' /\ (pc' # "idle" => k # job'.key)
    BY <1>1, <2>1 DEF JobInv
  <2> QED
    BY <2>2, <2>3, <2>4 DEF JobInv
<1>2. ASSUME pc' \in {"down", "table", "shapes"} \union Drains, job' = job \/ job' = NoJob
      PROVE  JobInv'
  <2>1. job' = [key |-> job'.key, rows |-> job'.rows, replayed |-> job'.replayed]
    BY <1>2 DEF JobInv, NoJob
  <2>2. ~Running' /\ pc' \notin InHands /\ pc' # "prepare"
    BY <1>2 DEF Running, InHands, Drains
  <2> QED
    BY <2>1, <2>2 DEF JobInv
<1>3. CASE UNCHANGED vars
  BY <1>1, <1>3 DEF vars, durable, process, stagingVars, Running
<1>4. CASE OpenWriter \/ DrainSpool \/ Kill
  BY <1>2, <1>4 DEF OpenWriter, DrainSpool, Start, Kill, Down, Drains
<1>5. CASE Drain
  BY <1>2, <1>5 DEF Drain, DrainOpens, DrainPuts, DrainCommits, DrainMarks, DrainEnds, Down, process, Drains
<1>6. CASE OpenTable
  BY <1>2, <1>6 DEF OpenTable, Down, process
<1>7. CASE Opened
  <2>1. CASE pc' = "down"
    BY <1>2, <1>7, <2>1 DEF Opened, Down
  <2>2. CASE pc' # "down"
    <3>1. pc' = "idle" /\ replays' = StagedKeys /\ job' = job /\ staged' = staged
      BY <1>7, <2>2 DEF Opened, Down, durable, stagingVars
    <3>2. StagedKeys' = StagedKeys
      BY <3>1 DEF StagedKeys, Pending
    <3> QED
      BY <3>1, <3>2 DEF JobInv, InHands
  <2> QED
    BY <2>1, <2>2
<1>8. CASE Insert
  <2>1. Running /\ UNCHANGED <<job, replays, pc>>
    BY <1>8 DEF Insert, process
  <2>2. DOMAIN staged \subseteq DOMAIN staged' /\ \A x \in DOMAIN staged : staged'[x] = staged[x]
    BY <1>8, InsertAdds
  <2>3. \A n \in Pending : n \in Pending' /\ staged'[n] = staged[n]
    BY <2>2 DEF Pending
  <2>4. InHand => InHand'
    BY <2>1, <2>3 DEF InHand
  <2>5. \A k \in replays' : k \in StagedKeys'
    BY <2>1, <2>3 DEF JobInv, StagedKeys
  <2>6. pc = "prepare" /\ job.key = Unsealed =>
           job.rows # {} /\ \A n \in job.rows : n \in Pending' /\ staged'[n].key = Unsealed
    BY <2>3 DEF JobInv
  <2>7. Running'
    BY <2>1 DEF Running
  <2> QED
    BY <2>1, <2>4, <2>5, <2>6 DEF JobInv
<1>9. CASE Prune
  <2>1. /\ job' = NoJob /\ pc' = "idle" /\ replays' = replays /\ pc = "prune" /\ Running
    BY <1>9 DEF Prune, Running
  <2>2. \A k \in replays' : k \in StagedKeys'
    BY <2>1, OthersStay DEF JobInv
  <2> QED
    BY <2>1, <2>2 DEF JobInv, NoJob, InHands
<1>10. CASE Ask \/ Encode \/ RecordSpoolFile \/ Upload \/ Commit \/ MarkCommitted
  BY <1>1, <1>10 DEF Ask, Encode, RecordSpoolFile, Upload, Commit, MarkCommitted, durable, process,
                     stagingVars, Running, InHands
<1>11. CASE Sweep
  BY <1>1, <1>11 DEF Sweep, Evict, process, stagingVars, Running
<1> QED
  BY <1>3, <1>4, <1>5, <1>6, <1>7, <1>8, <1>9, <1>10, <1>11, TakeJobTakes, PrepareKeeps, Cases DEF Write

(***************************************************************************)
(* The attempt at it.                                                      *)
(***************************************************************************)

LEMMA PrepareAttempts ==
    ASSUME FileInv, StagingInv, JobInv, WriterInv, Prepare
    PROVE  AttemptInv'
<1>1. /\ pc = "prepare" /\ Running /\ bin \in Declarations /\ UNCHANGED <<committed, mode>>
  BY DEF Prepare, WriterInv, Running, catalogVars
<1>2. CASE job.key # Unsealed /\ pc' = IF mode = "bucket" THEN "asked" ELSE "encode"
  BY <1>1, <1>2 DEF AttemptInv
<1>3. ASSUME NEW k, k.rows = job.rows, k # Unsealed, job.key = Unsealed,
             job' = [key |-> k, rows |-> job.rows, replayed |-> job.replayed], pc' = "encode"
      PROVE  AttemptInv'
  <2>1. job'.key = k
    BY <1>3
  <2>2. k \notin committed
    <3>1. PICK n : n \in job.rows /\ n \in DOMAIN staged /\ staged[n].key = Unsealed
      BY <1>1, <1>3 DEF JobInv, Pending
    <3> QED
      BY <1>3, <3>1 DEF FileInv, Bears
  <2> QED
    BY <1>1, <1>3, <2>1, <2>2 DEF AttemptInv
<1>4. CASE pc' = "idle"
  BY <1>4 DEF AttemptInv
<1> QED
  BY <1>1, <1>2, <1>3, <1>4, Prepared

\* The sweeper leaves the file of a batch that is not committed.
LEMMA SweepSpares ==
    ASSUME SpoolInv, JobInv, AttemptInv, WriterInv, Sweep
    PROVE  AttemptInv'
<1>1. PICK i \in DOMAIN spool : Evict(i)
  BY DEF Sweep
<1>2. /\ spool[i].done /\ mode = "bucket"
      /\ \A j \in DOMAIN spool' : \E m \in DOMAIN spool \ {i} : spool'[j] = spool[m]
      /\ DOMAIN files' = DOMAIN files \ {spool[i].key}
      /\ \A k \in DOMAIN files' : files'[k] = files[k]
  BY <1>1, Evicted
<1>3. UNCHANGED <<pc, mode, bin, job, committed, objects>>
  BY <1>1 DEF Evict, process, catalogVars
<1>4. spool[i].key \in committed
  BY <1>2 DEF SpoolInv
<1>5. pc = "spool row" => job.key \in DOMAIN files' /\ files'[job.key].shape = bin
  BY <1>2, <1>4 DEF AttemptInv
<1>6. ASSUME pc \in {"upload", "commit", "prune"},
             NEW j \in DOMAIN spool', spool'[j].key = job.key, ~spool'[j].done
      PROVE  spool'[j].key \in DOMAIN files' /\ files'[spool'[j].key].shape = spool'[j].fp
  <2>1. PICK m \in DOMAIN spool \ {i} : spool'[j] = spool[m]
    BY <1>2
  <2>2. OnDisk(m)
    BY <1>6, <2>1 DEF AttemptInv
  <2>3. spool[m].key # spool[i].key
    BY <2>1 DEF SpoolInv
  <2> QED
    BY <1>2, <2>1, <2>2, <2>3 DEF OnDisk
<1> QED
  BY <1>3, <1>5, <1>6 DEF AttemptInv, OnDisk

LEMMA AttemptStep ==
    ASSUME FileInv, StagingInv, SpoolInv, JobInv, AttemptInv, WriterInv, [Next]_vars
    PROVE  AttemptInv'
<1>1. ASSUME UNCHANGED <<pc, mode, bin, job, committed, files, spool, objects>>
      PROVE  AttemptInv'
  BY <1>1 DEF AttemptInv, OnDisk
<1>2. ASSUME pc' \in {"down", "table", "shapes", "idle", "prepare"} \union Drains
      PROVE  AttemptInv'
  BY <1>2 DEF AttemptInv, Drains
<1>3. CASE UNCHANGED vars
  BY <1>1, <1>3 DEF vars, durable, process, catalogVars, spoolVars
<1>4. CASE OpenWriter \/ DrainSpool \/ Kill
  BY <1>2, <1>4 DEF OpenWriter, DrainSpool, Start, Kill, Down, Drains
<1>5. CASE Drain
  BY <1>2, <1>5 DEF Drain, DrainOpens, DrainPuts, DrainCommits, DrainMarks, DrainEnds, Down, Drains
<1>6. CASE OpenTable \/ Opened \/ TakeJob \/ Prune
  BY <1>2, <1>6 DEF OpenTable, Opened, Down, TakeJob, Prune
<1>7. CASE Insert
  BY <1>1, <1>7 DEF Insert, process, catalogVars, spoolVars
<1>8. CASE Ask
  <2>1. /\ pc = "asked" /\ UNCHANGED <<mode, job, committed>>
        /\ pc' = IF job.key \in committed THEN "mark" ELSE "encode"
    BY <1>8 DEF Ask, durable, process, catalogVars
  <2> QED
    BY <2>1 DEF AttemptInv
<1>9. CASE Encode
  <2>1. \E f : f = File /\ f.shape = bin
    <3>1. File.shape = bin
      BY DEF File
    <3> QED
      BY <3>1
  <2>2. PICK f : f = File /\ f.shape = bin
    BY <2>1
  <2>3. /\ pc = "encode" /\ pc' = "spool row" /\ UNCHANGED <<mode, bin, job, committed>>
        /\ files' = Put(files, job.key, f)
    BY <1>9, <2>2 DEF Encode, process, catalogVars
  <2> QED
    BY <2>2, <2>3 DEF AttemptInv, Put
<1>10. CASE RecordSpoolFile
  <2>1. /\ pc = "spool row" /\ UNCHANGED <<mode, bin, job, committed, files>>
        /\ pc' = IF mode = "bucket" THEN "upload" ELSE "prune"
    BY <1>10 DEF RecordSpoolFile, process, catalogVars
  <2>2. ASSUME NEW i \in DOMAIN spool', spool'[i].key = job.key
        PROVE  spool'[i].fp = bin
    <3>1. CASE i \in DOMAIN spool /\ spool[i].key # job.key /\ spool'[i] = spool[i]
      BY <2>2, <3>1
    <3>2. CASE spool'[i] = [key |-> job.key, fp |-> bin, done |-> spool'[i].done]
      BY <3>2
    <3> QED
      BY <1>10, <3>1, <3>2, Recorded
  <2>3. job.key \in DOMAIN files /\ files[job.key].shape = bin
    BY <2>1 DEF AttemptInv
  <2> QED
    BY <2>1, <2>2, <2>3 DEF AttemptInv, OnDisk
<1>11. CASE Upload
  <2>1. \E f : f = File /\ f.shape = bin
    <3>1. File.shape = bin
      BY DEF File
    <3> QED
      BY <3>1
  <2>2. PICK f : f = File /\ f.shape = bin
    BY <2>1
  <2>3. /\ pc = "upload" /\ pc' = "commit" /\ UNCHANGED <<mode, bin, job, committed, files, spool>>
        /\ objects' = Put(objects, job.key, f)
    BY <1>11, <2>2 DEF Upload, process, catalogVars, spoolVars
  <2> QED
    BY <2>2, <2>3 DEF AttemptInv, Put, OnDisk
<1>12. CASE Commit
  <2>1. /\ pc = "commit" /\ pc' = "mark" /\ UNCHANGED <<mode, job>>
        /\ committed' = committed \union {job.key}
    BY <1>12 DEF Commit, process
  <2> QED
    BY <2>1 DEF AttemptInv
<1>13. CASE MarkCommitted
  <2>1. /\ pc = "mark" /\ pc' = "prune" /\ UNCHANGED <<mode, job>> /\ MarkDone(job.key)
    BY <1>13 DEF MarkCommitted, process
  <2>2. PICK k : k = job.key
    OBVIOUS
  <2>3. \A i \in DOMAIN spool' : spool'[i].key = k => spool'[i].done
    BY <2>1, <2>2, Marked
  <2> QED
    BY <2>1, <2>2, <2>3 DEF AttemptInv
<1> QED
  BY <1>3, <1>4, <1>5, <1>6, <1>7, <1>8, <1>9, <1>10, <1>11, <1>12, <1>13,
     PrepareAttempts, SweepSpares, Cases DEF Write

(***************************************************************************)
(* What is staged or spooled can be moved.                                 *)
(***************************************************************************)

LEMMA DescriptorsStep ==
    ASSUME StagingInv, SpoolInv, JobInv, WriterInv, DescriptorsKept, [Next]_vars
    PROVE  DescriptorsKept'
<1>1. \A n \in DOMAIN staged' : staged'[n].fp \in stagingShapes'
  <2>1. CASE UNCHANGED <<staged, stagingShapes>>
    BY <2>1 DEF DescriptorsKept
  <2>2. CASE Insert
    <3>1. PICK n, row :
             /\ DOMAIN staged' = DOMAIN staged \union {n}
             /\ staged'[n] = [fp |-> bin, values |-> row, key |-> Unsealed, dead |-> FALSE]
             /\ \A x \in DOMAIN staged : staged'[x] = staged[x]
      BY <2>2, InsertAdds
    <3>2. staged'[n].fp = bin
      BY <3>1
    <3>3. stagingShapes' = stagingShapes \union {bin}
      BY <2>2 DEF Insert
    <3> QED
      BY <3>1, <3>2, <3>3 DEF DescriptorsKept
  <2>3. CASE Prepare
    <3>1. bin \in Declarations
      BY <2>3 DEF Prepare, WriterInv, Running
    <3>2. ASSUME NEW k, DOMAIN staged' = DOMAIN staged, stagingShapes' = stagingShapes \union {bin},
                 \A n \in job.rows \intersect DOMAIN staged :
                    staged'[n] = [staged[n] EXCEPT !.key = k, !.fp = bin, !.values = ToCurrent(n)],
                 \A n \in DOMAIN staged \ job.rows : staged'[n] = staged[n],
                 NEW n \in DOMAIN staged
          PROVE  staged'[n].fp \in stagingShapes'
      <4>1. CASE n \in job.rows
        <5>1. PICK r, a, b, c, d, v :
                 r = staged[n] /\ r = [fp |-> a, values |-> b, key |-> c, dead |-> d] /\ v = ToCurrent(n)
          BY DEF StagingInv, RowInv
        <5>2. staged'[n] = [r EXCEPT !.key = k, !.fp = bin, !.values = v]
          BY <3>2, <4>1, <5>1
        <5>3. staged'[n].fp = bin
          BY <5>1, <5>2
        <5> QED
          BY <3>2, <5>3
      <4>2. CASE n \notin job.rows
        BY <3>2, <4>2 DEF DescriptorsKept
      <4> QED
        BY <4>1, <4>2
    <3>3. ASSUME DOMAIN staged' = DOMAIN staged, stagingShapes' = stagingShapes,
                 \A n \in job.rows \intersect DOMAIN staged : staged'[n] = [staged[n] EXCEPT !.dead = TRUE],
                 \A n \in DOMAIN staged \ job.rows : staged'[n] = staged[n],
                 NEW n \in DOMAIN staged
          PROVE  staged'[n].fp \in stagingShapes'
      <4>1. CASE n \in job.rows
        <5>1. PICK r, a, b, c, d : r = staged[n] /\ r = [fp |-> a, values |-> b, key |-> c, dead |-> d]
          BY DEF StagingInv, RowInv
        <5>2. staged'[n] = [r EXCEPT !.dead = TRUE]
          BY <3>3, <4>1, <5>1
        <5>3. staged'[n].fp = staged[n].fp
          BY <5>1, <5>2
        <5> QED
          BY <3>3, <5>3 DEF DescriptorsKept
      <4>2. CASE n \notin job.rows
        BY <3>3, <4>2 DEF DescriptorsKept
      <4> QED
        BY <4>1, <4>2
    <3> QED
      BY <2>1, <2>3, <3>1, <3>2, <3>3, Prepared
  <2>4. CASE Prune
    <3>1. stagingShapes' = stagingShapes \intersect {staged'[n].fp : n \in DOMAIN staged'}
      BY <2>4 DEF Prune, NamedShapes
    <3> QED
      BY <2>4, <3>1, PruneTakes DEF DescriptorsKept
  <2> QED
    BY <2>1, <2>2, <2>3, <2>4, Touches
<1>2. \A i \in DOMAIN spool' : spool'[i].fp \in spoolShapes'
  <2>1. CASE UNCHANGED <<spool, spoolShapes>>
    BY <2>1 DEF DescriptorsKept
  <2>2. CASE DrainMarks \/ MarkCommitted
    <3>1. spoolShapes' = spoolShapes /\ \E k : MarkDone(k)
      BY <2>2 DEF DrainMarks, MarkCommitted
    <3> QED
      BY <3>1, Marked DEF DescriptorsKept
  <2>3. CASE RecordSpoolFile
    <3>1. spoolShapes' = spoolShapes \union {bin}
      BY <2>3 DEF RecordSpoolFile
    <3>2. ASSUME NEW i \in DOMAIN spool'
          PROVE  spool'[i].fp \in spoolShapes'
      <4>1. CASE i \in DOMAIN spool /\ spool'[i] = spool[i]
        BY <3>1, <4>1 DEF DescriptorsKept
      <4>2. CASE spool'[i] = [key |-> job.key, fp |-> bin, done |-> spool'[i].done]
        <5>1. spool'[i].fp = bin
          BY <4>2
        <5> QED
          BY <3>1, <5>1
      <4> QED
        BY <2>3, <4>1, <4>2, Recorded
    <3> QED
      BY <3>2
  <2>4. CASE Sweep
    <3>1. PICK i \in DOMAIN spool : Evict(i)
      BY <2>4 DEF Sweep
    <3>2. \A j \in DOMAIN spool' : \E m \in DOMAIN spool : spool'[j] = spool[m]
      BY <3>1, Evicted
    <3>3. spoolShapes' = spoolShapes \intersect {spool'[j].fp : j \in DOMAIN spool'}
      BY <3>1 DEF Evict
    <3> QED
      BY <3>2, <3>3 DEF DescriptorsKept
  <2> QED
    BY <2>1, <2>2, <2>3, <2>4, Touches
<1> QED
  BY <1>1, <1>2 DEF DescriptorsKept

Exempt == StagedKeys \union QuarantinedKeys

\* A file whose batch is staged or quarantined stays so until it is pruned.
LEMMA ExemptStay ==
    ASSUME StagingInv, JobInv, WriterInv, [Next]_vars, NEW k \in Exempt, ~Prune \/ k # job.key
    PROVE  k \in Exempt'
<1>1. PICK n \in DOMAIN staged : staged[n].key = k /\ (staged[n].dead \/ k # Unsealed)
  BY DEF Exempt, StagedKeys, QuarantinedKeys, Pending
<1>2. SUFFICES /\ n \in DOMAIN staged' /\ staged'[n].key = k
               /\ staged[n].dead => staged'[n].dead
  <2>1. n \in DOMAIN staged' /\ staged'[n].key = k /\ (staged'[n].dead \/ k # Unsealed)
    BY <1>1, <1>2
  <2> QED
    BY <2>1 DEF Exempt, StagedKeys, QuarantinedKeys, Pending
<1>3. CASE staged' = staged
  BY <1>1, <1>3
<1>4. CASE Insert
  BY <1>1, <1>4, InsertAdds
<1>5. CASE Prepare
  <2>1. pc = "prepare" /\ bin \in Declarations
    BY <1>5 DEF Prepare, WriterInv, Running
  <2>2. job.rows \subseteq Pending /\ \A m \in job.rows : staged[m].key = job.key
    BY <2>1 DEF JobInv, InHand
  <2>3. n \in job.rows => ~staged[n].dead /\ job.key # Unsealed
    BY <1>1, <2>2 DEF Pending
  <2>4. ASSUME \A m \in job.rows \intersect DOMAIN staged : staged'[m] = [staged[m] EXCEPT !.dead = TRUE],
               n \in job.rows
        PROVE  staged'[n].key = k
    <3>1. PICK r, a, b, c, d : r = staged[n] /\ r = [fp |-> a, values |-> b, key |-> c, dead |-> d]
      BY DEF StagingInv, RowInv
    <3>2. staged'[n] = [r EXCEPT !.dead = TRUE]
      BY <2>4, <3>1
    <3> QED
      BY <1>1, <3>1, <3>2
  <2> QED
    BY <1>1, <1>5, <2>1, <2>3, <2>4, Prepared
<1>6. CASE Prune
  <2>1. n \notin job.rows
    BY <1>1, <1>6 DEF Prune, JobInv, InHand, InHands
  <2> QED
    BY <1>1, <1>6, <2>1, PruneTakes
<1> QED
  BY <1>3, <1>4, <1>5, <1>6, Touches

LEMMA InHandExempt ==
    ASSUME InHand
    PROVE  job.key \in Exempt
<1>1. PICK n : n \in job.rows /\ n \in Pending /\ staged[n].key = job.key /\ job.key # Unsealed
  BY DEF InHand
<1> QED
  BY <1>1, StagedKey DEF Exempt

LEMMA BacklogStep ==
    ASSUME StagingInv, SpoolInv, JobInv, AttemptInv, WriterInv, BacklogShapeAgrees, [Next]_vars
    PROVE  BacklogShapeAgrees'
<1>1. \A i \in DOMAIN spool : ~spool[i].done /\ spool[i].key \notin Exempt => OnDisk(i)
  BY DEF BacklogShapeAgrees, Exempt, OnDisk
<1>2. SUFFICES ASSUME NEW i \in DOMAIN spool', ~spool'[i].done, spool'[i].key \notin Exempt'
               PROVE  spool'[i].key \in DOMAIN files' /\ files'[spool'[i].key].shape = spool'[i].fp
  BY DEF BacklogShapeAgrees, Exempt
<1>3. CASE UNCHANGED <<spool, files>>
  <2>1. CASE Prune /\ spool[i].key = job.key
    <3>1. pc = "prune"
      BY <2>1 DEF Prune
    <3> QED
      BY <1>2, <1>3, <2>1, <3>1 DEF AttemptInv, OnDisk
  <2>2. CASE ~Prune \/ spool[i].key # job.key
    <3>1. spool[i].key \notin Exempt
      BY <1>2, <1>3, <2>2, ExemptStay
    <3> QED
      BY <1>1, <1>2, <1>3, <3>1 DEF OnDisk
  <2> QED
    BY <2>1, <2>2
<1>4. CASE DrainMarks \/ MarkCommitted
  <2>1. files' = files /\ ~Prune /\ \E k : MarkDone(k)
    BY <1>4 DEF DrainMarks, MarkCommitted, Prune
  <2>2. /\ i \in DOMAIN spool /\ spool'[i].key = spool[i].key /\ spool'[i].fp = spool[i].fp
        /\ ~spool[i].done
    BY <1>2, <2>1, Marked
  <2>3. spool[i].key \notin Exempt
    BY <1>2, <2>1, <2>2, ExemptStay
  <2> QED
    BY <1>1, <2>1, <2>2, <2>3 DEF OnDisk
<1>5. CASE Encode
  <2>1. PICK f : f = File
    OBVIOUS
  <2>2. pc = "encode" /\ spool' = spool /\ ~Prune /\ files' = Put(files, job.key, f)
    BY <1>5, <2>1 DEF Encode, Prune
  <2>3. job.key \in Exempt
    BY <2>2, InHandExempt DEF JobInv, InHands
  <2>4. spool[i].key \notin Exempt
    BY <1>2, <2>2, ExemptStay
  <2> QED
    BY <1>1, <1>2, <2>2, <2>3, <2>4 DEF OnDisk, Put
<1>6. CASE RecordSpoolFile
  <2>1. pc = "spool row" /\ files' = files /\ ~Prune
    BY <1>6 DEF RecordSpoolFile, Prune
  <2>2. job.key \in Exempt'
    BY <2>1, InHandExempt, ExemptStay DEF JobInv, InHands
  <2>3. i \in DOMAIN spool /\ spool'[i] = spool[i]
    <3>1. CASE spool'[i] = [key |-> job.key, fp |-> bin, done |-> spool'[i].done]
      <4>1. spool'[i].key = job.key
        BY <3>1
      <4> QED
        BY <1>2, <2>2, <4>1
    <3> QED
      BY <1>6, <3>1, Recorded
  <2>4. spool[i].key \notin Exempt
    BY <1>2, <2>1, <2>3, ExemptStay
  <2> QED
    BY <1>1, <1>2, <2>1, <2>3, <2>4 DEF OnDisk
<1>7. CASE Sweep
  <2>1. PICK e \in DOMAIN spool : Evict(e)
    BY <1>7 DEF Sweep
  <2>2. ~Prune
    BY <2>1 DEF Evict, Prune, process, Running
  <2>3. PICK m \in DOMAIN spool \ {e} : spool'[i] = spool[m]
    BY <2>1, Evicted
  <2>4. /\ DOMAIN files' = DOMAIN files \ {spool[e].key}
        /\ \A k \in DOMAIN files' : files'[k] = files[k]
    BY <2>1, Evicted
  <2>5. spool[m].key # spool[e].key
    BY <2>3 DEF SpoolInv
  <2>6. OnDisk(m)
    <3>1. spool[m].key \notin Exempt
      BY <1>2, <2>2, <2>3, ExemptStay
    <3> QED
      BY <1>1, <1>2, <2>3, <3>1
  <2> QED
    BY <2>3, <2>4, <2>5, <2>6 DEF OnDisk
<1> QED
  BY <1>3, <1>4, <1>5, <1>6, <1>7, Touches DEF Encode, RecordSpoolFile, DrainMarks, MarkCommitted

(***************************************************************************)
(* The theorems that need nothing of the declarations.                     *)
(***************************************************************************)

LEMMA EvoInit == Init => EvoInv
<1> SUFFICES ASSUME Init PROVE EvoInv
  OBVIOUS
<1>1. /\ live = <<>> /\ committed = {} /\ DOMAIN objects = {} /\ DOMAIN staged = {} /\ DOMAIN files = {}
      /\ spool = <<>> /\ DOMAIN spool = {} /\ DOMAIN accepted = {} /\ pc = "down" /\ job = NoJob
  BY DEF Init, NoTable
<1>2. StagingInv
  <2>1. DOMAIN accepted = 1..0 /\ 0 \in Nat
    BY <1>1
  <2> QED
    BY <1>1, <2>1 DEF StagingInv
<1>3. FileInv
  BY <1>1 DEF FileInv, SpoolKeys
<1>4. SpoolInv
  <2>1. <<>> \in Seq({})
    BY EmptySeq
  <2> QED
    BY <1>1, <2>1 DEF SpoolInv, IsSeq
<1>5. DrainInv
  BY <1>1 DEF DrainInv, Drains
<1>6. JobInv
  <2>1. job = [key |-> job.key, rows |-> job.rows, replayed |-> job.replayed]
    BY <1>1 DEF NoJob
  <2> QED
    BY <1>1, <2>1 DEF JobInv, InHands, Running
<1>7. AttemptInv
  BY <1>1 DEF AttemptInv
<1>8. WriterInv
  <2>1. live \in Seq(Column)
    BY <1>1, EmptySeq
  <2> QED
    BY <1>1, <2>1 DEF WriterInv, Drains, Running
<1>9. BacklogReadable
  BY <1>1 DEF BacklogReadable, DescriptorsKept, BacklogShapeAgrees
<1> QED
  BY <1>2, <1>3, <1>4, <1>5, <1>6, <1>7, <1>8, <1>9 DEF EvoInv

LEMMA EvoStep == EvoInv /\ [Next]_vars => EvoInv'
<1> SUFFICES ASSUME EvoInv, [Next]_vars PROVE EvoInv'
  OBVIOUS
<1>1. /\ StagingInv /\ FileInv /\ SpoolInv /\ DrainInv /\ JobInv /\ AttemptInv /\ WriterInv
      /\ DescriptorsKept /\ BacklogShapeAgrees
  BY DEF EvoInv, BacklogReadable
<1>2. StagingInv' /\ FileInv' /\ SpoolInv' /\ DrainInv'
  BY <1>1, StagingStep, FileStep, SpoolStep, DrainStep
<1>3. JobInv' /\ AttemptInv' /\ WriterInv'
  BY <1>1, JobStep, AttemptStep, WriterStep
<1>4. DescriptorsKept' /\ BacklogShapeAgrees'
  BY <1>1, DescriptorsStep, BacklogStep
<1> QED
  BY <1>2, <1>3, <1>4 DEF EvoInv, BacklogReadable

LEMMA EvoHolds == Spec => []EvoInv
  BY EvoInit, EvoStep, PTL DEF Spec

\* The descriptor of every staged row's shape and of every spooled file's is
\* kept, and a file the drain will move has the shape its row records: for any
\* declarations, deployments, quarantines and evictions (staging PruneSchemas,
\* UpsertSpoolFile).
THEOREM AlwaysReadable == Spec => []BacklogReadable
<1>1. EvoInv => BacklogReadable
  BY DEF EvoInv
<1> QED
  BY <1>1, EvoHolds, PTL

\* While a writer runs against a bucket the live table has its columns, by id,
\* name and type, whatever was drained or deployed before it (verifySchema).
THEOREM LiveAlwaysMatches == Spec => []LiveMatchesDeclaration
<1>1. EvoInv => LiveMatchesDeclaration
  BY DEF EvoInv, WriterInv, LiveMatchesDeclaration, Verified
<1> QED
  BY <1>1, EvoHolds, PTL

(***************************************************************************)
(* What is committed reads back.                                           *)
(***************************************************************************)

\* What is quarantined stays so: a batch in hand is of pending rows.
LEMMA QuarantineStays ==
    ASSUME StagingInv, JobInv, WriterInv, [Next]_vars, NEW k \in QuarantinedKeys
    PROVE  k \in QuarantinedKeys'
<1>1. PICK n \in DOMAIN staged : staged[n].key = k /\ staged[n].dead
  BY DEF QuarantinedKeys, Pending
<1>2. SUFFICES n \in DOMAIN staged' /\ staged'[n].key = k /\ staged'[n].dead
  BY DEF QuarantinedKeys, Pending
<1>3. n \notin Pending
  BY <1>1 DEF Pending
<1>4. CASE staged' = staged
  BY <1>1, <1>4
<1>5. CASE Insert
  BY <1>1, <1>5, InsertAdds
<1>6. CASE Prepare
  <2>1. pc = "prepare" /\ bin \in Declarations
    BY <1>6 DEF Prepare, WriterInv, Running
  <2>2. n \notin job.rows
    BY <1>3, <2>1 DEF JobInv, InHand
  <2> QED
    BY <1>1, <1>6, <2>1, <2>2, Prepared
<1>7. CASE Prune
  <2>1. n \notin job.rows
    BY <1>3, <1>7 DEF Prune, JobInv, InHand, InHands
  <2> QED
    BY <1>1, <1>7, <2>1, PruneTakes
<1> QED
  BY <1>4, <1>5, <1>6, <1>7, Touches

LEMMA AgreesOn ==
    ASSUME NEW a, NEW b, NEW c, Agrees(a, b), Agrees(b, c)
    PROVE  Agrees(a, c)
<1>1. CASE a = b \/ b = c
  BY <1>1 DEF Agrees
<1>2. CASE <<a, b>> \in Widens /\ <<b, c>> \in Widens
  <2>1. PICK w, x : w = <<a, b>> /\ x = <<b, c>> /\ w \in Widens /\ x \in Widens
    BY <1>2
  <2>2. w[1] = a /\ w[2] = b /\ x[1] = b /\ x[2] = c
    BY <2>1
  <2>3. <<w[1], x[2]>> \in Widens
    BY <2>1, <2>2, ShapesAssumption
  <2> QED
    BY <2>2, <2>3 DEF Agrees
<1> QED
  BY <1>1, <1>2 DEF Agrees

LEMMA ReadableKept ==
    ASSUME EvoInv, [Next]_vars, NEW f, Readable(f)
    PROVE  Readable(f)'
<1>1. \A i \in DOMAIN live : i \in DOMAIN live' /\ Agrees(live[i].type, live'[i].type)
  BY LiveStep DEF EvoInv
<1>2. ASSUME NEW i \in DOMAIN f.shape
      PROVE  i \in DOMAIN live' /\ Agrees(f.shape[i].type, live'[i].type)
  <2>1. i \in DOMAIN live /\ Agrees(f.shape[i].type, live[i].type)
    BY DEF Readable
  <2> QED
    BY <1>1, <2>1, AgreesOn
<1> QED
  BY <1>2 DEF Readable, Agrees

LEMMA VerifiedReads ==
    ASSUME NEW f, Verified(live, f.shape)
    PROVE  Readable(f)
  BY DEF Verified, Readable, Agrees

\* The file the drain moves is of its row's shape, if its batch is not quarantined.
LEMMA OldestShape ==
    ASSUME EvoInv, pc \in {"drain put", "drain commit"}
    PROVE  /\ Verified(live, SpoolRow(OldestFile).fp)
           /\ OldestFile \notin QuarantinedKeys => files[OldestFile].shape = SpoolRow(OldestFile).fp
<1>1. SpoolInv /\ DrainInv /\ BacklogShapeAgrees /\ pc \in Drains /\ backlog # {}
  BY DEF EvoInv, BacklogReadable, DrainInv, Drains
<1>2. PICK i \in DOMAIN spool :
         /\ spool[i].key = OldestFile /\ ~spool[i].done /\ SpoolRow(OldestFile) = spool[i]
         /\ OldestFile \notin StagedKeys
  BY <1>1, Oldest
<1>3. OldestFile \notin QuarantinedKeys => files[OldestFile].shape = spool[i].fp
  BY <1>1, <1>2 DEF BacklogShapeAgrees
<1>4. Verified(live, SpoolRow(OldestFile).fp)
  BY <1>1 DEF DrainInv
<1> QED
  BY <1>2, <1>3, <1>4

LEMMA ReadInit == Init => ReadInv
  BY DEF Init, ReadInv

LEMMA ReadStep == EvoInv /\ ReadInv /\ [Next]_vars => ReadInv'
<1> SUFFICES ASSUME EvoInv, ReadInv, [Next]_vars
             PROVE  ReadInv'
  OBVIOUS
<1>1. StagingInv /\ SpoolInv /\ DrainInv /\ JobInv /\ WriterInv /\ AttemptInv
  BY DEF EvoInv
<1>2. \A k : k \notin QuarantinedKeys' => k \notin QuarantinedKeys
  BY <1>1, QuarantineStays
<1>3. ASSUME pc' = "drain commit"
      PROVE  /\ OldestFile' \in DOMAIN objects'
             /\ OldestFile' \notin QuarantinedKeys' => objects'[OldestFile'].shape = SpoolRow(OldestFile)'.fp
  <2>1. CASE UNCHANGED vars
    <3>1. UNCHANGED <<spool, backlog, objects, pc>>
      BY <2>1 DEF vars, durable, process, spoolVars
    <3>2. OldestFile' = OldestFile /\ SpoolRow(OldestFile)' = SpoolRow(OldestFile)
      BY <3>1 DEF OldestFile, SpoolRow
    <3> QED
      BY <1>2, <1>3, <3>1, <3>2 DEF ReadInv
  <2>2. CASE DrainPuts
    <3>1. PICK o : o = OldestFile
      OBVIOUS
    <3>2. /\ pc = "drain put" /\ objects' = Put(objects, o, files[o]) /\ UNCHANGED <<spool, backlog>>
      BY <1>3, <2>2, <3>1 DEF DrainPuts, Down, process, spoolVars
    <3>3. OldestFile' = o /\ SpoolRow(OldestFile)' = SpoolRow(OldestFile)
      BY <3>1, <3>2 DEF OldestFile, SpoolRow
    <3>4. o \notin QuarantinedKeys => files[o].shape = SpoolRow(OldestFile).fp
      BY <3>1, <3>2, OldestShape
    <3>5. o \in DOMAIN objects' /\ objects'[o] = files[o]
      BY <3>2 DEF Put
    <3> QED
      BY <1>2, <3>3, <3>4, <3>5
  <2>3. ASSUME OpenWriter \/ DrainSpool \/ Kill \/ DrainOpens \/ DrainCommits \/ DrainMarks \/ DrainEnds
               \/ OpenTable \/ Opened
        PROVE  FALSE
    BY <1>3, <2>3 DEF OpenWriter, DrainSpool, Start, Kill, Down, DrainOpens, DrainCommits, DrainMarks,
                      DrainEnds, OpenTable, Opened, process
  <2>4. ASSUME Write \/ Sweep
        PROVE  FALSE
    BY <1>3, <2>4, WriterMoves DEF InHands
  <2> QED
    BY <2>1, <2>2, <2>3, <2>4, Cases DEF Drain
<1>4. ASSUME NEW k \in committed'
      PROVE  k \in DOMAIN objects' /\ (k \notin QuarantinedKeys' => Readable(objects[k])')
  <2>1. k \in DOMAIN objects
    BY <1>1, Sources DEF ReadInv, AttemptInv
  <2>2. k \in DOMAIN objects'
    BY <1>1, <2>1, Sources
  <2> SUFFICES ASSUME k \notin QuarantinedKeys
               PROVE  Readable(objects[k])'
    BY <1>2, <2>2
  <2>3. PICK f : f = objects'[k]
    OBVIOUS
  <2>4. Readable(f)
    <3>1. CASE objects'[k] = files[k] /\ k = OldestFile /\ pc = "drain put"
      <4>1. Verified(live, f.shape)
        BY <2>3, <3>1, OldestShape
      <4> QED
        BY <4>1, VerifiedReads
    <3>2. CASE k = job.key /\ objects'[k] = File /\ pc = "upload"
      <4>1. f.shape = bin
        BY <2>3, <3>2 DEF File
      <4>2. Verified(live, bin)
        BY <1>1, <3>2 DEF AttemptInv, WriterInv, Running
      <4> QED
        BY <4>1, <4>2, VerifiedReads
    <3>3. CASE objects'[k] = objects[k] /\ k \in committed
      BY <2>3, <3>3 DEF ReadInv
    <3>4. CASE objects'[k] = objects[k] /\ k = OldestFile /\ pc = "drain commit"
      <4>1. f.shape = SpoolRow(OldestFile).fp
        BY <2>3, <3>4 DEF ReadInv
      <4>2. Verified(live, SpoolRow(OldestFile).fp)
        BY <3>4, OldestShape
      <4> QED
        BY <4>1, <4>2, VerifiedReads
    <3>5. CASE objects'[k] = objects[k] /\ k = job.key /\ pc = "commit"
      <4>1. f.shape = bin
        BY <1>1, <2>3, <3>5 DEF AttemptInv
      <4>2. Verified(live, bin)
        BY <1>1, <3>5 DEF AttemptInv, WriterInv, Running
      <4> QED
        BY <4>1, <4>2, VerifiedReads
    <3> QED
      BY <1>1, <2>2, <3>1, <3>2, <3>3, <3>4, <3>5, Sources
  <2>5. Readable(f)'
    BY <2>4, ReadableKept
  <2> QED
    BY <2>2, <2>3, <2>5 DEF Readable
<1> QED
  BY <1>3, <1>4 DEF ReadInv

\* A committed file reads back what was accepted: each row holds under each id
\* the value it was given for it, in a column of the live table whose type holds
\* the file's - a batch quarantined after it was spooled excepted for its columns -
\* whichever binaries staged, encoded, spooled, drained and committed it
\* (canon.Remap, prepare, drainFile).
THEOREM AlwaysAsWritten == Spec => []ReadsAsWritten
<1>1. EvoInv /\ ReadInv => ReadsAsWritten
  <2> SUFFICES ASSUME EvoInv, ReadInv, NEW k \in committed
               PROVE  /\ k \in DOMAIN objects /\ HoldsWhatWasGiven(k)
                      /\ k \notin QuarantinedKeys => ColumnsLive(k)
    BY DEF ReadsAsWritten
  <2>1. k \in DOMAIN objects /\ (k \notin QuarantinedKeys => Readable(objects[k]))
    BY DEF ReadInv
  <2>2. WholeFile(k, objects[k])
    BY <2>1 DEF EvoInv, FileInv
  <2>3. HoldsWhatWasGiven(k)
    BY <2>2 DEF HoldsWhatWasGiven, WholeFile, Carries
  <2> QED
    BY <2>1, <2>3 DEF Readable, ColumnsLive
<1>2. EvoInv /\ ReadInv /\ [Next]_vars => ReadInv'
  BY ReadStep
<1> QED
  BY <1>1, <1>2, ReadInit, EvoHolds, PTL DEF Spec

=============================================================================
