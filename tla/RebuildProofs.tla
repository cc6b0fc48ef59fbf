--------------------------- MODULE RebuildProofs ---------------------------
(***************************************************************************)
(* A catalog and its rebuilds keep every committed batch, for any number   *)
(* of tables, shapes, batches and metadata files.                          *)
(*                                                                         *)
(* The argument.  A rebuild sees the bucket alone, and takes any file of   *)
(* the highest sequence for a table's current one: a file that was put and *)
(* never swapped in, or the loser of a tie.  What makes each of them good  *)
(* is that files of one sequence come from one row: each is that row with  *)
(* the batch at the head of the queue, or that row in a later shape; and   *)
(* whoever commits has already brought the row to the latest shape any     *)
(* file is of.                                                             *)
(***************************************************************************)
EXTENDS Rebuild, FiniteSetTheorems, WellFoundedInduction, TLAPS

(***************************************************************************)
(* One table's files F, row R, committed batches a and next batch h.       *)
(***************************************************************************)

\* A file put over the row: a commit of the next batch, or a later shape.
CommitsTo(R, h, f) == f.holds = R.holds \union {h} /\ f.shape = R.shape /\ h \notin R.holds
Reshapes(R, f) == f.holds = R.holds /\ f.shape > R.shape
Follows(R, h, f) ==
    IF R = NoFile THEN f.seq = 0 /\ f.holds = {}
    ELSE f.seq = R.seq + 1 /\ (CommitsTo(R, h, f) \/ Reshapes(R, f))

\* Of two files of one sequence, one that holds less is of a later shape.
Siblings(F) == \A f, g \in F : f.seq = g.seq => f.holds \subseteq g.holds \/ g.shape > f.shape

\* Whatever a rebuild would take for the current file holds what was committed.
Tops(F) == {f \in F : \A g \in F : g.seq <= f.seq}
TopKept(F, a) == /\ F = {} => a = {}
                 /\ \A f \in Tops(F) : a \subseteq f.holds

\* The row holds what was committed, its siblings do, and what is past it
\* follows it.
RowKept(R, F, a, h) ==
    /\ R = NoFile => a = {} /\ \A f \in F : Follows(R, h, f)
    /\ R # NoFile => /\ R \in F /\ a \subseteq R.holds
                     /\ \A f \in F : \/ f.seq < R.seq
                                     \/ f.seq = R.seq /\ a \subseteq f.holds
                                     \/ Follows(R, h, f)

(***************************************************************************)
(* The invariant.                                                          *)
(***************************************************************************)

\* A table is opened once its row shows what is declared, and only commits to
\* it then; a file that is put is in the bucket and follows the row.
OpenKept(t) ==
    /\ t \in opened => Row(t) # NoFile /\ Row(t).shape >= declared
    /\ put[t] # NoFile => put[t] \in files[t] /\ Follows(Row(t), Head(t), put[t])
    /\ put[t] # NoFile /\ t \in opened => CommitsTo(Row(t), Head(t), put[t])

\* What the rebuild has in hand.
InHand(t) ==
    /\ step \in {"temp", "rows", "sidecars", "rename"} =>
          IF files[t] = {} THEN found[t] = NoFile ELSE found[t] \in Tops(files[t])
    /\ step \in {"idle", "scan"} => found[t] = NoFile
    /\ step = "rows" => temp[t] \in {NoFile, found[t]}
    /\ step \in {"sidecars", "rename"} => temp[t] = found[t]

TableInv(t) ==
    /\ IsFiniteSet(files[t]) /\ \A f \in files[t] : f.shape <= declared
    /\ Siblings(files[t]) /\ TopKept(files[t], acked[t])
    /\ OpenKept(t) /\ InHand(t)
    /\ exists /\ step # "rename" => RowKept(Row(t), files[t], acked[t], Head(t))

\* A writer and a rebuild exclude each other, and a lost database has no rows.
StoreInv ==
    /\ writer = "down" => opened = {} /\ put = NoRows
    /\ writer = "up" => exists /\ step = "idle"
    /\ ~exists => main = NoRows /\ wal = NoRows
    /\ step = "rename" => wal = NoRows

RebuildInv == StoreInv /\ \A t \in Tables : TableInv(t)

\* An older binary is not deployed again, and a rebuild that removed the old
\* database's log lives to rename the new one over it.
NeverBackNorHalfway == ~Rollbacks /\ "rename" \notin KillAt

(***************************************************************************)
(* Rows and files.                                                         *)
(***************************************************************************)

LEMMA FileFields ==
    ASSUME NEW f \in Files
    PROVE  /\ f # NoFile /\ f.seq \in Nat /\ f.shape \in Shapes /\ f.shape \in Nat
           /\ f.holds \subseteq Batches
<1>1. f.seq \in Nat /\ f.shape \in Shapes /\ f.holds \subseteq Batches
  BY DEF Files
<1>2. f.shape \in Nat /\ f.shape # 0
  BY <1>1, RebuildAssumption
<1>3. NoFile.shape = 0
  BY DEF NoFile
<1> QED
  BY <1>1, <1>2, <1>3

\* A whole row's table is safe from a rebuild.
LEMMA KeptIsTop ==
    ASSUME NEW F \in SUBSET Files, NEW R \in Files \union {NoFile}, NEW a, NEW h,
           RowKept(R, F, a, h)
    PROVE  TopKept(F, a)
<1>1. F = {} => a = {}
  BY DEF RowKept
<1>2. ASSUME NEW f \in Tops(F)
      PROVE  a \subseteq f.holds
  <2>1. CASE R = NoFile
    BY <2>1 DEF RowKept
  <2>2. CASE R # NoFile
    <3>1. /\ R \in F /\ R \in Files /\ f \in F /\ f \in Files /\ R.seq <= f.seq /\ a \subseteq R.holds
          /\ f.seq < R.seq \/ a \subseteq f.holds \/ Follows(R, h, f)
      BY <1>2, <2>2 DEF RowKept, Tops
    <3>2. R.seq \in Nat /\ f.seq \in Nat
      BY <3>1, FileFields
    <3>3. Follows(R, h, f) => R.holds \subseteq f.holds
      BY <2>2 DEF Follows, CommitsTo, Reshapes
    <3> QED
      BY <3>1, <3>2, <3>3
  <2> QED
    BY <2>1, <2>2
<1> QED
  BY <1>1, <1>2 DEF TopKept

\* A top file is as good a row as any.
LEMMA TopIsKept ==
    ASSUME NEW F \in SUBSET Files, NEW R \in Files \union {NoFile}, NEW a, NEW h, TopKept(F, a),
           IF F = {} THEN R = NoFile ELSE R \in Tops(F)
    PROVE  RowKept(R, F, a, h)
<1>1. CASE F = {}
  BY <1>1 DEF RowKept, TopKept
<1>2. CASE F # {}
  <2>1. R \in Tops(F) /\ R \in Files /\ a \subseteq R.holds
    BY <1>2 DEF Tops, TopKept
  <2>2. R # NoFile /\ R.seq \in Nat
    BY <2>1, FileFields
  <2>3. ASSUME NEW f \in F
        PROVE  f.seq < R.seq \/ (f.seq = R.seq /\ a \subseteq f.holds)
    <3>1. f.seq \in Nat /\ f.seq <= R.seq
      BY <2>1, FileFields DEF Tops
    <3>2. f.seq = R.seq => f \in Tops(F)
      BY <2>1 DEF Tops
    <3> QED
      BY <2>2, <3>1, <3>2 DEF TopKept
  <2> QED
    BY <2>1, <2>2, <2>3 DEF RowKept, Tops
<1> QED
  BY <1>1, <1>2

\* Putting a file that follows the row.
LEMMA PutKeeps ==
    ASSUME NEW F \in SUBSET Files, NEW R \in Files \union {NoFile}, NEW a, NEW h, NEW p \in Files,
           RowKept(R, F, a, h), Siblings(F), Follows(R, h, p)
    PROVE  RowKept(R, F \union {p}, a, h) /\ Siblings(F \union {p})
<1>1. RowKept(R, F \union {p}, a, h)
  BY DEF RowKept
<1>2. ASSUME NEW f \in F, f.seq = p.seq
      PROVE  /\ f.holds \subseteq p.holds \/ p.shape > f.shape
             /\ p.holds \subseteq f.holds \/ f.shape > p.shape
  <2>1. f \in Files /\ f.seq \in Nat /\ f.shape \in Nat /\ p.seq \in Nat /\ p.shape \in Nat
    BY FileFields
  <2>2. CASE R = NoFile
    BY <2>2 DEF Follows, RowKept
  <2>3. CASE R # NoFile
    <3>1. R.seq \in Nat /\ R.shape \in Nat
      BY <2>3, FileFields
    <3>2. Follows(R, h, f)
      BY <1>2, <2>1, <2>3, <3>1 DEF RowKept, Follows
    <3> QED
      BY <2>1, <2>3, <3>1, <3>2 DEF Follows, CommitsTo, Reshapes
  <2> QED
    BY <2>2, <2>3
<1>3. Siblings(F \union {p})
  BY <1>2 DEF Siblings
<1> QED
  BY <1>1, <1>3

\* Swapping in a file that follows the row: b is what is committed afterwards.
LEMMA SwapKeeps ==
    ASSUME NEW F \in SUBSET Files, NEW R \in Files \union {NoFile}, NEW a, NEW h, NEW k, NEW p \in F,
           NEW b, RowKept(R, F, a, h), Follows(R, h, p),
           \/ b = a
           \/ /\ b = a \union p.holds /\ R # NoFile /\ CommitsTo(R, h, p)
              /\ \A f \in F : f.shape <= R.shape
    PROVE  RowKept(p, F, b, k)
<1>1. p \in Files /\ p # NoFile /\ p.seq \in Nat /\ p.shape \in Nat
  BY FileFields
<1>2. CASE R = NoFile
  BY <1>1, <1>2 DEF RowKept, Follows
<1>3. CASE R # NoFile
  <2>1. R.seq \in Nat /\ R.shape \in Nat /\ p.seq = R.seq + 1
    BY <1>3, FileFields DEF Follows
  <2>2. R.holds \subseteq p.holds /\ a \subseteq R.holds
    BY <1>3 DEF Follows, CommitsTo, Reshapes, RowKept
  <2>3. b \subseteq p.holds
    BY <2>2
  <2>4. ASSUME NEW f \in F
        PROVE  f.seq < p.seq \/ (f.seq = p.seq /\ b \subseteq f.holds)
    <3>1. f.seq \in Nat /\ f.shape \in Nat
      BY FileFields
    <3>2. f.seq < R.seq \/ f.seq = R.seq \/ Follows(R, h, f)
      BY <1>3 DEF RowKept
    <3>3. CASE Follows(R, h, f)
      <4>1. f.seq = p.seq /\ (CommitsTo(R, h, f) \/ Reshapes(R, f)) /\ R.holds \subseteq f.holds
        BY <1>3, <2>1, <3>3 DEF Follows, CommitsTo, Reshapes
      <4>2. CASE b = a
        BY <2>2, <4>1, <4>2
      <4>3. CASE b = a \union p.holds /\ CommitsTo(R, h, p) /\ f.shape <= R.shape
        BY <2>1, <2>2, <3>1, <4>1, <4>3 DEF CommitsTo, Reshapes
      <4> QED
        BY <4>1, <4>2, <4>3
    <3> QED
      BY <2>1, <3>1, <3>2, <3>3
  <2> QED
    BY <1>1, <2>3, <2>4 DEF RowKept
<1> QED
  BY <1>2, <1>3

\* Acknowledging the next batch where the row has it already.
LEMMA AckKeeps ==
    ASSUME NEW F \in SUBSET Files, NEW R \in Files, NEW a, NEW h, NEW k,
           RowKept(R, F, a, h), Siblings(F), h \in R.holds, \A f \in F : f.shape <= R.shape
    PROVE  RowKept(R, F, a \union {h}, k)
<1>1. R # NoFile /\ R.seq \in Nat /\ R.shape \in Nat /\ R \in F /\ a \subseteq R.holds
  BY FileFields DEF RowKept
<1>2. ASSUME NEW f \in F
      PROVE  f.seq < R.seq \/ (f.seq = R.seq /\ a \union {h} \subseteq f.holds)
  <2>1. f.seq \in Nat /\ f.shape \in Nat /\ f.shape <= R.shape
    BY FileFields
  <2>2. ~Follows(R, h, f)
    BY <1>1, <2>1 DEF Follows, CommitsTo, Reshapes
  <2>3. f.seq = R.seq => R.holds \subseteq f.holds
    BY <1>1, <2>1 DEF Siblings
  <2> QED
    BY <1>1, <2>2, <2>3 DEF RowKept
<1> QED
  BY <1>1, <1>2 DEF RowKept

(***************************************************************************)
(* Types.                                                                  *)
(***************************************************************************)

LEMMA FirstShape == Min(Shapes) \in Shapes
<1>1. IsWellFoundedOn(OpToRel(<, Nat), Nat)
  BY NatLessThanWellFounded
<1>2. Shapes \subseteq Nat /\ Shapes # {}
  BY RebuildAssumption
<1>3. PICK x \in Shapes : \A y \in Shapes : ~(<<y, x>> \in OpToRel(<, Nat))
  BY <1>1, <1>2, WFMin
<1>4. ASSUME NEW y \in Shapes
      PROVE  x <= y
  <2>1. x \in Nat /\ y \in Nat
    BY <1>2
  <2>2. <<y, x>> \in Nat \X Nat /\ ~(y < x)
    BY <1>3, <2>1 DEF OpToRel
  <2> QED
    BY <2>1, <2>2
<1> QED
  BY <1>3, <1>4 DEF Min

LEMMA RebuildInitType == Init => TypeOK
<1>1. NoRows \in Rows
  BY DEF NoRows, Rows
<1> QED
  BY <1>1, FirstShape DEF Init, TypeOK

LEMMA RowTyped ==
    ASSUME TypeOK, NEW t \in Tables
    PROVE  /\ Row(t) \in Files \union {NoFile} /\ put[t] \in Files \union {NoFile}
           /\ main[t] \in Files \union {NoFile} /\ wal[t] \in Files \union {NoFile}
           /\ files[t] \in SUBSET Files /\ declared \in Nat
  BY RebuildAssumption DEF TypeOK, Row, Rows

\* A file of which only a part is written.
PutPart(t) ==
    /\ torn' = torn \union {t}
    /\ UNCHANGED <<files, put, acked, catalog, writer, declared, opened, rebuild>>

\* A file that follows the row, of a declared shape.
PutOne(t) ==
    \E p \in Files :
        /\ Follows(Row(t), Head(t), p) /\ p.shape <= declared
        /\ t \in opened => CommitsTo(Row(t), Head(t), p)
        /\ files' = [files EXCEPT ![t] = @ \union {p}] /\ put' = [put EXCEPT ![t] = p]
        /\ UNCHANGED <<torn, acked, catalog, writer, declared, opened, rebuild>>

\* The three that put a file put the one or the other.
LEMMA PutFollows ==
    ASSUME TypeOK, RebuildInv, NEW t \in Tables, CreateTable(t) \/ Reconcile(t) \/ CommitBatch(t)
    PROVE  /\ exists /\ step = "idle"
           /\ PutPart(t) \/ PutOne(t)
<1>0. /\ IsFiniteSet(files[t]) /\ declared \in Shapes /\ declared \in Nat
      /\ writer = "up" => exists /\ step = "idle"
      /\ exists /\ step # "rename" => RowKept(Row(t), files[t], acked[t], Head(t))
      /\ t \in opened => writer = "up"
      /\ Row(t) # NoFile => Row(t) \in Files
  BY RowTyped DEF TypeOK, RebuildInv, StoreInv, TableInv
<1>1. ASSUME NEW seq \in Nat, NEW holds \in SUBSET Batches, NEW shape \in Shapes,
             Put(t, seq, holds, shape), writer = "up", shape <= declared,
             IF Row(t) = NoFile THEN seq = 0 /\ holds = {} ELSE seq = Row(t).seq + 1,
             Row(t) # NoFile => \/ /\ holds = Row(t).holds \union {Head(t)} /\ shape = Row(t).shape
                                   /\ Head(t) \notin Row(t).holds
                                \/ holds = Row(t).holds /\ shape > Row(t).shape /\ t \notin opened,
             t \in opened => Row(t) # NoFile
      PROVE  /\ exists /\ step = "idle"
             /\ PutPart(t) \/ PutOne(t)
  <2> DEFINE p == [seq |-> seq, id |-> Cardinality(files[t]) + 1, holds |-> holds, shape |-> shape]
  <2>0. p \in Files /\ p.seq = seq /\ p.holds = holds /\ p.shape = shape
    <3>1. Cardinality(files[t]) \in Nat
      BY <1>0, FS_CardinalityType
    <3> QED
      BY <3>1 DEF Files
  <2> SUFFICES ASSUME ~PutPart(t) PROVE PutOne(t)
    BY <1>0, <1>1
  <2>1. /\ files' = [files EXCEPT ![t] = @ \union {p}] /\ put' = [put EXCEPT ![t] = p]
        /\ UNCHANGED <<torn, acked, catalog, writer, declared, opened, rebuild>>
    BY <1>1 DEF Put, PutPart
  <2> HIDE DEF p
  <2>2. /\ Follows(Row(t), Head(t), p) /\ p.shape <= declared
        /\ t \in opened => CommitsTo(Row(t), Head(t), p)
    BY <1>1, <2>0 DEF Follows, CommitsTo, Reshapes
  <2> QED
    BY <2>0, <2>1, <2>2 DEF PutOne
<1>2. PICK d \in Shapes : d = declared
  BY <1>0
<1>3. CASE CreateTable(t)
  <2>1. Row(t) = NoFile /\ t \notin opened /\ writer = "up" /\ Put(t, 0, {}, d)
    BY <1>2, <1>3 DEF CreateTable
  <2> QED
    BY <1>0, <1>1, <1>2, <2>1
<1>4. CASE Reconcile(t) \/ CommitBatch(t)
  <2>1. Row(t) # NoFile /\ Row(t) \in Files /\ writer = "up"
    BY <1>0, <1>4 DEF Reconcile, CommitBatch, RebuildInv, TableInv, OpenKept
  <2>2. PICK q \in Nat, holds \in SUBSET Batches, shape \in Shapes :
           q = Row(t).seq + 1 /\ holds = Row(t).holds /\ shape = Row(t).shape
    BY <2>1, FileFields
  <2>3. CASE Reconcile(t)
    <3>1. shape < d /\ t \notin opened /\ Put(t, q, holds, d)
      BY <1>2, <2>2, <2>3 DEF Reconcile
    <3> QED
      BY <1>0, <1>1, <1>2, <2>1, <2>2, <3>1, RebuildAssumption
  <2>4. CASE CommitBatch(t)
    <3>1. PICK b \in Batches : b = Head(t)
      BY <2>4 DEF CommitBatch
    <3>2. /\ t \in opened /\ b \notin holds /\ Put(t, q, holds \union {b}, shape)
      BY <2>2, <2>4, <3>1 DEF CommitBatch
    <3>3. shape <= declared
      BY <1>0, <2>1, <2>2, <2>4 DEF RowKept, RebuildInv, TableInv
    <3>4. holds \union {b} \in SUBSET Batches
      OBVIOUS
    <3> QED
      BY <1>0, <1>1, <2>1, <2>2, <3>1, <3>2, <3>3, <3>4
  <2> QED
    BY <1>4, <2>3, <2>4
<1> QED
  BY <1>3, <1>4

LEMMA RebuildTypeStep ==
    ASSUME TypeOK, RebuildInv, Next
    PROVE  TypeOK'
<1> USE DEF bucket, catalog, process, rebuild
<1>1. CASE \E t \in Tables : CreateTable(t) \/ Reconcile(t) \/ CommitBatch(t)
  <2> PICK t \in Tables : CreateTable(t) \/ Reconcile(t) \/ CommitBatch(t)
    BY <1>1
  <2> SUFFICES ASSUME ~PutPart(t) PROVE TypeOK'
    BY DEF PutPart, TypeOK
  <2>1. PICK p \in Files :
              /\ files' = [files EXCEPT ![t] = @ \union {p}] /\ put' = [put EXCEPT ![t] = p]
              /\ UNCHANGED <<torn, acked, catalog, writer, declared, opened, rebuild>>
    BY PutFollows DEF PutOne
  <2>2. put' \in Rows
    BY <2>1 DEF TypeOK, Rows
  <2>3. files' \in [Tables -> SUBSET Files]
    BY <2>1 DEF TypeOK
  <2> QED
    BY <2>1, <2>2, <2>3 DEF TypeOK
<1>2. CASE \E t \in Tables : OpenTable(t)
  BY <1>2 DEF OpenTable, TypeOK
<1>3. CASE \E t \in Tables : AlreadyCommitted(t)
  BY <1>3 DEF AlreadyCommitted, TypeOK
<1>4. CASE \E t \in Tables : Swap(t) \/ SwapFails(t)
  <2> PICK t \in Tables : Swap(t) \/ SwapFails(t)
    BY <1>4
  <2>1. put[t] \in Files /\ put[t].holds \subseteq Batches
    <3>1. put[t] \in Files
      BY RowTyped DEF Swap, SwapFails
    <3> QED
      BY <3>1, FileFields
  <2>2. put' = [put EXCEPT ![t] = NoFile] /\ put' \in Rows
    BY DEF Swap, SwapFails, TypeOK, Rows
  <2>3. wal' \in Rows /\ acked' \in [Tables -> SUBSET Batches]
    BY <2>1 DEF Swap, SwapFails, TypeOK, Rows
  <2> QED
    BY <2>2, <2>3 DEF Swap, SwapFails, TypeOK
<1>5. CASE \E t \in Tables : RegisterStep(t)
  <2> PICK t \in Tables : RegisterStep(t)
    BY <1>5
  <2>1. temp' \in Rows
    BY DEF RegisterStep, RegisterTable, TypeOK, Rows
  <2> QED
    BY <2>1 DEF RegisterStep, RegisterTable, TypeOK
<1>6. CASE Start \/ Kill \/ LoseCatalog
  BY <1>6 DEF Start, Kill, Stop, LoseCatalog, TypeOK, Rows, NoRows
<1>7. CASE Checkpoint \/ CloseStore
  <2>1. main' \in Rows /\ wal' \in Rows
    BY <1>7, RowTyped DEF Checkpoint, CloseStore, Checkpointed, Rows, NoRows
  <2> QED
    BY <1>7, <2>1 DEF Checkpoint, CloseStore, Checkpointed, Stop, TypeOK, Rows, NoRows
<1>8. CASE Scan
  <2>1. /\ found' \in [Tables -> (UNION Range(files)) \union {NoFile}]
        /\ step' = "temp" /\ UNCHANGED <<bucket, catalog, process, temp>>
    BY <1>8 DEF Scan
  <2>2. UNION Range(files) \subseteq Files
    BY DEF Range, TypeOK
  <2>3. found' \in Rows
    BY <2>1, <2>2 DEF Rows
  <2> QED
    BY <2>1, <2>3 DEF TypeOK, Steps
<1>9. CASE (\E replace \in BOOLEAN : Begin(replace)) \/ RemoveTemp \/ Built \/ RemoveSidecars
  BY <1>9 DEF Begin, RemoveTemp, Built, RemoveSidecars, TypeOK, Rows, NoRows, Steps
<1>10. CASE Rename \/ Abort
  BY <1>10 DEF Rename, Abort, Idle, TypeOK, Rows, NoRows
<1> QED
  BY <1>1, <1>2, <1>3, <1>4, <1>5, <1>6, <1>7, <1>8, <1>9, <1>10 DEF Next

(***************************************************************************)
(* Every step keeps the invariant.                                         *)
(***************************************************************************)

\* A table that a step does not touch.
LEMMA Untouched ==
    ASSUME NEW u \in Tables, TableInv(u),
           files'[u] = files[u], acked'[u] = acked[u], main'[u] = main[u], wal'[u] = wal[u],
           put'[u] = put[u], found'[u] = found[u], temp'[u] = temp[u],
           u \in opened' <=> u \in opened, UNCHANGED <<exists, declared, step>>
    PROVE  TableInv(u)'
<1>1. Row(u)' = Row(u) /\ Head(u)' = Head(u)
  BY DEF Row, Head
<1> QED
  BY <1>1 DEF TableInv, OpenKept, InHand

LEMMA PutStep ==
    ASSUME TypeOK, RebuildInv, NEW t \in Tables, CreateTable(t) \/ Reconcile(t) \/ CommitBatch(t)
    PROVE  RebuildInv'
<1>0. CASE PutPart(t)
  <2>1. StoreInv'
    BY <1>0 DEF PutPart, RebuildInv, StoreInv, catalog, rebuild
  <2>2. \A u \in Tables : TableInv(u)'
    BY <1>0, Untouched DEF PutPart, RebuildInv, catalog, rebuild
  <2> QED
    BY <2>1, <2>2 DEF RebuildInv
<1> SUFFICES ASSUME ~PutPart(t) PROVE RebuildInv'
  BY <1>0
<1>1. PICK p \in Files :
              /\ Follows(Row(t), Head(t), p) /\ p.shape <= declared
              /\ t \in opened => CommitsTo(Row(t), Head(t), p)
              /\ files' = [files EXCEPT ![t] = @ \union {p}] /\ put' = [put EXCEPT ![t] = p]
              /\ UNCHANGED <<torn, acked, catalog, writer, declared, opened, rebuild>>
  BY PutFollows DEF PutOne
<1>2. exists /\ step = "idle" /\ writer = "up"
  BY DEF RebuildInv, StoreInv, CreateTable, Reconcile, CommitBatch, TypeOK
<1>3. StoreInv'
  BY <1>1, <1>2 DEF RebuildInv, StoreInv, catalog, rebuild
<1>4. ASSUME NEW u \in Tables, u # t
      PROVE  TableInv(u)'
  <2>1. TableInv(u) /\ files'[u] = files[u] /\ put'[u] = put[u]
    BY <1>1, <1>4 DEF RebuildInv, TypeOK, Rows
  <2> QED
    BY <1>1, <2>1, Untouched DEF catalog, rebuild
<1>5. TableInv(t)'
  <2>0. /\ TableInv(t) /\ files[t] \in SUBSET Files /\ Row(t) \in Files \union {NoFile}
        /\ RowKept(Row(t), files[t], acked[t], Head(t))
    BY <1>2, RowTyped DEF RebuildInv, TableInv
  <2>1. /\ files'[t] = files[t] \union {p} /\ put'[t] = p /\ p # NoFile
        /\ Row(t)' = Row(t) /\ Head(t)' = Head(t) /\ acked'[t] = acked[t]
        /\ found'[t] = found[t] /\ UNCHANGED <<exists, step, declared, opened>>
    BY <1>1, FileFields DEF TypeOK, Rows, Row, Head, catalog, rebuild
  <2>2. PICK F \in SUBSET Files, R \in Files \union {NoFile},
           a \in {acked[t]}, h \in {Head(t)} : F = files[t] /\ R = Row(t)
    BY <2>0
  <2>3. RowKept(R, F \union {p}, a, h) /\ Siblings(F \union {p})
    BY <1>1, <2>0, <2>2, PutKeeps DEF TableInv
  <2>4. TopKept(F \union {p}, a)
    <3>1. F \union {p} \in SUBSET Files
      OBVIOUS
    <3> QED
      BY <2>3, <3>1, KeptIsTop
  <2>5. IsFiniteSet(F \union {p}) /\ \A f \in F \union {p} : f.shape <= declared
    BY <1>1, <2>0, <2>2, FS_AddElement DEF TableInv
  <2>6. OpenKept(t)'
    BY <1>1, <2>0, <2>1, <2>2 DEF OpenKept, TableInv
  <2>7. InHand(t)'
    BY <1>2, <2>0, <2>1 DEF InHand, TableInv
  <2> QED
    BY <2>1, <2>2, <2>3, <2>4, <2>5, <2>6, <2>7 DEF TableInv
<1> QED
  BY <1>3, <1>4, <1>5 DEF RebuildInv

LEMMA SwapStep ==
    ASSUME TypeOK, RebuildInv, NEW t \in Tables, Swap(t)
    PROVE  RebuildInv'
<1>1. /\ put[t] # NoFile
      /\ wal' = [wal EXCEPT ![t] = put[t]] /\ put' = [put EXCEPT ![t] = NoFile]
      /\ acked' = [acked EXCEPT ![t] = @ \union (IF t \in opened THEN put[t].holds ELSE {})]
      /\ UNCHANGED <<files, exists, main, writer, declared, opened, rebuild>>
  BY DEF Swap
<1>2. exists /\ step = "idle" /\ writer = "up"
  BY <1>1 DEF RebuildInv, StoreInv, NoRows, TypeOK
<1>3. StoreInv'
  BY <1>1, <1>2 DEF RebuildInv, StoreInv, rebuild
<1>4. ASSUME NEW u \in Tables, u # t
      PROVE  TableInv(u)'
  <2>1. TableInv(u) /\ wal'[u] = wal[u] /\ put'[u] = put[u] /\ acked'[u] = acked[u]
    BY <1>1, <1>4 DEF RebuildInv, TypeOK, Rows
  <2> QED
    BY <1>1, <2>1, Untouched DEF rebuild
<1>5. TableInv(t)'
  <2>0. /\ TableInv(t) /\ files[t] \in SUBSET Files /\ Row(t) \in Files \union {NoFile}
        /\ RowKept(Row(t), files[t], acked[t], Head(t)) /\ OpenKept(t)
    BY <1>2, RowTyped DEF RebuildInv, TableInv
  <2>1. PICK p \in files[t] : p = put[t]
    BY <1>1, <2>0 DEF OpenKept
  <2>2. /\ put'[t] = NoFile /\ p \in Files /\ p # NoFile /\ Row(t)' = p
        /\ acked'[t] = acked[t] \union (IF t \in opened THEN p.holds ELSE {})
        /\ found'[t] = found[t] /\ UNCHANGED <<exists, step, declared, opened, files>>
    BY <1>1, <2>0, <2>1, FileFields DEF TypeOK, Rows, Row, rebuild
  <2>3. PICK F \in SUBSET Files, R \in Files \union {NoFile},
           a \in {acked[t]}, h \in {Head(t)} : F = files[t] /\ R = Row(t)
    BY <2>0
  <2>4. PICK b, k : b = acked'[t] /\ k = Head(t)'
    OBVIOUS
  <2>5. \/ b = a
        \/ b = a \union p.holds /\ R # NoFile /\ CommitsTo(R, h, p) /\ \A f \in F : f.shape <= R.shape
    <3>1. CASE t \notin opened
      BY <2>2, <2>3, <2>4, <3>1
    <3>2. CASE t \in opened
      <4>1. R # NoFile /\ CommitsTo(R, h, p) /\ R.shape >= declared /\ b = a \union p.holds
        BY <1>1, <2>0, <2>1, <2>2, <2>3, <2>4, <3>2 DEF OpenKept
      <4>2. ASSUME NEW f \in F PROVE f.shape <= R.shape
        <5>1. f.shape \in Nat /\ R.shape \in Nat /\ declared \in Nat
          BY <4>1, FileFields, RowTyped
        <5> QED
          BY <2>0, <2>3, <4>1, <5>1 DEF TableInv
      <4> QED
        BY <4>1, <4>2
    <3> QED
      BY <3>1, <3>2
  <2>6. RowKept(p, F, b, k)
    BY <1>1, <2>0, <2>1, <2>3, <2>5, SwapKeeps DEF OpenKept
  <2>7. TopKept(F, b)
    BY <2>2, <2>6, KeptIsTop
  <2>8. OpenKept(t)'
    <3>1. t \in opened => p.shape = Row(t).shape
      BY <1>1, <2>0, <2>1 DEF OpenKept, CommitsTo
    <3> QED
      BY <2>0, <2>2, <3>1 DEF OpenKept
  <2>9. InHand(t)'
    BY <1>2, <2>0, <2>2 DEF InHand, TableInv
  <2> QED
    BY <2>0, <2>2, <2>3, <2>4, <2>6, <2>7, <2>8, <2>9 DEF TableInv
<1> QED
  BY <1>3, <1>4, <1>5 DEF RebuildInv

LEMMA AckStep ==
    ASSUME TypeOK, RebuildInv, NEW t \in Tables, AlreadyCommitted(t)
    PROVE  RebuildInv'
<1>1. /\ t \in opened /\ put[t] = NoFile /\ Head(t) \in Row(t).holds
      /\ acked' = [acked EXCEPT ![t] = @ \union {Head(t)}]
      /\ UNCHANGED <<files, catalog, process, rebuild>>
  BY DEF AlreadyCommitted
<1>2. exists /\ step = "idle" /\ writer = "up"
  BY <1>1 DEF RebuildInv, StoreInv, TypeOK
<1>3. StoreInv'
  BY <1>1, <1>2 DEF RebuildInv, StoreInv, catalog, process, rebuild
<1>4. ASSUME NEW u \in Tables, u # t
      PROVE  TableInv(u)'
  <2>1. TableInv(u) /\ acked'[u] = acked[u]
    BY <1>1, <1>4 DEF RebuildInv, TypeOK
  <2> QED
    BY <1>1, <2>1, Untouched DEF catalog, process, rebuild
<1>5. TableInv(t)'
  <2>0. /\ TableInv(t) /\ files[t] \in SUBSET Files /\ Row(t) \in Files
        /\ RowKept(Row(t), files[t], acked[t], Head(t)) /\ Row(t).shape >= declared
    BY <1>1, <1>2, RowTyped DEF RebuildInv, TableInv, OpenKept
  <2>1. PICK F \in SUBSET Files, R \in Files,
           a \in {acked[t]}, h \in {Head(t)} : F = files[t] /\ R = Row(t)
    BY <2>0
  <2>2. PICK k : k = Head(t)'
    OBVIOUS
  <2>3. /\ acked'[t] = a \union {h} /\ Row(t)' = R /\ put'[t] = NoFile
        /\ UNCHANGED <<exists, step, declared, opened, files, found, temp>>
    BY <1>1, <2>1 DEF TypeOK, Row, catalog, process, rebuild
  <2>4. ASSUME NEW f \in F PROVE f.shape <= R.shape
    <3>1. f.shape \in Nat /\ R.shape \in Nat /\ declared \in Nat
      BY FileFields, RowTyped
    <3> QED
      BY <2>0, <2>1, <3>1 DEF TableInv
  <2>5. RowKept(R, F, a \union {h}, k)
    BY <1>1, <2>0, <2>1, <2>4, AckKeeps DEF TableInv
  <2>6. TopKept(F, a \union {h})
    BY <2>5, KeptIsTop
  <2>7. OpenKept(t)' /\ InHand(t)'
    BY <1>2, <2>0, <2>1, <2>3 DEF OpenKept, InHand, TableInv
  <2> QED
    BY <2>0, <2>1, <2>2, <2>3, <2>5, <2>6, <2>7 DEF TableInv
<1> QED
  BY <1>3, <1>4, <1>5 DEF RebuildInv

\* The other steps of the writer, and the loss of the disk.
LEMMA WriterStep ==
    ASSUME TypeOK, RebuildInv, NeverBackNorHalfway,
           \/ Start \/ Checkpoint \/ CloseStore \/ Kill \/ LoseCatalog
           \/ \E t \in Tables : OpenTable(t) \/ SwapFails(t)
    PROVE  RebuildInv'
<1>1. CASE Start
  <2>1. /\ writer = "down" /\ step = "idle"
        /\ exists \/ \A t \in Tables : files[t] = {}
        /\ writer' = "up" /\ exists' = TRUE
        /\ UNCHANGED <<bucket, main, wal, opened, put, rebuild>>
    BY <1>1 DEF Start
  <2>2. declared' \in Nat /\ declared \in Nat /\ declared' >= declared
    BY <1>1, RebuildAssumption DEF Start, TypeOK, NeverBackNorHalfway
  <2>3. StoreInv'
    BY <2>1 DEF RebuildInv, StoreInv, rebuild
  <2>4. ASSUME NEW t \in Tables
        PROVE  TableInv(t)'
    <3>0. TableInv(t) /\ files[t] \in SUBSET Files /\ Row(t) \in Files \union {NoFile}
      BY RowTyped DEF RebuildInv
    <3>1. \A f \in files[t] : f.shape <= declared'
      BY <2>2, <3>0, FileFields DEF TableInv
    <3>2. RowKept(Row(t), files[t], acked[t], Head(t))
      <4>1. CASE exists
        BY <2>1, <3>0, <4>1 DEF TableInv
      <4>2. CASE ~exists
        <5>1. files[t] = {} /\ acked[t] = {} /\ Row(t) = NoFile
          BY <2>1, <3>0, <4>2 DEF TableInv, TopKept, RebuildInv, StoreInv, Row, NoRows
        <5> QED
          BY <5>1 DEF RowKept
      <4> QED
        BY <4>1, <4>2
    <3>3. /\ files'[t] = files[t] /\ acked'[t] = acked[t] /\ Row(t)' = Row(t) /\ Head(t)' = Head(t)
          /\ put'[t] = NoFile /\ t \notin opened' /\ UNCHANGED <<step, found, temp>>
      BY <2>1 DEF bucket, rebuild, Row, Head, RebuildInv, StoreInv, NoRows
    <3> QED
      BY <2>1, <3>0, <3>1, <3>2, <3>3 DEF TableInv, OpenKept, InHand
  <2> QED
    BY <2>3, <2>4 DEF RebuildInv
<1>2. CASE Checkpoint \/ CloseStore
  <2>1. /\ main' = [t \in Tables |-> Row(t)] /\ wal' = NoRows /\ exists' = exists
        /\ UNCHANGED <<bucket, declared, rebuild>> /\ writer = "up"
        /\ \/ UNCHANGED <<writer, opened, put>>
           \/ (writer' = "down" /\ opened' = {} /\ put' = NoRows)
    BY <1>2 DEF Checkpoint, CloseStore, Checkpointed, Stop, process
  <2>2. StoreInv'
    BY <2>1 DEF RebuildInv, StoreInv, rebuild
  <2>3. ASSUME NEW t \in Tables
        PROVE  TableInv(t)'
    <3>0. TableInv(t)
      BY DEF RebuildInv
    <3>1. /\ files'[t] = files[t] /\ acked'[t] = acked[t] /\ Row(t)' = Row(t) /\ Head(t)' = Head(t)
          /\ put'[t] \in {put[t], NoFile} /\ (t \in opened' => t \in opened)
          /\ UNCHANGED <<step, found, temp, declared, exists>>
      BY <2>1 DEF bucket, rebuild, Row, Head, NoRows
    <3> QED
      BY <3>0, <3>1 DEF TableInv, OpenKept, InHand
  <2> QED
    BY <2>2, <2>3 DEF RebuildInv
<1>3. CASE Kill
  <2>1. /\ UNCHANGED <<bucket, catalog, declared, rebuild>>
        /\ writer' = "down" /\ opened' = {} /\ put' = NoRows
    BY <1>3 DEF Kill, Stop
  <2>2. StoreInv'
    BY <2>1 DEF RebuildInv, StoreInv, catalog, rebuild
  <2>3. ASSUME NEW t \in Tables
        PROVE  TableInv(t)'
    <3>0. TableInv(t)
      BY DEF RebuildInv
    <3>1. /\ Row(t)' = Row(t) /\ Head(t)' = Head(t) /\ put'[t] = NoFile /\ t \notin opened'
          /\ UNCHANGED <<files, acked, step, found, temp, declared, exists>>
      BY <2>1 DEF bucket, catalog, rebuild, Row, Head, NoRows
    <3> QED
      BY <3>0, <3>1 DEF TableInv, OpenKept, InHand
  <2> QED
    BY <2>2, <2>3 DEF RebuildInv
<1>4. CASE LoseCatalog
  <2>1. /\ writer = "down" /\ step = "idle" /\ exists' = FALSE /\ main' = NoRows /\ wal' = NoRows
        /\ UNCHANGED <<bucket, process, rebuild>>
    BY <1>4 DEF LoseCatalog
  <2>2. StoreInv'
    BY <2>1 DEF RebuildInv, StoreInv, process, rebuild
  <2>3. ASSUME NEW t \in Tables
        PROVE  TableInv(t)'
    <3>0. TableInv(t)
      BY DEF RebuildInv
    <3>1. /\ put'[t] = NoFile /\ t \notin opened'
          /\ UNCHANGED <<files, acked, step, found, temp, declared>>
      BY <2>1 DEF bucket, process, rebuild, RebuildInv, StoreInv, NoRows
    <3> QED
      BY <2>1, <3>0, <3>1 DEF TableInv, OpenKept, InHand
  <2> QED
    BY <2>2, <2>3 DEF RebuildInv
<1>5. CASE \E t \in Tables : OpenTable(t)
  <2> PICK t \in Tables : OpenTable(t)
    BY <1>5
  <2>1. /\ writer = "up" /\ put[t] = NoFile /\ Row(t) # NoFile /\ Row(t).shape >= declared
        /\ opened' = opened \union {t}
        /\ UNCHANGED <<bucket, catalog, writer, declared, put, rebuild>>
    BY DEF OpenTable
  <2>2. StoreInv'
    BY <2>1 DEF RebuildInv, StoreInv, catalog, rebuild
  <2>3. ASSUME NEW u \in Tables
        PROVE  TableInv(u)'
    <3>0. TableInv(u)
      BY DEF RebuildInv
    <3>1. /\ Row(u)' = Row(u) /\ Head(u)' = Head(u)
          /\ UNCHANGED <<files, acked, step, found, temp, declared, exists, put>>
      BY <2>1 DEF bucket, catalog, rebuild, Row, Head
    <3> QED
      BY <2>1, <3>0, <3>1 DEF TableInv, OpenKept, InHand
  <2> QED
    BY <2>2, <2>3 DEF RebuildInv
<1>6. CASE \E t \in Tables : SwapFails(t)
  <2> PICK t \in Tables : SwapFails(t)
    BY <1>6
  <2>1. /\ put' = [put EXCEPT ![t] = NoFile]
        /\ UNCHANGED <<bucket, catalog, writer, declared, opened, rebuild>>
    BY DEF SwapFails
  <2>2. StoreInv'
    <3>1. put = NoRows => put' = NoRows
      BY <2>1 DEF NoRows
    <3> QED
      BY <2>1, <3>1 DEF RebuildInv, StoreInv, catalog, rebuild
  <2>3. ASSUME NEW u \in Tables
        PROVE  TableInv(u)'
    <3>0. TableInv(u)
      BY DEF RebuildInv
    <3>1. /\ Row(u)' = Row(u) /\ Head(u)' = Head(u) /\ put'[u] \in {put[u], NoFile}
          /\ UNCHANGED <<files, acked, step, found, temp, declared, exists, opened>>
      BY <2>1 DEF bucket, catalog, rebuild, Row, Head, TypeOK, Rows
    <3> QED
      BY <3>0, <3>1 DEF TableInv, OpenKept, InHand
  <2> QED
    BY <2>2, <2>3 DEF RebuildInv
<1> QED
  BY <1>1, <1>2, <1>3, <1>4, <1>5, <1>6

\* The steps of a rebuild.
LEMMA RebuildStep ==
    ASSUME TypeOK, RebuildInv, NeverBackNorHalfway,
           \/ \E replace \in BOOLEAN : Begin(replace)
           \/ \E t \in Tables : RegisterStep(t)
           \/ Scan \/ RemoveTemp \/ Built \/ RemoveSidecars \/ Rename \/ Abort
    PROVE  RebuildInv'
<1> USE DEF bucket, catalog, process
<1>0. writer = "down" /\ opened = {} /\ put = NoRows
  BY RebuildAssumption
     DEF Begin, RegisterStep, RegisterTable, Scan, RemoveTemp, Built, RemoveSidecars, Rename, Abort,
         RebuildInv, StoreInv, TypeOK, Steps, NeverBackNorHalfway
<1>1. UNCHANGED <<bucket, process>>
  BY DEF Begin, RegisterStep, Scan, RemoveTemp, Built, RemoveSidecars, Rename, Abort
<1>2. \A t \in Tables : put[t] = NoFile /\ t \notin opened /\ TableInv(t)
  BY <1>0 DEF RebuildInv, NoRows
\* All but the rename leave a whole database whole.
<1>3. ASSUME StoreInv', \A t \in Tables : InHand(t)',
             \A t \in Tables : exists' /\ step' # "rename" =>
                                  RowKept(Row(t)', files[t], acked[t], Head(t))
      PROVE  RebuildInv'
  <2> SUFFICES ASSUME NEW t \in Tables
               PROVE  TableInv(t)'
    BY <1>3 DEF RebuildInv
  <2>1. Head(t)' = Head(t)
    BY <1>1 DEF Head
  <2>2. OpenKept(t)'
    BY <1>1, <1>2 DEF OpenKept
  <2> QED
    BY <1>1, <1>2, <1>3, <2>1, <2>2 DEF TableInv
<1>4. ASSUME UNCHANGED catalog, step # "rename", step' # "rename", \A t \in Tables : InHand(t)'
      PROVE  RebuildInv'
  <2>1. StoreInv'
    BY <1>0, <1>1, <1>4 DEF RebuildInv, StoreInv
  <2>2. ASSUME NEW t \in Tables, exists'
        PROVE  RowKept(Row(t)', files[t], acked[t], Head(t))
    BY <1>2, <1>4, <2>2 DEF TableInv, Row
  <2> QED
    BY <1>3, <1>4, <2>1, <2>2
<1>5. CASE \E replace \in BOOLEAN : Begin(replace)
  <2>1. step = "idle" /\ step' = "scan" /\ UNCHANGED <<catalog, found, temp>>
    BY <1>5 DEF Begin
  <2> QED
    BY <1>2, <1>4, <2>1 DEF TableInv, InHand
<1>6. CASE Scan
  <2>1. step = "scan" /\ step' = "temp" /\ UNCHANGED <<catalog, temp>>
    BY <1>6 DEF Scan
  <2>2. \A t \in Tables : IF files[t] = {} THEN found'[t] = NoFile ELSE found'[t] \in Tops(files[t])
    BY <1>6 DEF Scan, Candidates, Tops
  <2> QED
    BY <1>1, <1>4, <2>1, <2>2 DEF InHand
<1>7. CASE RemoveTemp
  <2>1. step = "temp" /\ step' = "rows" /\ temp' = NoRows /\ UNCHANGED <<catalog, found>>
    BY <1>7 DEF RemoveTemp
  <2> QED
    BY <1>1, <1>2, <1>4, <2>1 DEF TableInv, InHand, NoRows
<1>8. CASE \E t \in Tables : RegisterStep(t)
  <2> PICK t \in Tables : RegisterStep(t)
    BY <1>8
  <2>1. /\ step = "rows" /\ temp' = [temp EXCEPT ![t] = found[t]] /\ UNCHANGED <<catalog, step, found>>
    BY DEF RegisterStep, RegisterTable
  <2>2. \A u \in Tables : temp'[u] \in {temp[u], found[u]}
    BY <2>1 DEF TypeOK, Rows
  <2> QED
    BY <1>1, <1>2, <1>4, <2>1, <2>2 DEF TableInv, InHand
<1>9. CASE Built
  <2>1. /\ step = "rows" /\ step' = "sidecars" /\ UNCHANGED <<catalog, found, temp>>
        /\ \A t \in Tables : found[t] # NoFile => temp[t] # NoFile
    BY <1>9 DEF Built, Registered
  <2> QED
    BY <1>1, <1>2, <1>4, <2>1 DEF TableInv, InHand
<1>10. CASE RemoveSidecars
  <2>1. step = "sidecars" /\ step' = "rename" /\ wal' = NoRows /\ UNCHANGED <<exists, main, found, temp>>
    BY <1>10 DEF RemoveSidecars
  <2>2. StoreInv'
    BY <1>0, <1>1, <2>1 DEF RebuildInv, StoreInv
  <2> QED
    BY <1>1, <1>2, <1>3, <2>1, <2>2 DEF TableInv, InHand
<1>11. CASE Rename
  <2>1. /\ step = "rename" /\ step' = "idle" /\ found' = NoRows /\ exists' = TRUE
        /\ main' = temp /\ wal' = wal /\ wal = NoRows
    BY <1>11 DEF Rename, Idle, RebuildInv, StoreInv
  <2>2. StoreInv'
    BY <1>0, <1>1, <2>1 DEF RebuildInv, StoreInv
  <2>3. \A t \in Tables : InHand(t)'
    BY <2>1 DEF InHand, NoRows
  <2>4. ASSUME NEW t \in Tables
        PROVE  RowKept(Row(t)', files[t], acked[t], Head(t))
    <3>1. Row(t)' = found[t]
      BY <1>2, <2>1 DEF Row, NoRows, TableInv, InHand
    <3>2. /\ files[t] \in SUBSET Files /\ TopKept(files[t], acked[t])
          /\ IF files[t] = {} THEN found[t] = NoFile ELSE found[t] \in Tops(files[t])
      BY <1>2, <2>1, RowTyped DEF TableInv, InHand
    <3>3. PICK F \in SUBSET Files, R \in Files \union {NoFile},
             a \in {acked[t]}, h \in {Head(t)} : F = files[t] /\ R = found[t]
      BY DEF TypeOK, Rows
    <3> QED
      BY <3>1, <3>2, <3>3, TopIsKept
  <2> QED
    BY <1>3, <2>2, <2>3, <2>4
<1>12. CASE Abort
  <2>1. step \in KillAt /\ step # "rename" /\ step' = "idle" /\ found' = NoRows /\ UNCHANGED catalog
    BY <1>12 DEF Abort, Idle, NeverBackNorHalfway
  <2> QED
    BY <1>4, <2>1 DEF InHand, NoRows
<1> QED
  BY <1>5, <1>6, <1>7, <1>8, <1>9, <1>10, <1>11, <1>12

LEMMA RebuildInitInv == Init => RebuildInv
<1> SUFFICES ASSUME Init PROVE RebuildInv
  OBVIOUS
<1>1. ASSUME NEW t \in Tables
      PROVE  /\ files[t] = {} /\ acked[t] = {} /\ put[t] = NoFile /\ found[t] = NoFile
             /\ opened = {} /\ step = "idle" /\ ~exists
  BY DEF Init, NoRows
<1>2. IsFiniteSet({})
  BY FS_EmptySet
<1> QED
  BY <1>1, <1>2 DEF Init, RebuildInv, StoreInv, TableInv, Siblings, TopKept, Tops, OpenKept, InHand

LEMMA RebuildInductive ==
    ASSUME NeverBackNorHalfway
    PROVE  TypeOK /\ RebuildInv /\ [Next]_vars => TypeOK' /\ RebuildInv'
<1> SUFFICES ASSUME TypeOK, RebuildInv, [Next]_vars
             PROVE  TypeOK' /\ RebuildInv'
  OBVIOUS
<1>1. CASE UNCHANGED vars
  <2> USE DEF vars, bucket, catalog, process, rebuild
  <2>1. TypeOK' /\ StoreInv'
    BY <1>1 DEF TypeOK, RebuildInv, StoreInv
  <2>2. \A t \in Tables : TableInv(t)'
    BY <1>1, Untouched DEF RebuildInv
  <2> QED
    BY <2>1, <2>2 DEF RebuildInv
<1>2. CASE Next
  <2>1. RebuildInv'
    BY <1>2, PutStep, SwapStep, AckStep, WriterStep, RebuildStep DEF Next
  <2> QED
    BY <1>2, <2>1, RebuildTypeStep
<1> QED
  BY <1>1, <1>2

\* Neither a kill of the writer, a swap that fails, the loss of the database nor
\* a rebuild that fails or is killed takes a batch that was told committed out of
\* a table, however many metadata files tie on the highest sequence (register,
\* Rebuild, metascan).  Two hypotheses, each of which a run or the README shows
\* to matter: no rollback to an older binary, and no end of a rebuild between the
\* removal of the old log and the rename.
THEOREM CatalogKeeps ==
    ASSUME NeverBackNorHalfway
    PROVE  Spec => []CatalogKeepsCommitted
<1>1. Init => TypeOK /\ RebuildInv
  BY RebuildInitType, RebuildInitInv
<1>2. TypeOK /\ RebuildInv /\ [Next]_vars => TypeOK' /\ RebuildInv'
  BY RebuildInductive
<1>3. TypeOK /\ RebuildInv => CatalogKeepsCommitted
  <2> SUFFICES ASSUME TypeOK, RebuildInv, exists, step = "idle", NEW t \in Tables, acked[t] # {}
               PROVE  Row(t) # NoFile /\ acked[t] \subseteq Row(t).holds
    BY DEF CatalogKeepsCommitted
  <2>1. RowKept(Row(t), files[t], acked[t], Head(t))
    BY DEF RebuildInv, TableInv
  <2> QED
    BY <2>1 DEF RowKept
<1> QED
  BY <1>1, <1>2, <1>3, PTL DEF Spec

=============================================================================
