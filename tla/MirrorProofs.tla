---------------------------- MODULE MirrorProofs ----------------------------
(***************************************************************************)
(* Each batch is in the mirror once, or not at all and somebody was told,  *)
(* the operator dropped it or it expired, for any number of batches,       *)
(* deployments, outages, drops, expiries and restarts.                     *)
(*                                                                         *)
(* The argument.  A table forgets the tokens of all but the newest batches *)
(* it took, one at least; but batches are offered oldest first, and what   *)
(* is offered again is the oldest one waiting: of that one the table knows *)
(* the token for as long as it has the row, and every other row it has is  *)
(* older.  A token whose row is gone is that of a batch that was dropped   *)
(* or has expired.  And a batch reaches a data file from two places only:  *)
(* behind an insert the server answered, or behind a call of               *)
(* OnClickHouseError.                                                      *)
(***************************************************************************)
EXTENDS Mirror, SequenceTheorems, TLAPS

\* A table an operator made beforehand has a window and nothing in it.
WindowedTables ==
    \A o \in OperatorTables :
       /\ o.dedup = TRUE /\ o.tokens = <<>> /\ o.rows = <<>>
       /\ o = [columns |-> o.columns, ttl |-> o.ttl, dedup |-> o.dedup, tokens |-> o.tokens, rows |-> o.rows]

IsSeq(s) == \E T : s \in Seq(T)

(***************************************************************************)
(* A table that took batches up to number n.                               *)
(***************************************************************************)
IsTable(tb) ==
    tb = [columns |-> tb.columns, ttl |-> tb.ttl, dedup |-> tb.dedup, tokens |-> tb.tokens, rows |-> tb.rows]

Rowed(tb, k) == \E i \in 1..Len(tb.rows) : tb.rows[i].key = k
Tokens(tb) == {tb.tokens[i] : i \in 1..Len(tb.tokens)}

\* In order, each once; it knows the token of batch n if it has its row, and
\* knows no token but of a batch that it has or that was removed from it.
Sound(tb, n) ==
    /\ IsTable(tb) /\ tb.dedup = TRUE /\ IsSeq(tb.rows) /\ IsSeq(tb.tokens)
    /\ \A i \in 1..Len(tb.rows) : tb.rows[i].key \in Nat /\ tb.rows[i].key <= n
    /\ \A i, j \in 1..Len(tb.rows) : i < j => tb.rows[i].key < tb.rows[j].key
    /\ \A i \in 1..Len(tb.rows) : tb.rows[i].key = n => n \in Tokens(tb)
    /\ \A k \in Tokens(tb) : Rowed(tb, k) \/ k \in excused

TableOK(tb, n) == tb # NoTable => Sound(tb, n)
Reaches(tb, k) == tb # NoTable /\ Rowed(tb, k)
Grows(tb, after, n) == TableOK(after, n) /\ \A k : Reaches(tb, k) => Reaches(after, k)

(***************************************************************************)
(* The invariant.                                                          *)
(***************************************************************************)
Done == sealed - Len(waiting)
Offered == IF waiting = <<>> THEN Done ELSE Done + 1

\* Batches wait in the order of their numbers.
Queued ==
    /\ IsSeq(waiting) /\ sealed \in Nat /\ Len(waiting) <= sealed
    /\ \A i \in 1..Len(waiting) : waiting[i].key = Done + i

\* Where the process is, a batch that is offered waits.
Flowing ==
    /\ pc \in {"down", "create", "read", "columns", "idle", "insert", "commit", "prune"}
    /\ caller \in {"open", "insert"}
    /\ pc = "insert" => caller = "insert"
    /\ pc \in {"create", "read", "columns", "insert"} /\ caller = "insert" => waiting # <<>>
    /\ pc \in {"commit", "prune"} => waiting # <<>>

Covered(k) == Reaches(table, k) \/ k \in told \/ k \in excused

MirrorInv ==
    /\ Queued /\ Flowing /\ TableOK(table, Offered)
    /\ \A k \in DOMAIN recorded : Covered(k)
    /\ pc = "commit" => Covered(Head1.key)

(***************************************************************************)
(* Sequences.                                                              *)
(***************************************************************************)

LEMMA SeqAppend ==
    ASSUME NEW s, NEW e, IsSeq(s)
    PROVE  /\ IsSeq(Append(s, e)) /\ Len(s) \in Nat /\ Len(Append(s, e)) = Len(s) + 1
           /\ \A i \in 1..Len(s) : Append(s, e)[i] = s[i]
           /\ Append(s, e)[Len(s) + 1] = e /\ Append(s, e) # <<>>
           /\ s = <<>> <=> Len(s) = 0
<1> PICK T : s \in Seq(T)
  BY DEF IsSeq
<1> DEFINE U == T \union {e}
<1>1. s \in Seq(U) /\ e \in U /\ Len(s) \in Nat
  BY SeqDef, LenProperties
<1> HIDE DEF U
<1>2. /\ Append(s, e) \in Seq(U) /\ Len(Append(s, e)) = Len(s) + 1
      /\ \A i \in 1..Len(s) : Append(s, e)[i] = s[i]
      /\ Append(s, e)[Len(s) + 1] = e
  BY <1>1, AppendProperties
<1>3. s = <<>> <=> Len(s) = 0
  BY <1>1, EmptySeq
<1>4. Append(s, e) # <<>>
  BY <1>1, <1>2
<1> QED
  BY <1>1, <1>2, <1>3, <1>4 DEF IsSeq

LEMMA SeqTail ==
    ASSUME NEW s, IsSeq(s), s # <<>>
    PROVE  /\ IsSeq(Tail(s)) /\ Len(s) \in Nat /\ Len(s) >= 1 /\ Len(Tail(s)) = Len(s) - 1
           /\ \A i \in 1..(Len(s) - 1) : Tail(s)[i] = s[i + 1]
           /\ Head(s) = s[1]
           /\ Tail(s) = <<>> <=> Len(s) = 1
<1> PICK T : s \in Seq(T)
  BY DEF IsSeq
<1>1. /\ Len(s) \in Nat /\ Len(s) >= 1 /\ Tail(s) \in Seq(T) /\ Len(Tail(s)) = Len(s) - 1
      /\ \A i \in 1..Len(Tail(s)) : Tail(s)[i] = s[i + 1]
      /\ Head(s) = s[1]
  BY HeadTailProperties, LenProperties, EmptySeq
<1>2. Tail(s) = <<>> <=> Len(Tail(s)) = 0
  BY <1>1, EmptySeq
<1> QED
  BY <1>1, <1>2 DEF IsSeq

\* The newest tokens are some of them, the last among them.
LEMMA NewestKept ==
    ASSUME NEW s, IsSeq(s), s # <<>>
    PROVE  /\ IsSeq(Newest(s)) /\ Newest(s) # <<>>
           /\ Newest(s)[Len(Newest(s))] = s[Len(s)]
           /\ \A i \in 1..Len(Newest(s)) : \E j \in 1..Len(s) : Newest(s)[i] = s[j]
<1> PICK T : s \in Seq(T)
  BY DEF IsSeq
<1> DEFINE m == IF Len(s) > DedupWindow THEN Len(s) - DedupWindow ELSE 0
<1>1. Len(s) \in Nat /\ Len(s) >= 1 /\ m \in Nat /\ m < Len(s)
  BY SeqTail, MirrorAssumption
<1>2. Newest(s) = SubSeq(s, m + 1, Len(s))
  BY DEF Newest
<1> HIDE DEF m
<1>3. /\ Newest(s) \in Seq(T) /\ Len(Newest(s)) = Len(s) - m
      /\ \A i \in 1..(Len(s) - m) : Newest(s)[i] = s[m + i]
  <2>1. m + 1 \in 1..(Len(s) + 1) /\ Len(s) \in (m + 1 - 1)..Len(s)
    BY <1>1
  <2>2. \A i \in (m + 1)..Len(s) : s[i] \in T
    BY <1>1, LenProperties
  <2> QED
    BY <1>1, <1>2, <2>1, <2>2, SubSeqProperties
<1> QED
  BY <1>1, <1>3 DEF IsSeq

\* A token recorded is the newest, and the others were there.
LEMMA NewestAdded ==
    ASSUME NEW t, IsSeq(t), NEW n
    PROVE  LET s == Newest(Append(t, n))
           IN  /\ IsSeq(s) /\ s # <<>> /\ s[Len(s)] = n
               /\ \A i \in 1..Len(s) : s[i] = n \/ \E j \in 1..Len(t) : s[i] = t[j]
<1> PICK s, new : s = Append(t, n) /\ new = Newest(s)
  OBVIOUS
<1>1. /\ IsSeq(s) /\ s # <<>> /\ Len(t) \in Nat /\ Len(s) = Len(t) + 1
      /\ \A i \in 1..Len(t) : s[i] = t[i]
      /\ s[Len(t) + 1] = n
  BY SeqAppend
<1>2. /\ IsSeq(new) /\ new # <<>> /\ new[Len(new)] = s[Len(s)]
      /\ \A i \in 1..Len(new) : \E j \in 1..Len(s) : new[i] = s[j]
  BY <1>1, NewestKept
<1>3. \A j \in 1..Len(s) : s[j] = n \/ (j \in 1..Len(t) /\ s[j] = t[j])
  BY <1>1
<1>4. \A i \in 1..Len(new) : new[i] = n \/ \E j \in 1..Len(t) : new[i] = t[j]
  BY <1>2, <1>3
<1> QED
  BY <1>1, <1>2, <1>4

(***************************************************************************)
(* What the server's statements do to a sound table.                       *)
(***************************************************************************)

LEMMA SoundIsTable ==
    ASSUME NEW tb, NEW n, Sound(tb, n)
    PROVE  tb # NoTable
<1>1. tb.dedup = TRUE /\ NoTable.dedup = FALSE
  BY DEF Sound, NoTable
<1> QED
  BY <1>1

LEMMA SoundLater ==
    ASSUME NEW tb, NEW n \in Nat, NEW m \in Nat, n <= m, Sound(tb, n)
    PROVE  Sound(tb, m)
<1>1. \A i \in 1..Len(tb.rows) :
         /\ tb.rows[i].key \in Nat /\ tb.rows[i].key <= m
         /\ tb.rows[i].key = m => m \in Tokens(tb)
  BY DEF Sound
<1> QED
  BY <1>1 DEF Sound

\* While nothing is said to the server, more may be offered.
LEMMA TableStays ==
    ASSUME TableOK(table, Offered), UNCHANGED <<table, excused>>,
           Offered' = Offered \/ (Offered \in Nat /\ Offered' \in Nat /\ Offered <= Offered')
    PROVE  TableOK(table, Offered)'
<1> PICK m, n : m = Offered /\ n = Offered'
  OBVIOUS
<1>1. TableOK(table, n)
  BY SoundLater DEF TableOK
<1> QED
  BY <1>1 DEF TableOK, Sound

LEMMA EmptySound ==
    ASSUME NEW tb, NEW n, IsTable(tb), tb.dedup = TRUE, tb.tokens = <<>>, tb.rows = <<>>
    PROVE  Sound(tb, n)
<1>1. IsSeq(<<>>) /\ Len(<<>>) = 0
  BY DEF IsSeq
<1> QED
  BY <1>1 DEF Sound, Tokens

LEMMA CreatedSound ==
    ASSUME NEW d, NEW t, NEW n
    PROVE  Sound(Created(d, t), n)
<1> DEFINE tb == Created(d, t)
<1>1. IsTable(tb) /\ tb.dedup = TRUE /\ tb.tokens = <<>> /\ tb.rows = <<>>
  BY DEF Created, IsTable
<1> HIDE DEF tb
<1>2. Sound(tb, n)
  BY <1>1, EmptySound
<1> QED
  BY <1>2 DEF tb

\* Its columns and its expiry are nobody's business here.
LEMMA AlteredSound ==
    ASSUME NEW tb, NEW n, Sound(tb, n), NEW x
    PROVE  /\ Grows(tb, [tb EXCEPT !.columns = x], n)
           /\ Grows(tb, [tb EXCEPT !.ttl = x], n)
<1> DEFINE c == [tb EXCEPT !.columns = x]
           t == [tb EXCEPT !.ttl = x]
<1>1. /\ IsTable(c) /\ c.rows = tb.rows /\ c.tokens = tb.tokens /\ c.dedup = tb.dedup
      /\ IsTable(t) /\ t.rows = tb.rows /\ t.tokens = tb.tokens /\ t.dedup = tb.dedup
  BY DEF Sound, IsTable
<1> HIDE DEF c, t
<1>2. Sound(c, n) /\ Sound(t, n)
  BY <1>1 DEF Sound, Rowed, Tokens
<1>3. \A k : (Rowed(tb, k) => Rowed(c, k)) /\ (Rowed(tb, k) => Rowed(t, k))
  BY <1>1 DEF Rowed
<1>4. c # NoTable /\ t # NoTable
  BY <1>2, SoundIsTable
<1>5. Grows(tb, c, n) /\ Grows(tb, t, n)
  BY <1>2, <1>3, <1>4 DEF Grows, TableOK, Reaches
<1> QED
  BY <1>5 DEF c, t

\* The oldest batch waiting is newer than every row, or the table knows its token.
LEMMA InsertSound ==
    ASSUME NEW tb, NEW n \in Nat, Sound(tb, n), NEW e, e.key = n, NEW after,
           after = IF n \in ToSet(tb.tokens) THEN tb
                   ELSE [tb EXCEPT !.rows = Append(@, e), !.tokens = Newest(Append(@, n))]
    PROVE  Grows(tb, after, n) /\ (Reaches(after, n) \/ n \in excused)
<1>1. tb # NoTable /\ IsSeq(tb.rows) /\ IsSeq(tb.tokens)
  BY SoundIsTable DEF Sound
<1>2. CASE n \in ToSet(tb.tokens)
  <2>1. PICK i \in DOMAIN tb.tokens : tb.tokens[i] = n
    BY <1>2 DEF ToSet
  <2>2. DOMAIN tb.tokens = 1..Len(tb.tokens)
    BY <1>1, LenProperties DEF IsSeq
  <2>3. Rowed(tb, n) \/ n \in excused
    BY <2>1, <2>2 DEF Sound, Tokens
  <2> QED
    BY <1>1, <1>2, <2>3 DEF Grows, TableOK, Reaches
<1>3. CASE n \notin ToSet(tb.tokens)
  <2>1. /\ IsTable(after) /\ after.dedup = TRUE
        /\ after.rows = Append(tb.rows, e) /\ after.tokens = Newest(Append(tb.tokens, n))
    BY <1>3 DEF Sound, IsTable
  <2> DEFINE L == Len(tb.rows)
  <2>2. /\ IsSeq(after.rows) /\ L \in Nat /\ Len(after.rows) = L + 1
        /\ \A i \in 1..L : after.rows[i] = tb.rows[i]
        /\ after.rows[L + 1] = e /\ after.rows # <<>>
    BY <1>1, <2>1, SeqAppend
  <2>3. /\ IsSeq(after.tokens) /\ after.tokens # <<>> /\ after.tokens[Len(after.tokens)] = n
        /\ \A i \in 1..Len(after.tokens) :
              after.tokens[i] = n \/ \E j \in 1..Len(tb.tokens) : after.tokens[i] = tb.tokens[j]
    BY <1>1, <2>1, NewestAdded
  \* All rows are older.
  <2>4. \A i \in 1..L : tb.rows[i].key \in Nat /\ tb.rows[i].key < n
    <3>1. DOMAIN tb.tokens = 1..Len(tb.tokens)
      BY <1>1, LenProperties DEF IsSeq
    <3>2. n \notin Tokens(tb)
      BY <1>3, <3>1 DEF ToSet, Tokens
    <3> QED
      BY <3>2 DEF Sound
  <2>5. Rowed(after, n) /\ \A k : Rowed(tb, k) => Rowed(after, k)
    BY <2>2 DEF Rowed
  <2>6. Sound(after, n)
    <3>1. \A i \in 1..Len(after.rows) : after.rows[i].key \in Nat /\ after.rows[i].key <= n
      BY <2>2, <2>4
    <3>2. \A i, j \in 1..Len(after.rows) : i < j => after.rows[i].key < after.rows[j].key
      <4> SUFFICES ASSUME NEW i \in 1..(L + 1), NEW j \in 1..(L + 1), i < j
                   PROVE  after.rows[i].key < after.rows[j].key
        BY <2>2
      <4>1. i \in 1..L
        BY <2>2
      <4>2. CASE j = L + 1
        BY <2>2, <2>4, <4>1, <4>2
      <4>3. CASE j \in 1..L
        BY <2>2, <4>1, <4>3 DEF Sound
      <4> QED
        BY <2>2, <4>2, <4>3
    <3>3. n \in Tokens(after)
      <4>1. Len(after.tokens) \in 1..Len(after.tokens)
        BY <2>3, SeqTail
      <4> QED
        BY <2>3, <4>1 DEF Tokens
    <3>4. \A k \in Tokens(after) : Rowed(after, k) \/ k \in excused
      <4>1. \A k \in Tokens(after) : k = n \/ k \in Tokens(tb)
        BY <2>3 DEF Tokens
      <4> QED
        BY <2>5, <4>1 DEF Sound
    <3> QED
      BY <2>1, <2>2, <2>3, <3>1, <3>2, <3>3, <3>4 DEF Sound
  <2>7. after # NoTable
    BY <2>6, SoundIsTable
  <2> QED
    BY <2>5, <2>6, <2>7 DEF Grows, TableOK, Reaches
<1> QED
  BY <1>2, <1>3

(***************************************************************************)
(* The parts of a step.                                                    *)
(***************************************************************************)

\* The batch at the head of the queue is the one that is offered.
LEMMA HeadIsOffered ==
    ASSUME MirrorInv, waiting # <<>>
    PROVE  Head1.key = Offered /\ Offered \in Nat /\ Offered = Done + 1
<1>1. Len(waiting) \in Nat /\ Len(waiting) >= 1 /\ Head1 = waiting[1]
  BY SeqTail DEF MirrorInv, Queued, Head1
<1>2. waiting[1].key = Done + 1 /\ sealed \in Nat /\ Len(waiting) <= sealed
  BY <1>1 DEF MirrorInv, Queued
<1> QED
  BY <1>1, <1>2 DEF Offered, Done

\* No statement takes a row out of the table, or makes it unsound.
LEMMA StatementGrows ==
    ASSUME MirrorInv
    PROVE  /\ Grows(table, table, Offered) /\ Grows(table, createTable, Offered)
           /\ Grows(table, modifyTTL, Offered)
           /\ \A c : Grows(table, addColumn(c), Offered)
           /\ waiting # <<>> /\ Takes => /\ Grows(table, Inserted(Head1), Offered)
                                         /\ \/ Reaches(Inserted(Head1), Head1.key)
                                            \/ Head1.key \in excused
<1> PICK tb, n : tb = table /\ n = Offered
  OBVIOUS
<1>0. TableOK(tb, n)
  BY DEF MirrorInv
<1>1. Grows(tb, tb, n)
  BY <1>0 DEF Grows
<1>2. Grows(tb, createTable, n)
  <2>1. CASE tb = NoTable
    <3> PICK new : new = Created(bin.decl, bin.ttl)
      OBVIOUS
    <3>1. Sound(new, n) /\ createTable = new
      BY <2>1, CreatedSound DEF createTable
    <3> QED
      BY <2>1, <3>1 DEF Grows, TableOK, Reaches
  <2>2. CASE tb # NoTable
    BY <1>1, <2>2 DEF createTable
  <2> QED
    BY <2>1, <2>2
<1>3. Grows(tb, modifyTTL, n)
  <2>1. CASE tb = NoTable
    BY <1>1, <2>1 DEF modifyTTL
  <2>2. CASE tb # NoTable
    <3>1. Sound(tb, n)
      BY <1>0, <2>2 DEF TableOK
    <3> PICK x : x = bin.ttl
      OBVIOUS
    <3>2. modifyTTL = [tb EXCEPT !.ttl = x]
      BY <2>2 DEF modifyTTL
    <3>3. Grows(tb, [tb EXCEPT !.ttl = x], n)
      BY <3>1, AlteredSound
    <3> QED
      BY <3>2, <3>3
  <2> QED
    BY <2>1, <2>2
<1>4. ASSUME NEW c PROVE Grows(tb, addColumn(c), n)
  <2>1. CASE tb = NoTable \/ c.name \in DOMAIN tb.columns
    BY <1>1, <2>1 DEF addColumn
  <2>2. CASE ~(tb = NoTable \/ c.name \in DOMAIN tb.columns)
    <3>1. Sound(tb, n)
      BY <1>0, <2>2 DEF TableOK
    <3> DEFINE x == [m \in DOMAIN tb.columns \union {c.name} |->
                        IF m = c.name THEN c.type ELSE tb.columns[m]]
    <3>2. addColumn(c) = [tb EXCEPT !.columns = x]
      BY <2>2 DEF addColumn
    <3> HIDE DEF x
    <3>3. Grows(tb, [tb EXCEPT !.columns = x], n)
      BY <3>1, AlteredSound
    <3> QED
      BY <3>2, <3>3
  <2> QED
    BY <2>1, <2>2
<1>5. ASSUME waiting # <<>>, Takes
      PROVE  /\ Grows(tb, Inserted(Head1), n) /\ Head1.key = n
             /\ Reaches(Inserted(Head1), n) \/ n \in excused
  <2>1. tb # NoTable /\ Head1.key = n /\ n \in Nat
    BY <1>5, HeadIsOffered DEF Takes
  <2>2. Sound(tb, n) /\ tb.dedup = TRUE
    BY <1>0, <2>1 DEF TableOK, Sound
  <2> PICK e : e = [key |-> Head1.key, row |-> MirrorRow(Head1, bin.decl)]
    OBVIOUS
  <2> PICK after : after = Inserted(Head1)
    OBVIOUS
  <2>3. e.key = n
    BY <2>1
  <2>4. after = IF n \in ToSet(tb.tokens) THEN tb
                ELSE [tb EXCEPT !.rows = Append(@, e), !.tokens = Newest(Append(@, n))]
    BY <2>1, <2>2 DEF Inserted, Token
  <2>5. Grows(tb, after, n) /\ (Reaches(after, n) \/ n \in excused)
    BY <2>1, <2>2, <2>3, <2>4, InsertSound
  <2> QED
    BY <2>1, <2>5
<1> QED
  BY <1>1, <1>2, <1>3, <1>4, <1>5

\* What a step that only speaks to the server carries over.
LEMMA Carried ==
    ASSUME MirrorInv, UNCHANGED <<waiting, sealed>>, Grows(table, table', Offered),
           told \subseteq told', UNCHANGED excused
    PROVE  Queued' /\ TableOK(table, Offered)' /\ \A k : Covered(k) => Covered(k)'
<1>1. Queued' /\ Offered' = Offered
  BY DEF MirrorInv, Queued, Offered, Done
<1>2. TableOK(table', Offered)
  BY DEF Grows
<1>3. TableOK(table, Offered)'
  BY <1>1, <1>2 DEF TableOK, Sound
<1>4. \A k : Covered(k) => Covered(k)'
  BY DEF Grows, Covered
<1> QED
  BY <1>1, <1>3, <1>4

LEMMA FailsOrTells ==
    ASSUME MirrorInv, pc \in {"create", "read", "columns", "insert"}, Fails \/ Conflict
    PROVE  /\ told \subseteq told' /\ pc' \in {"idle", "down", "commit"}
           /\ pc' = "commit" => waiting # <<>> /\ Head1.key \in told'
  BY DEF MirrorInv, Flowing, Fails, Conflict, TellAndGoOn

\* And so the invariant, when the step leaves the lake alone.
LEMMA SpeaksOnly ==
    ASSUME MirrorInv, UNCHANGED <<lake, caller, excused>>, Grows(table, table', Offered),
           told \subseteq told',
           pc' \in {"idle", "down", "read", "columns", "insert", "commit"},
           pc' \in {"read", "columns"} => pc \in {"create", "read", "columns"},
           pc' = "insert" => caller = "insert" /\ pc = "columns",
           pc' = "commit" => waiting # <<>> /\ (Reaches(table', Head1.key) \/ Head1.key \in told' \union excused)
    PROVE  MirrorInv'
<1>1. Queued' /\ TableOK(table, Offered)' /\ \A k : Covered(k) => Covered(k)'
  BY Carried DEF lake
<1>2. Flowing'
  BY DEF MirrorInv, Flowing, lake
<1>3. \A k \in DOMAIN recorded' : Covered(k)'
  BY <1>1 DEF MirrorInv, lake
<1>4. pc' = "commit" => Covered(Head1.key)'
  BY DEF Covered, Head1, lake
<1> QED
  BY <1>1, <1>2, <1>3, <1>4 DEF MirrorInv

(***************************************************************************)
(* The steps.                                                              *)
(***************************************************************************)

\* What an Answered, a Refused or an Unanswered statement leaves behind.
LEMMA EnsureKeeps ==
    ASSUME MirrorInv, EnsureCreate \/ liveColumns \/ ReconcileColumn \/ EnsureTTL
    PROVE  MirrorInv'
<1> USE DEF EnsureUnchanged
<1>1. CASE EnsureCreate
  <2>1. Grows(table, table', Offered)
    BY <1>1, StatementGrows DEF EnsureCreate, Answered, Unanswered
  <2>2. /\ pc = "create" /\ UNCHANGED <<lake, caller, excused>>
        /\ (pc' = "read" /\ told' = told) \/ Fails
    BY <1>1 DEF EnsureCreate
  <2> QED
    BY <2>1, <2>2, FailsOrTells, SpeaksOnly
<1>2. CASE liveColumns
  <2>1. Grows(table, table', Offered)
    BY <1>2, StatementGrows DEF liveColumns, Answered, Unanswered
  <2>2. /\ pc = "read" /\ UNCHANGED <<lake, caller, excused>>
        /\ (pc' = "columns" /\ told' = told) \/ Fails
    BY <1>2 DEF liveColumns
  <2> QED
    BY <2>1, <2>2, FailsOrTells, SpeaksOnly
<1>3. CASE ReconcileColumn
  <2> PICK c : c = Columns(bin.decl)[Min(Disagreeing)]
    OBVIOUS
  <2>1. Grows(table, table', Offered)
    BY <1>3, StatementGrows DEF ReconcileColumn, Answered, Refused, Unanswered, server
  <2>2. /\ pc = "columns" /\ UNCHANGED <<lake, caller, excused>>
        /\ (pc' = "columns" /\ told' = told) \/ Fails \/ Conflict
    BY <1>3 DEF ReconcileColumn
  <2> QED
    BY <2>1, <2>2, FailsOrTells, SpeaksOnly
<1>4. CASE EnsureTTL
  <2>1. Grows(table, table', Offered)
    BY <1>4, StatementGrows DEF EnsureTTL, Answered, Refused, Unanswered, server
  <2>2. /\ pc = "columns" /\ UNCHANGED <<lake, caller, excused>>
        /\ (Ready /\ told' = told) \/ Fails
    BY <1>4 DEF EnsureTTL
  <2>3. CASE Fails
    BY <2>1, <2>2, <2>3, FailsOrTells, SpeaksOnly
  <2>4. CASE Ready /\ told' = told
    <3>1. pc' \in {"idle", "insert"} /\ (pc' = "insert" => caller = "insert")
      BY <2>4 DEF Ready, MirrorInv, Flowing
    <3> QED
      BY <2>1, <2>2, <2>4, <3>1, SpeaksOnly
  <2> QED
    BY <2>2, <2>3, <2>4
<1> QED
  BY <1>1, <1>2, <1>3, <1>4

LEMMA InsertKeeps ==
    ASSUME MirrorInv, Insert
    PROVE  MirrorInv'
<1>1. pc = "insert" /\ waiting # <<>> /\ UNCHANGED <<lake, caller, excused>>
  BY DEF Insert, MirrorInv, Flowing
<1>2. CASE Takes /\ Answered(Inserted(Head1)) /\ pc' = "commit" /\ UNCHANGED told
  <2>1. Grows(table, table', Offered) /\ (Reaches(table', Head1.key) \/ Head1.key \in excused)
    BY <1>1, <1>2, StatementGrows DEF Answered
  <2> QED
    BY <1>1, <1>2, <2>1, SpeaksOnly
<1>3. CASE /\ Refused(~Takes) \/ Unanswered(IF Takes THEN Inserted(Head1) ELSE table)
           /\ Fails
  <2>1. Grows(table, table', Offered)
    BY <1>1, <1>3, StatementGrows DEF Answered, Refused, Unanswered
  <2> QED
    BY <1>1, <1>3, <2>1, FailsOrTells, SpeaksOnly
<1> QED
  BY <1>2, <1>3 DEF Insert

\* The lake takes the batch whose rows are in the mirror, or that was told.
LEMMA CommitKeeps ==
    ASSUME MirrorInv, Commit
    PROVE  MirrorInv'
<1>1. /\ pc = "commit" /\ pc' \in {"prune", "idle"}
      /\ UNCHANGED <<waiting, sealed, table, caller, told, excused>>
      /\ recorded' \in {recorded, Recorded}
  BY DEF Commit, server, ghosts
<1>2. Queued' /\ TableOK(table, Offered)' /\ \A k : Covered(k) => Covered(k)'
  BY <1>1, StatementGrows, Carried
<1>3. Flowing'
  BY <1>1 DEF MirrorInv, Flowing
<1>4. \A k \in DOMAIN recorded' : k \in DOMAIN recorded \/ k = Head1.key
  BY <1>1 DEF Recorded
<1>5. \A k \in DOMAIN recorded' : Covered(k)'
  BY <1>1, <1>2, <1>4 DEF MirrorInv
<1> QED
  BY <1>1, <1>2, <1>3, <1>5 DEF MirrorInv

\* The oldest batch leaves staging; the next one is newer than the table's rows.
LEMMA LeavesKeeps ==
    ASSUME MirrorInv, waiting # <<>>, waiting' = Tail(waiting), pc' = "idle",
           UNCHANGED <<sealed, recorded, table, caller, told, excused>>
    PROVE  MirrorInv'
<1>1. /\ IsSeq(waiting') /\ Len(waiting) \in Nat /\ Len(waiting) >= 1
      /\ Len(waiting') = Len(waiting) - 1
      /\ \A i \in 1..(Len(waiting) - 1) : waiting'[i] = waiting[i + 1]
  BY SeqTail DEF MirrorInv, Queued
<1>2. sealed \in Nat /\ Len(waiting) <= sealed /\ Done \in Nat /\ Done' = Done + 1
  BY <1>1 DEF MirrorInv, Queued, Done
<1>3. Queued'
  <2>1. ASSUME NEW i \in 1..Len(waiting') PROVE waiting'[i].key = Done' + i
    <3>1. i \in 1..(Len(waiting) - 1) /\ i + 1 \in 1..Len(waiting) /\ i \in Nat
      BY <1>1, <2>1
    <3>2. waiting'[i] = waiting[i + 1] /\ waiting[i + 1].key = Done + (i + 1)
      BY <1>1, <3>1 DEF MirrorInv, Queued
    <3> QED
      BY <1>2, <3>1, <3>2
  <2> QED
    BY <1>1, <1>2, <2>1 DEF Queued
<1>4. Offered = Done + 1 /\ Offered' \in {Done + 1, Done + 2}
  BY <1>2 DEF Offered
<1>5. TableOK(table, Offered)'
  BY <1>2, <1>4, TableStays DEF MirrorInv
<1>6. Flowing'
  BY DEF MirrorInv, Flowing
<1>7. \A k \in DOMAIN recorded' : Covered(k)'
  BY DEF MirrorInv, Covered
<1> QED
  BY <1>3, <1>5, <1>6, <1>7 DEF MirrorInv

LEMMA SealKeeps ==
    ASSUME MirrorInv, Seal
    PROVE  MirrorInv'
<1> PICK b : b.key = sealed + 1 /\ waiting' = Append(waiting, b)
  BY DEF Seal
<1>1. sealed' = sealed + 1 /\ UNCHANGED <<recorded, table, pc, caller, told, excused>>
  BY DEF Seal, server, ghosts
<1>2. /\ IsSeq(waiting') /\ Len(waiting) \in Nat /\ Len(waiting') = Len(waiting) + 1
      /\ \A i \in 1..Len(waiting) : waiting'[i] = waiting[i]
      /\ waiting'[Len(waiting) + 1] = b /\ waiting' # <<>>
      /\ waiting = <<>> <=> Len(waiting) = 0
  BY SeqAppend DEF MirrorInv, Queued
<1>3. sealed \in Nat /\ Len(waiting) <= sealed /\ Done \in Nat /\ Done' = Done
  BY <1>1, <1>2 DEF MirrorInv, Queued, Done
<1>4. Queued'
  <2>1. ASSUME NEW i \in 1..Len(waiting') PROVE waiting'[i].key = Done' + i
    <3>1. CASE i \in 1..Len(waiting)
      BY <1>2, <1>3, <3>1 DEF MirrorInv, Queued
    <3>2. CASE i = Len(waiting) + 1
      BY <1>2, <1>3, <3>2 DEF Done
    <3> QED
      BY <1>2, <2>1, <3>1, <3>2
  <2> QED
    BY <1>1, <1>2, <1>3, <2>1 DEF Queued
<1>5. Offered \in {Done, Done + 1} /\ Offered' = Done + 1
  BY <1>2, <1>3 DEF Offered
<1>6. TableOK(table, Offered)'
  BY <1>1, <1>3, <1>5, TableStays DEF MirrorInv
<1>7. Flowing' /\ (pc = "commit" => waiting # <<>>)
  BY <1>1, <1>2 DEF MirrorInv, Flowing
<1>8. \A k : Covered(k) => Covered(k)'
  BY <1>1 DEF Covered
<1>9. waiting # <<>> => Head1' = Head1
  <2> SUFFICES ASSUME waiting # <<>> PROVE waiting'[1] = waiting[1] /\ Head1' = waiting'[1] /\ Head1 = waiting[1]
    OBVIOUS
  <2>1. 1 \in 1..Len(waiting)
    BY <1>2
  <2> QED
    BY <1>2, <2>1, SeqTail DEF MirrorInv, Queued, Head1
<1> QED
  BY <1>1, <1>4, <1>6, <1>7, <1>8, <1>9 DEF MirrorInv

\* The rows of the table the operator drops are excused.
LEMMA DropKeeps ==
    ASSUME MirrorInv, DropTable
    PROVE  MirrorInv'
<1>1. /\ table # NoTable /\ table' = NoTable
      /\ excused' = excused \union {table.rows[i].key : i \in DOMAIN table.rows}
      /\ UNCHANGED <<lake, pc, caller, told>>
  BY DEF DropTable, process
<1>2. IsSeq(table.rows)
  BY <1>1 DEF MirrorInv, TableOK, Sound
<1>3. DOMAIN table.rows = 1..Len(table.rows)
  BY <1>2, LenProperties DEF IsSeq
<1>4. \A k : Covered(k) => Covered(k)'
  BY <1>1, <1>3 DEF Covered, Reaches, Rowed
<1>5. Queued' /\ Flowing' /\ TableOK(table, Offered)'
  BY <1>1 DEF MirrorInv, Queued, Done, Flowing, TableOK, lake
<1> QED
  BY <1>1, <1>4, <1>5 DEF MirrorInv, Head1, lake

\* What is left of a sequence.
LEMMA RemovedAt ==
    ASSUME NEW s, IsSeq(s), NEW i \in 1..Len(s)
    PROVE  /\ IsSeq(RemoveAt(s, i)) /\ Len(s) \in Nat /\ Len(RemoveAt(s, i)) = Len(s) - 1
           /\ \A k \in 1..(Len(s) - 1) : RemoveAt(s, i)[k] = s[IF k < i THEN k ELSE k + 1]
<1> PICK T : s \in Seq(T)
  BY DEF IsSeq
<1> DEFINE a == SubSeq(s, 1, i - 1)
           b == SubSeq(s, i + 1, Len(s))
<1>1. Len(s) \in Nat /\ i \in Nat /\ i >= 1 /\ i <= Len(s) /\ \A k \in 1..Len(s) : s[k] \in T
  BY LenProperties
<1>2. /\ a \in Seq(T) /\ Len(a) = i - 1
      /\ \A k \in 1..(i - 1) : a[k] = s[k]
  BY <1>1, SubSeqProperties
<1>3. /\ b \in Seq(T) /\ Len(b) = Len(s) - i
      /\ \A k \in 1..(Len(s) - i) : b[k] = s[k + i]
  BY <1>1, SubSeqProperties
<1>4. RemoveAt(s, i) = a \o b
  BY DEF RemoveAt
<1> HIDE DEF a, b
<1>5. /\ a \o b \in Seq(T) /\ Len(a \o b) = Len(s) - 1
      /\ \A k \in 1..(Len(s) - 1) : (a \o b)[k] = IF k <= i - 1 THEN a[k] ELSE b[k - (i - 1)]
  BY <1>1, <1>2, <1>3, ConcatProperties
<1> QED
  BY <1>1, <1>2, <1>3, <1>4, <1>5 DEF IsSeq

\* The batch whose row expires is excused, and no other row is touched.
LEMMA ExpireKeeps ==
    ASSUME MirrorInv, Expire
    PROVE  MirrorInv'
<1>1. /\ table # NoTable /\ UNCHANGED <<lake, pc, caller, told>>
      /\ Sound(table, Offered) /\ IsSeq(table.rows) /\ IsSeq(table.tokens)
  BY DEF Expire, process, MirrorInv, TableOK, Sound
<1>2. /\ DOMAIN table.rows = 1..Len(table.rows) /\ Len(table.rows) \in Nat
      /\ DOMAIN table.tokens = 1..Len(table.tokens)
  BY <1>1, LenProperties DEF IsSeq
<1> PICK tb, after, n : tb = table /\ after = table' /\ n = Offered
  OBVIOUS
<1>a. PICK i \in 1..Len(tb.rows) :
        \E tokens :
         /\ after = [tb EXCEPT !.rows = RemoveAt(@, i), !.tokens = tokens]
         /\ tokens = tb.tokens \/ \E j \in 1..Len(tb.tokens) :
                                    /\ tb.tokens[j] = tb.rows[i].key
                                    /\ tokens = RemoveAt(tb.tokens, j)
         /\ excused' = excused \union {tb.rows[i].key}
  BY <1>1, <1>2 DEF Expire, Token
<1>3. PICK tokens :
         /\ after = [tb EXCEPT !.rows = RemoveAt(@, i), !.tokens = tokens]
         /\ tokens = tb.tokens \/ \E j \in 1..Len(tb.tokens) :
                                    /\ tb.tokens[j] = tb.rows[i].key
                                    /\ tokens = RemoveAt(tb.tokens, j)
         /\ excused' = excused \union {tb.rows[i].key}
  BY <1>a
<1> DEFINE L == Len(tb.rows)
           at(k) == IF k < i THEN k ELSE k + 1
<1>4. /\ IsTable(after) /\ after.dedup = TRUE
      /\ after.rows = RemoveAt(tb.rows, i) /\ after.tokens = tokens
  BY <1>1, <1>3 DEF Sound, IsTable
<1>5. /\ IsSeq(after.rows) /\ L \in Nat /\ Len(after.rows) = L - 1 /\ i \in 1..L
      /\ \A k \in 1..(L - 1) : after.rows[k] = tb.rows[at(k)] /\ at(k) \in 1..L /\ at(k) # i
  <2>1. /\ IsSeq(after.rows) /\ L \in Nat /\ Len(after.rows) = L - 1
        /\ \A k \in 1..(L - 1) : after.rows[k] = tb.rows[at(k)]
    BY <1>1, <1>4, RemovedAt
  <2>2. i \in 1..L /\ \A k \in 1..(L - 1) : at(k) \in 1..L /\ at(k) # i
    BY <2>1
  <2> QED
    BY <2>1, <2>2
<1>6. /\ \A k, l \in 1..(L - 1) : k < l => at(k) < at(l)
      /\ \A k \in 1..L : k # i => \E l \in 1..(L - 1) : at(l) = k
  <2>1. ASSUME NEW k \in 1..L, k # i PROVE \E l \in 1..(L - 1) : at(l) = k
    <3>1. CASE k < i
      BY <1>5, <3>1
    <3>2. CASE k > i
      <4>1. k - 1 \in 1..(L - 1) /\ at(k - 1) = k
        BY <1>5, <3>2
      <4> QED
        BY <4>1
    <3> QED
      BY <1>5, <2>1, <3>1, <3>2
  <2> QED
    BY <1>5, <2>1
<1> HIDE DEF at, L
<1>7. /\ IsSeq(tokens) /\ Tokens(after) \subseteq Tokens(tb)
      /\ \A k \in Tokens(tb) : k = tb.rows[i].key \/ k \in Tokens(after)
  <2>1. CASE tokens = tb.tokens
    BY <1>1, <1>4, <2>1 DEF Tokens
  <2>2. CASE \E j \in 1..Len(tb.tokens) : tb.tokens[j] = tb.rows[i].key /\ tokens = RemoveAt(tb.tokens, j)
    <3> PICK j \in 1..Len(tb.tokens) : tb.tokens[j] = tb.rows[i].key /\ tokens = RemoveAt(tb.tokens, j)
      BY <2>2
    <3>1. /\ IsSeq(tokens) /\ Len(tb.tokens) \in Nat /\ Len(tokens) = Len(tb.tokens) - 1
          /\ \A k \in 1..(Len(tb.tokens) - 1) : tokens[k] = tb.tokens[IF k < j THEN k ELSE k + 1]
      BY <1>1, RemovedAt
    <3>2. \A k \in 1..(Len(tb.tokens) - 1) : (IF k < j THEN k ELSE k + 1) \in 1..Len(tb.tokens)
      BY <3>1
    <3>3. ASSUME NEW k \in 1..Len(tb.tokens), k # j PROVE \E l \in 1..Len(tokens) : tokens[l] = tb.tokens[k]
      <4>1. CASE k < j
        BY <3>1, <4>1
      <4>2. CASE k > j
        <5>1. k - 1 \in 1..(Len(tb.tokens) - 1) /\ ~(k - 1 < j) /\ (k - 1) + 1 = k
          BY <3>1, <4>2
        <5> QED
          BY <3>1, <5>1
      <4> QED
        BY <3>1, <3>3, <4>1, <4>2
    <3> QED
      <4>1. Tokens(after) = {tokens[k] : k \in 1..(Len(tb.tokens) - 1)}
        BY <1>4, <3>1 DEF Tokens
      <4>2. Tokens(after) \subseteq Tokens(tb)
        <5> SUFFICES ASSUME NEW k \in 1..(Len(tb.tokens) - 1) PROVE tokens[k] \in Tokens(tb)
          BY <4>1
        <5>1. PICK l \in 1..Len(tb.tokens) : tokens[k] = tb.tokens[l]
          BY <3>1, <3>2
        <5> QED
          BY <5>1 DEF Tokens
      <4>3. \A k \in 1..Len(tb.tokens) : tb.tokens[k] = tb.rows[i].key \/ tb.tokens[k] \in Tokens(after)
        <5> SUFFICES ASSUME NEW k \in 1..Len(tb.tokens), k # j PROVE tb.tokens[k] \in Tokens(after)
          OBVIOUS
        <5>1. PICK l \in 1..Len(tokens) : tokens[l] = tb.tokens[k]
          BY <3>3
        <5> QED
          BY <1>4, <5>1 DEF Tokens
      <4>4. \A k \in Tokens(tb) : k = tb.rows[i].key \/ k \in Tokens(after)
        <5> SUFFICES ASSUME NEW k \in 1..Len(tb.tokens)
                     PROVE  tb.tokens[k] = tb.rows[i].key \/ tb.tokens[k] \in Tokens(after)
          BY DEF Tokens
        <5> QED
          BY <4>3
      <4> QED
        BY <3>1, <4>2, <4>4
  <2> QED
    BY <1>3, <2>1, <2>2
<1>8. \A k : Rowed(tb, k) => Rowed(after, k) \/ k = tb.rows[i].key
  <2> SUFFICES ASSUME NEW l \in 1..L, l # i PROVE Rowed(after, tb.rows[l].key)
    BY DEF Rowed, L
  <2>1. PICK k \in 1..(L - 1) : at(k) = l
    BY <1>6
  <2> QED
    BY <1>5, <2>1 DEF Rowed
<1>9. TableOK(table, Offered)'
  <2>1. \A k \in 1..(L - 1) : /\ after.rows[k].key \in Nat /\ after.rows[k].key <= n
                              /\ after.rows[k].key # tb.rows[i].key
                              /\ after.rows[k].key = n => n \in Tokens(tb)
    <3> SUFFICES ASSUME NEW l \in 1..L, l # i
                 PROVE  /\ tb.rows[l].key \in Nat /\ tb.rows[l].key <= n
                        /\ tb.rows[l].key # tb.rows[i].key
                        /\ tb.rows[l].key = n => n \in Tokens(tb)
      BY <1>5
    <3>1. tb.rows[l].key \in Nat /\ tb.rows[i].key \in Nat
      BY <1>1, <1>5 DEF Sound, L
    <3>2. (l < i => tb.rows[l].key < tb.rows[i].key) /\ (i < l => tb.rows[i].key < tb.rows[l].key)
      BY <1>1, <1>5 DEF Sound, L
    <3>3. l < i \/ i < l
      BY <1>5
    <3> QED
      BY <1>1, <3>1, <3>2, <3>3 DEF Sound, L
  <2>2. \A k, l \in 1..(L - 1) : k < l => after.rows[k].key < after.rows[l].key
    <3> SUFFICES ASSUME NEW k \in 1..(L - 1), NEW l \in 1..(L - 1), k < l
                 PROVE  tb.rows[at(k)].key < tb.rows[at(l)].key
      BY <1>5
    <3>1. at(k) \in 1..L /\ at(l) \in 1..L /\ at(k) < at(l)
      BY <1>5, <1>6
    <3>2. \A a, b \in 1..L : a < b => tb.rows[a].key < tb.rows[b].key
      BY <1>1 DEF Sound, L
    <3> QED
      BY <3>1, <3>2
  <2>3. \A k \in Tokens(after) : Rowed(after, k) \/ k \in excused'
    BY <1>1, <1>3, <1>7, <1>8 DEF Sound
  <2>4. Offered' = n
    BY <1>1 DEF Offered, Done, lake
  <2>5. \A k \in 1..(L - 1) : after.rows[k].key = n => n \in Tokens(after)
    BY <1>7, <2>1
  <2> QED
    BY <1>4, <1>5, <1>7, <2>1, <2>2, <2>3, <2>4, <2>5 DEF TableOK, Sound
<1>10. \A k : Covered(k) => Covered(k)'
  <2>1. after # NoTable
    BY <1>4 DEF NoTable
  <2> QED
    BY <1>1, <1>3, <1>8, <2>1 DEF Covered, Reaches
<1> QED
  BY <1>1, <1>9, <1>10 DEF MirrorInv, Queued, Done, Flowing, Head1, lake

LEMMA InitHolds ==
    ASSUME WindowedTables, Init
    PROVE  MirrorInv
<1>1. IsSeq(waiting) /\ Len(waiting) = 0 /\ waiting = <<>> /\ sealed = 0
  BY DEF Init, IsSeq
<1>2. Queued /\ Offered \in Nat
  BY <1>1 DEF Queued, Done, Offered
<1>3. Flowing /\ DOMAIN recorded = {} /\ pc # "commit"
  BY DEF Init, Flowing
<1>4. TableOK(table, Offered)
  <2>1. CASE table = NoTable
    BY <2>1 DEF TableOK
  <2>2. CASE table \in OperatorTables
    <3>1. IsTable(table) /\ table.dedup = TRUE /\ table.tokens = <<>> /\ table.rows = <<>>
      BY <2>2 DEF WindowedTables, IsTable
    <3> QED
      BY <3>1, EmptySound DEF TableOK
  <2> QED
    BY <2>1, <2>2 DEF Init
<1> QED
  BY <1>2, <1>3, <1>4 DEF MirrorInv

\* One case for every action.
LEMMA StepKeeps ==
    MirrorInv /\ [Next]_vars => MirrorInv'
<1> SUFFICES ASSUME MirrorInv, [Next]_vars PROVE MirrorInv'
  OBVIOUS
<1>1. CASE Start
  <2>1. UNCHANGED <<lake, server, ghosts>> /\ pc' = "create" /\ caller' = "open"
    BY <1>1 DEF Start
  <2>2. Queued' /\ Flowing' /\ TableOK(table, Offered)'
    BY <2>1, TableStays DEF MirrorInv, Queued, Offered, Done, Flowing, lake, server, ghosts
  <2> QED
    BY <2>1, <2>2 DEF MirrorInv, Covered, lake, server, ghosts
<1>2. CASE EnsureCreate \/ liveColumns \/ ReconcileColumn \/ EnsureTTL
  BY <1>2, EnsureKeeps
<1>3. CASE SkipToPrune
  <2>1. UNCHANGED <<lake, table, caller, ghosts>> /\ pc' = "prune" /\ waiting # <<>>
    BY <1>3 DEF SkipToPrune, Idle, server
  <2>2. Queued' /\ Flowing' /\ TableOK(table, Offered)'
    BY <2>1, TableStays DEF MirrorInv, Queued, Offered, Done, Flowing, lake, ghosts
  <2> QED
    BY <2>1, <2>2 DEF MirrorInv, Covered, lake, ghosts
<1>4. CASE Quarantine
  BY <1>4, LeavesKeeps DEF Quarantine, Idle, server, process, ghosts
<1>5. CASE Offer
  <2>1. /\ UNCHANGED <<lake, table, ghosts>> /\ pc' \in {"insert", "create"}
        /\ caller' = "insert" /\ waiting # <<>>
    BY <1>5 DEF Offer, Idle, server
  <2>2. Queued' /\ Flowing' /\ TableOK(table, Offered)'
    BY <2>1, TableStays DEF MirrorInv, Queued, Offered, Done, Flowing, lake, ghosts
  <2> QED
    BY <2>1, <2>2 DEF MirrorInv, Covered, lake, ghosts
<1>6. CASE Insert
  BY <1>6, InsertKeeps
<1>7. CASE Commit
  BY <1>7, CommitKeeps
<1>8. CASE Prune
  <2>1. waiting # <<>>
    BY <1>8 DEF Prune, MirrorInv, Flowing
  <2> QED
    BY <1>8, <2>1, LeavesKeeps DEF Prune, server, ghosts
<1>9. CASE Seal
  BY <1>9, SealKeeps
<1>10. CASE Kill
  <2>1. UNCHANGED <<lake, server, ghosts>> /\ pc' = "down" /\ caller' = "open"
    BY <1>10 DEF Kill
  <2>2. Queued' /\ Flowing' /\ TableOK(table, Offered)'
    BY <2>1, TableStays DEF MirrorInv, Queued, Offered, Done, Flowing, lake, server, ghosts
  <2> QED
    BY <2>1, <2>2 DEF MirrorInv, Covered, lake, server, ghosts
<1>11. CASE Outage \/ ServerBack \/ UNCHANGED vars
  <2>1. UNCHANGED <<lake, table, process, ghosts>>
    BY <1>11 DEF Outage, ServerBack, vars, server
  <2>2. Queued' /\ Flowing' /\ TableOK(table, Offered)'
    BY <2>1, TableStays DEF MirrorInv, Queued, Offered, Done, Flowing, lake, process, ghosts
  <2> QED
    BY <2>1, <2>2 DEF MirrorInv, Covered, Head1, lake, process, ghosts
<1>12. CASE DropTable
  BY <1>12, DropKeeps
<1>13. CASE Expire
  BY <1>13, ExpireKeeps
<1> QED
  BY <1>1, <1>2, <1>3, <1>4, <1>5, <1>6, <1>7, <1>8, <1>9, <1>10, <1>11, <1>12, <1>13
  DEF Next, Worker

LEMMA MirrorMeans ==
    MirrorInv => OnceOrTold
<1> SUFFICES ASSUME MirrorInv PROVE OnceOrTold
  OBVIOUS
<1>1. table # NoTable => /\ Sound(table, Offered) /\ Len(table.rows) \in Nat
                         /\ DOMAIN table.rows = 1..Len(table.rows)
  BY LenProperties DEF MirrorInv, TableOK, Sound, IsSeq
<1>2. OncePerBatch
  <2> SUFFICES ASSUME table # NoTable, NEW i \in 1..Len(table.rows), NEW j \in 1..Len(table.rows),
                      table.rows[i].key = table.rows[j].key
               PROVE  i = j
    BY <1>1 DEF OncePerBatch
  <2>1. i \in Nat /\ j \in Nat /\ table.rows[i].key \in Nat /\ table.rows[j].key \in Nat
    BY <1>1 DEF Sound
  <2>2. (i < j => table.rows[i].key < table.rows[j].key) /\ (j < i => table.rows[j].key < table.rows[i].key)
    BY <1>1 DEF Sound
  <2> QED
    BY <2>1, <2>2
<1>3. MissedIsTold
  <2> SUFFICES ASSUME NEW k \in DOMAIN recorded
               PROVE  k \in {r.key : r \in MirroredRows} \/ k \in told \/ k \in excused
    BY DEF MissedIsTold
  <2>1. CASE Reaches(table, k)
    BY <1>1, <2>1 DEF Reaches, Rowed, MirroredRows, ToSet
  <2> QED
    BY <2>1 DEF MirrorInv, Covered
<1> QED
  BY <1>2, <1>3 DEF OnceOrTold

\* A batch is in the mirror once, however often its insert is sent again after a
\* failed commit, a lost answer, an outage or a restart, local-only or not
\* (table.go, Insert); and a batch of which the lake has a data file is there, or
\* OnClickHouseError was called with it, or it was there until the operator
\* dropped the table or the table's own expiry removed it (flush.go, mirror).  A
\* table made by hand without a deduplication window would hold a batch twice,
\* for Ensure does not look: hence the hypothesis.
THEOREM MirroredOnceOrTold ==
    ASSUME WindowedTables
    PROVE  Spec => []OnceOrTold
<1>1. Init => MirrorInv
  BY InitHolds
<1>2. MirrorInv /\ [Next]_vars => MirrorInv'
  BY StepKeeps
<1>3. MirrorInv => OnceOrTold
  BY MirrorMeans
<1> QED
  BY <1>1, <1>2, <1>3, PTL DEF Spec

(***************************************************************************)
(* The two doors: a batch's row in the mirror and its row in the lake.     *)
(***************************************************************************)

\* A field id has one name, and a name one id, in every deployment: nothing is
\* renamed.  The README shows what a rename does.
NamesStay ==
    \A d, e \in Deployments :
       /\ IsSeq(d.decl)
       /\ \A i \in DOMAIN d.decl, j \in DOMAIN e.decl : d.decl[i].name = e.decl[j].name <=> i = j

Batched(b) == Len(b.shape) \in Nat /\ DOMAIN b.values = 1..Len(b.shape)
Fits(b, d) == Batched(b) /\ Len(b.shape) <= Len(d)
Filled(b, d) == \A i \in DOMAIN d : d[i].required => Remap(b.values, d)[i] # Null

\* What a deployment made of batch b, for the mirror and for the lake.
RowOf(row, b) ==
    \E d \in Deployments : row = MirrorRow(b, d.decl) /\ Fits(b, d.decl) /\ Filled(b, d.decl)
FileOf(file, b) ==
    \E d \in Deployments : /\ file = [shape |-> d.decl, values |-> Remap(b.values, d.decl)]
                           /\ Fits(b, d.decl)

Waits == {waiting[i] : i \in 1..Len(waiting)}
RowsOf(tb) == IF tb = NoTable THEN {} ELSE ToSet(tb.rows)

\* An open writer's declaration holds every batch that waits.
Holds(b) == Batched(b) /\ (pc # "down" => Fits(b, bin.decl))

\* The row in hand: a batch offered to the mirror was found to encode.
Checked == pc \in {"create", "read", "columns", "insert"} /\ caller = "insert" => Filled(Head1, bin.decl)

RowKnown(r) ==
    r.key \in Nat /\ r.key <= sealed /\ \A b \in Waits : b.key = r.key => RowOf(r.row, b)
FileKnown(k) ==
    k \in Nat /\ k <= sealed /\ \A b \in Waits : b.key = k => FileOf(recorded[k], b)

DoorsInv ==
    /\ pc # "down" => bin \in Deployments
    /\ \A b \in Waits : Holds(b)
    /\ Checked
    /\ \A r \in MirroredRows : RowKnown(r)
    /\ \A k \in DOMAIN recorded : FileKnown(k)
    /\ TwoDoorsAgree

\* A null in one door is a null in the other, and so is a value, also when the
\* two deployments do not have the same columns.
LEMMA DoorsMeet ==
    ASSUME NamesStay, NEW b, NEW row, NEW file, RowOf(row, b), FileOf(file, b)
    PROVE  \A i \in DOMAIN file.shape : Read(row, file.shape[i].name) = file.values[i]
<1> PICK d \in Deployments : row = MirrorRow(b, d.decl) /\ Fits(b, d.decl) /\ Filled(b, d.decl)
  BY DEF RowOf
<1> PICK e \in Deployments : /\ file = [shape |-> e.decl, values |-> Remap(b.values, e.decl)]
                             /\ Fits(b, e.decl)
  BY DEF FileOf
<1> DEFINE D == d.decl
           F == e.decl
<1>1. /\ DOMAIN D = 1..Len(D) /\ Len(D) \in Nat /\ DOMAIN F = 1..Len(F) /\ Len(F) \in Nat
      /\ \A i \in DOMAIN D, j \in DOMAIN D : D[i].name = D[j].name <=> i = j
      /\ \A i \in DOMAIN D, j \in DOMAIN F : D[i].name = F[j].name <=> i = j
  BY LenProperties DEF NamesStay, IsSeq
<1>2. row = MirrorRow(b, D) /\ file.shape = F /\ file.values = Remap(b.values, F)
  OBVIOUS
<1>3. Filled(b, D) /\ Len(b.shape) \in Nat /\ Len(b.shape) <= Len(D) /\ DOMAIN b.values = 1..Len(b.shape)
  BY DEF Fits, Batched
<1> HIDE DEF D, F
<1> SUFFICES ASSUME NEW i \in DOMAIN F
             PROVE  Read(row, F[i].name) = Remap(b.values, F)[i]
  BY <1>2
<1> DEFINE n == F[i].name
           names == {c.name : c \in ToSet(D)}
<1>4. names = {D[j].name : j \in DOMAIN D}
  BY DEF ToSet
<1>5. DOMAIN row = names
  BY <1>2 DEF MirrorRow
<1>6. Remap(b.values, F)[i] = IF i \in DOMAIN b.values THEN b.values[i] ELSE Null
  BY DEF Remap
<1>7. CASE i \in DOMAIN D
  <2>1. D[i].name = n /\ n \in names
    BY <1>1, <1>4, <1>7
  <2>2. PICK c : c = CHOOSE j \in DOMAIN D : D[j].name = n
    OBVIOUS
  <2>3. row[n] = Appended(columnType(D[i]), Remap(b.values, D)[i])
    <3>1. c \in DOMAIN D /\ D[c].name = D[i].name
      BY <1>7, <2>1, <2>2
    <3>2. c = i
      BY <1>1, <1>7, <3>1
    <3>3. n \in {x.name : x \in ToSet(D)} /\ row = MirrorRow(b, D)
      BY <1>2, <2>1
    <3> HIDE DEF n, names
    <3>4. row[n] = Appended(columnType(D[c]), Remap(b.values, D)[c])
      BY <2>2, <3>3 DEF MirrorRow
    <3> QED
      BY <3>2, <3>4
  <2>4. Remap(b.values, D)[i] = IF i \in DOMAIN b.values THEN b.values[i] ELSE Null
    BY <1>7 DEF Remap
  <2>5. Remap(b.values, D)[i] = Null => columnType(D[i]).nullable
    BY <1>3, <1>7 DEF Filled, columnType
  <2>6. row[n] = Remap(b.values, F)[i]
    BY <1>6, <2>3, <2>4, <2>5 DEF Appended
  <2> QED
    BY <1>5, <2>1, <2>6 DEF Read
<1>8. CASE i \notin DOMAIN D
  <2>1. n \notin DOMAIN row
    BY <1>1, <1>4, <1>5, <1>8
  <2>2. i \notin DOMAIN b.values
    BY <1>1, <1>3, <1>8
  <2> QED
    BY <1>6, <2>1, <2>2 DEF Read
<1> QED
  BY <1>7, <1>8

\* No statement but an insert puts a row into the table, and an insert puts the
\* batch it is of.
LEMMA StatementRows ==
    ASSUME MirrorInv
    PROVE  /\ RowsOf(createTable) \subseteq RowsOf(table) /\ RowsOf(modifyTTL) \subseteq RowsOf(table)
           /\ \A c : RowsOf(addColumn(c)) \subseteq RowsOf(table)
           /\ Takes => RowsOf(Inserted(Head1)) \subseteq
                 RowsOf(table) \union {[key |-> Head1.key, row |-> MirrorRow(Head1, bin.decl)]}
<1> PICK tb : tb = table
  OBVIOUS
<1>1. tb # NoTable => IsTable(tb) /\ IsSeq(tb.rows)
  BY DEF MirrorInv, TableOK, Sound
<1>2. RowsOf(createTable) \subseteq RowsOf(tb)
  <2>1. CASE tb = NoTable
    <3> PICK new : new = Created(bin.decl, bin.ttl)
      OBVIOUS
    <3>1. createTable = new /\ new.rows = <<>>
      BY <2>1 DEF createTable, Created
    <3> QED
      BY <3>1 DEF RowsOf, ToSet
  <2>2. CASE tb # NoTable
    BY <2>2 DEF createTable
  <2> QED
    BY <2>1, <2>2
<1>3. RowsOf(modifyTTL) \subseteq RowsOf(tb)
  <2>1. CASE tb = NoTable
    BY <2>1 DEF modifyTTL
  <2>2. CASE tb # NoTable
    <3> PICK x : x = bin.ttl
      OBVIOUS
    <3>1. modifyTTL = [tb EXCEPT !.ttl = x]
      BY <2>2 DEF modifyTTL
    <3>2. [tb EXCEPT !.ttl = x].rows = tb.rows
      BY <1>1, <2>2 DEF IsTable
    <3> QED
      BY <2>2, <3>1, <3>2 DEF RowsOf
  <2> QED
    BY <2>1, <2>2
<1>4. ASSUME NEW c PROVE RowsOf(addColumn(c)) \subseteq RowsOf(tb)
  <2>1. CASE tb = NoTable \/ c.name \in DOMAIN tb.columns
    BY <2>1 DEF addColumn
  <2>2. CASE ~(tb = NoTable \/ c.name \in DOMAIN tb.columns)
    <3> DEFINE x == [m \in DOMAIN tb.columns \union {c.name} |->
                        IF m = c.name THEN c.type ELSE tb.columns[m]]
    <3>1. addColumn(c) = [tb EXCEPT !.columns = x]
      BY <2>2 DEF addColumn
    <3> HIDE DEF x
    <3>2. [tb EXCEPT !.columns = x].rows = tb.rows
      BY <1>1, <2>2 DEF IsTable
    <3> QED
      BY <2>2, <3>1, <3>2 DEF RowsOf
  <2> QED
    BY <2>1, <2>2
<1>5. ASSUME Takes
      PROVE  RowsOf(Inserted(Head1)) \subseteq
                RowsOf(tb) \union {[key |-> Head1.key, row |-> MirrorRow(Head1, bin.decl)]}
  <2> PICK e : e = [key |-> Head1.key, row |-> MirrorRow(Head1, bin.decl)]
    OBVIOUS
  <2> PICK after : after = Inserted(Head1)
    OBVIOUS
  <2>1. tb # NoTable
    BY <1>5 DEF Takes
  <2>2. after = tb \/ after.rows = Append(tb.rows, e)
    BY <1>1, <2>1 DEF Inserted, IsTable
  <2>3. ToSet(Append(tb.rows, e)) \subseteq ToSet(tb.rows) \union {e}
    <3> PICK s : s = Append(tb.rows, e)
      OBVIOUS
    <3>1. /\ IsSeq(s) /\ Len(tb.rows) \in Nat /\ Len(s) = Len(tb.rows) + 1
          /\ \A i \in 1..Len(tb.rows) : s[i] = tb.rows[i]
          /\ s[Len(tb.rows) + 1] = e
      BY <1>1, <2>1, SeqAppend
    <3>2. DOMAIN s = 1..Len(s) /\ DOMAIN tb.rows = 1..Len(tb.rows)
      BY <1>1, <2>1, <3>1, LenProperties DEF IsSeq
    <3>3. \A i \in DOMAIN s : i \in DOMAIN tb.rows \/ i = Len(tb.rows) + 1
      BY <3>1, <3>2
    <3>4. \A i \in DOMAIN s : s[i] \in ToSet(tb.rows) \/ s[i] = e
      BY <3>1, <3>2, <3>3 DEF ToSet
    <3> QED
      BY <3>4 DEF ToSet
  <2> QED
    BY <2>1, <2>2, <2>3 DEF RowsOf
<1> QED
  BY <1>2, <1>3, <1>4, <1>5

\* What a step keeps that adds no row, no file and no batch.
LEMMA NothingNew ==
    ASSUME DoorsInv, UNCHANGED <<recorded, sealed>>,
           Waits' \subseteq Waits, MirroredRows' \subseteq MirroredRows,
           pc' # "down" => pc # "down" /\ UNCHANGED bin, Checked'
    PROVE  DoorsInv'
<1>1. (pc' # "down" => bin' \in Deployments) /\ \A b \in Waits' : Holds(b)'
  BY DEF DoorsInv, Holds
<1>2. \A r \in MirroredRows' : RowKnown(r)'
  BY DEF DoorsInv, RowKnown
<1>3. \A k \in DOMAIN recorded' : FileKnown(k)'
  BY DEF DoorsInv, FileKnown
<1>4. TwoDoorsAgree'
  BY DEF DoorsInv, TwoDoorsAgree
<1> QED
  BY <1>1, <1>2, <1>3, <1>4 DEF DoorsInv

LEMMA HeadWaits ==
    ASSUME MirrorInv, waiting # <<>>
    PROVE  Head1 \in Waits /\ Head1.key \in Nat /\ Head1.key <= sealed
<1>1. Len(waiting) \in Nat /\ Len(waiting) >= 1 /\ Head1 = waiting[1]
  BY SeqTail DEF MirrorInv, Queued, Head1
<1>2. sealed \in Nat /\ Len(waiting) <= sealed /\ waiting[1].key = Done + 1
  BY <1>1 DEF MirrorInv, Queued
<1> QED
  BY <1>1, <1>2 DEF Waits, Done

LEMMA TailWaits ==
    ASSUME MirrorInv, waiting # <<>>, waiting' = Tail(waiting)
    PROVE  Waits' \subseteq Waits
<1>1. /\ Len(waiting) \in Nat /\ Len(waiting') = Len(waiting) - 1
      /\ \A i \in 1..(Len(waiting) - 1) : waiting'[i] = waiting[i + 1]
  BY SeqTail DEF MirrorInv, Queued
<1>2. \A i \in 1..(Len(waiting) - 1) : i + 1 \in 1..Len(waiting)
  BY <1>1
<1> QED
  BY <1>1, <1>2 DEF Waits

LEMMA EnsureDoors ==
    ASSUME MirrorInv, DoorsInv, EnsureCreate \/ liveColumns \/ ReconcileColumn \/ EnsureTTL
    PROVE  DoorsInv'
<1>1. UNCHANGED <<recorded, sealed, waiting, bin, caller>> /\ pc \in {"create", "read", "columns"}
  BY DEF EnsureCreate, liveColumns, ReconcileColumn, EnsureTTL, EnsureUnchanged, lake
<1>2. MirroredRows' \subseteq MirroredRows
  <2>1. CASE EnsureCreate
    <3>1. table' = table \/ table' = createTable
      BY <2>1 DEF EnsureCreate, Answered, Unanswered
    <3> QED
      BY <3>1, StatementRows DEF MirroredRows, RowsOf
  <2>2. CASE liveColumns
    BY <2>2 DEF liveColumns, Answered, Unanswered, MirroredRows
  <2>3. CASE ReconcileColumn
    <3>1. table' = table \/ \E c : table' = addColumn(c)
      BY <2>3 DEF ReconcileColumn, Answered, Refused, Unanswered, server
    <3> QED
      BY <3>1, StatementRows DEF MirroredRows, RowsOf
  <2>4. CASE EnsureTTL
    <3>1. table' = table \/ table' = modifyTTL
      BY <2>4 DEF EnsureTTL, Answered, Refused, Unanswered, server
    <3> QED
      BY <3>1, StatementRows DEF MirroredRows, RowsOf
  <2> QED
    BY <2>1, <2>2, <2>3, <2>4
<1>3. Checked'
  BY <1>1 DEF DoorsInv, Checked, Head1
<1> QED
  BY <1>1, <1>2, <1>3, NothingNew DEF Waits

\* The row of the batch in hand, made under the running declaration.
LEMMA InsertDoors ==
    ASSUME NamesStay, MirrorInv, DoorsInv, Insert
    PROVE  DoorsInv'
<1> PICK b, d : b = Head1 /\ d = bin
  OBVIOUS
<1>1. /\ UNCHANGED <<recorded, sealed, waiting, bin, caller>> /\ pc = "insert" /\ waiting # <<>>
      /\ caller = "insert" /\ pc' \in {"commit", "idle"}
  BY DEF Insert, MirrorInv, Flowing, lake, Fails, TellAndGoOn
<1>2. b \in Waits /\ b.key \in Nat /\ b.key <= sealed
  BY <1>1, HeadWaits
<1> PICK e : e = [key |-> b.key, row |-> MirrorRow(b, d.decl)]
  OBVIOUS
<1>3. MirroredRows' \subseteq MirroredRows \union {e}
  <2>1. table' = table \/ (Takes /\ table' = Inserted(Head1))
    BY DEF Insert, Answered, Refused, Unanswered
  <2> QED
    BY <2>1, StatementRows DEF MirroredRows, RowsOf
<1>4. RowOf(e.row, b)
  <2>1. d \in Deployments /\ Fits(b, d.decl) /\ Filled(b, d.decl)
    BY <1>1, <1>2 DEF DoorsInv, Holds, Checked
  <2> QED
    BY <2>1 DEF RowOf
<1>5. \A x \in Waits : x.key = b.key => x = b
  <2> SUFFICES ASSUME NEW i \in 1..Len(waiting), waiting[i].key = b.key PROVE i = 1 /\ b = waiting[1]
    BY DEF Waits
  <2>1. Len(waiting) \in Nat /\ Len(waiting) >= 1 /\ b = waiting[1] /\ Done \in Nat
    BY <1>1, SeqTail DEF MirrorInv, Queued, Head1, Done
  <2> QED
    BY <2>1 DEF MirrorInv, Queued
<1>6. RowKnown(e)
  BY <1>2, <1>4, <1>5 DEF RowKnown
<1>7. Waits' = Waits /\ \A x \in Waits : Holds(x)'
  BY <1>1 DEF Waits, DoorsInv, Holds
<1>8. \A r \in MirroredRows' : RowKnown(r)'
  BY <1>1, <1>3, <1>6, <1>7 DEF DoorsInv, RowKnown
<1>9. \A k \in DOMAIN recorded' : FileKnown(k)'
  BY <1>1, <1>7 DEF DoorsInv, FileKnown
<1>10. TwoDoorsAgree'
  <2> SUFFICES ASSUME NEW r \in MirroredRows', r.key \in DOMAIN recorded
               PROVE  \A i \in DOMAIN recorded[r.key].shape :
                         Read(r.row, recorded[r.key].shape[i].name) = recorded[r.key].values[i]
    BY <1>1 DEF TwoDoorsAgree
  <2>1. CASE r \in MirroredRows
    BY <2>1 DEF DoorsInv, TwoDoorsAgree
  <2>2. CASE r = e
    <3>1. FileOf(recorded[b.key], b) /\ r.key = b.key
      BY <1>2, <2>2 DEF DoorsInv, FileKnown
    <3> QED
      BY <1>4, <2>2, <3>1, DoorsMeet
  <2> QED
    BY <1>3, <2>1, <2>2
<1> QED
  BY <1>1, <1>7, <1>8, <1>9, <1>10 DEF DoorsInv, Checked

\* The file of the batch in hand, under the running declaration.
LEMMA CommitDoors ==
    ASSUME NamesStay, MirrorInv, DoorsInv, Commit
    PROVE  DoorsInv'
<1> PICK b, d : b = Head1 /\ d = bin
  OBVIOUS
<1>1. /\ UNCHANGED <<table, sealed, waiting, bin>> /\ pc = "commit" /\ waiting # <<>>
      /\ pc' \in {"prune", "idle"} /\ recorded' \in {recorded, Recorded}
  BY DEF Commit, MirrorInv, Flowing, server
<1>2. b \in Waits /\ b.key \in Nat /\ b.key <= sealed
  BY <1>1, HeadWaits
<1> PICK file : file = [shape |-> d.decl, values |-> Remap(b.values, d.decl)]
  OBVIOUS
<1>3. \A k \in DOMAIN recorded' :
         (k \in DOMAIN recorded /\ recorded'[k] = recorded[k]) \/ (k = b.key /\ recorded'[k] = file)
  BY <1>1 DEF Recorded
<1>4. FileOf(file, b)
  <2>1. d \in Deployments /\ Fits(b, d.decl)
    BY <1>1, <1>2 DEF DoorsInv, Holds
  <2> QED
    BY <2>1 DEF FileOf
<1>5. \A x \in Waits : x.key = b.key => x = b
  <2> SUFFICES ASSUME NEW i \in 1..Len(waiting), waiting[i].key = b.key PROVE i = 1 /\ b = waiting[1]
    BY DEF Waits
  <2>1. Len(waiting) \in Nat /\ Len(waiting) >= 1 /\ b = waiting[1] /\ Done \in Nat
    BY <1>1, SeqTail DEF MirrorInv, Queued, Head1, Done
  <2> QED
    BY <2>1 DEF MirrorInv, Queued
<1>6. Waits' = Waits /\ MirroredRows' = MirroredRows /\ \A x \in Waits : Holds(x)'
  BY <1>1 DEF Waits, MirroredRows, DoorsInv, Holds
<1>7. \A r \in MirroredRows' : RowKnown(r)'
  BY <1>1, <1>6 DEF DoorsInv, RowKnown
<1>8. ASSUME NEW k \in DOMAIN recorded'
      PROVE  FileKnown(k)'
  <2>1. CASE k \in DOMAIN recorded /\ recorded'[k] = recorded[k]
    BY <1>1, <1>6, <2>1 DEF DoorsInv, FileKnown
  <2>2. CASE k = b.key /\ recorded'[k] = file
    BY <1>1, <1>2, <1>4, <1>5, <1>6, <2>2 DEF FileKnown
  <2> QED
    BY <1>3, <2>1, <2>2
<1>9. TwoDoorsAgree'
  <2> SUFFICES ASSUME NEW r \in MirroredRows, r.key \in DOMAIN recorded'
               PROVE  \A i \in DOMAIN recorded'[r.key].shape :
                         Read(r.row, recorded'[r.key].shape[i].name) = recorded'[r.key].values[i]
    BY <1>6 DEF TwoDoorsAgree
  <2>1. CASE r.key \in DOMAIN recorded /\ recorded'[r.key] = recorded[r.key]
    BY <2>1 DEF DoorsInv, TwoDoorsAgree
  <2>2. CASE r.key = b.key /\ recorded'[r.key] = file
    <3>1. RowOf(r.row, b)
      BY <1>2, <2>2 DEF DoorsInv, RowKnown
    <3>2. \A i \in DOMAIN file.shape : Read(r.row, file.shape[i].name) = file.values[i]
      BY <1>4, <3>1, DoorsMeet
    <3> QED
      BY <2>2, <3>2
  <2> QED
    BY <1>3, <2>1, <2>2
<1>10. Checked'
  BY <1>1 DEF Checked
<1> QED
  BY <1>1, <1>6, <1>7, <1>8, <1>9, <1>10 DEF DoorsInv

\* A new batch is of the running declaration, and nothing is known of it yet.
LEMMA SealDoors ==
    ASSUME NamesStay, MirrorInv, DoorsInv, Seal
    PROVE  DoorsInv'
<1> PICK b : /\ b.key = sealed + 1 /\ b.shape = bin.decl /\ DOMAIN b.values = DOMAIN bin.decl
             /\ waiting' = Append(waiting, b)
  BY DEF Seal
<1>1. /\ sealed' = sealed + 1 /\ UNCHANGED <<recorded, table, pc, caller, bin>> /\ pc # "down"
  BY DEF Seal, server, WriterOpen
<1>2. /\ IsSeq(waiting') /\ Len(waiting) \in Nat /\ Len(waiting') = Len(waiting) + 1
      /\ \A i \in 1..Len(waiting) : waiting'[i] = waiting[i]
      /\ waiting'[Len(waiting) + 1] = b /\ waiting' # <<>>
      /\ waiting = <<>> <=> Len(waiting) = 0
  BY SeqAppend DEF MirrorInv, Queued
<1>3. sealed \in Nat
  BY DEF MirrorInv, Queued
<1>4. Waits' \subseteq Waits \union {b}
  BY <1>2 DEF Waits
<1>5. Fits(b, bin.decl) /\ Batched(b)
  <2>1. IsSeq(bin.decl)
    BY <1>1 DEF DoorsInv, NamesStay
  <2>2. DOMAIN bin.decl = 1..Len(bin.decl) /\ Len(bin.decl) \in Nat
    BY <2>1, LenProperties DEF IsSeq
  <2> QED
    BY <2>2 DEF Fits, Batched
<1>6. \A x \in Waits' : Holds(x)'
  BY <1>1, <1>4, <1>5 DEF DoorsInv, Holds
<1>7. waiting # <<>> => Head1' = Head1
  <2> SUFFICES ASSUME waiting # <<>> PROVE waiting'[1] = waiting[1] /\ Head1' = waiting'[1] /\ Head1 = waiting[1]
    OBVIOUS
  <2>1. 1 \in 1..Len(waiting)
    BY <1>2
  <2> QED
    BY <1>2, <2>1, SeqTail DEF MirrorInv, Queued, Head1
<1>8. Checked'
  BY <1>1, <1>7 DEF DoorsInv, Checked, MirrorInv, Flowing
<1>9. ASSUME NEW r \in MirroredRows' PROVE RowKnown(r)'
  <2>1. r \in MirroredRows
    BY <1>1 DEF MirroredRows
  <2>2. r.key \in Nat /\ r.key <= sealed /\ \A x \in Waits : x.key = r.key => RowOf(r.row, x)
    BY <2>1 DEF DoorsInv, RowKnown
  <2>3. r.key # b.key
    BY <1>3, <2>2
  <2> QED
    BY <1>1, <1>3, <1>4, <2>2, <2>3 DEF RowKnown
<1>10. ASSUME NEW k \in DOMAIN recorded' PROVE FileKnown(k)'
  <2>1. k \in Nat /\ k <= sealed /\ \A x \in Waits : x.key = k => FileOf(recorded[k], x)
    BY <1>1 DEF DoorsInv, FileKnown
  <2>2. k # b.key
    BY <1>3, <2>1
  <2> QED
    BY <1>1, <1>3, <1>4, <2>1, <2>2 DEF FileKnown
<1>11. TwoDoorsAgree'
  BY <1>1 DEF DoorsInv, TwoDoorsAgree, MirroredRows
<1> QED
  BY <1>1, <1>6, <1>8, <1>9, <1>10, <1>11 DEF DoorsInv

\* A declaration that cannot carry what waits is refused.
LEMMA StartDoors ==
    ASSUME MirrorInv, DoorsInv, Start
    PROVE  DoorsInv'
<1>1. /\ UNCHANGED <<waiting, sealed, recorded, table>> /\ pc' = "create" /\ caller' = "open"
      /\ bin' \in Deployments /\ Carries(bin'.decl)
  BY DEF Start, lake, server
<1>2. ToSet(waiting) = Waits
  <2>1. DOMAIN waiting = 1..Len(waiting)
    BY LenProperties DEF MirrorInv, Queued, IsSeq
  <2> QED
    BY <2>1 DEF ToSet, Waits
<1>3. \A b \in Waits : Holds(b)'
  BY <1>1, <1>2 DEF DoorsInv, Holds, Fits, Carries
<1>4. Waits' = Waits /\ MirroredRows' = MirroredRows
  BY <1>1 DEF Waits, MirroredRows
<1>5. (\A r \in MirroredRows' : RowKnown(r)') /\ \A k \in DOMAIN recorded' : FileKnown(k)'
  BY <1>1, <1>4 DEF DoorsInv, RowKnown, FileKnown
<1>6. TwoDoorsAgree' /\ Checked'
  BY <1>1, <1>4 DEF DoorsInv, TwoDoorsAgree, Checked
<1> QED
  BY <1>1, <1>3, <1>4, <1>5, <1>6 DEF DoorsInv

LEMMA DoorsStep ==
    ASSUME NamesStay
    PROVE  MirrorInv /\ DoorsInv /\ [Next]_vars => DoorsInv'
<1> SUFFICES ASSUME MirrorInv, DoorsInv, [Next]_vars PROVE DoorsInv'
  OBVIOUS
<1>1. CASE Start
  BY <1>1, StartDoors
<1>2. CASE EnsureCreate \/ liveColumns \/ ReconcileColumn \/ EnsureTTL
  BY <1>2, EnsureDoors
<1>3. CASE SkipToPrune
  BY <1>3, NothingNew DEF SkipToPrune, lake, server, Waits, MirroredRows, Checked, Idle
<1>4. CASE Quarantine \/ Prune
  <2>1. /\ waiting' = Tail(waiting) /\ pc' = "idle" /\ pc # "down"
        /\ UNCHANGED <<sealed, recorded, table, bin>>
    BY <1>4 DEF Quarantine, Prune, Idle, server, process
  <2>2. waiting # <<>>
    BY <1>4 DEF Quarantine, Prune, Idle, MirrorInv, Flowing
  <2>3. Waits' \subseteq Waits /\ MirroredRows' = MirroredRows /\ Checked'
    BY <2>1, <2>2, TailWaits DEF MirroredRows, Checked
  <2> QED
    BY <2>1, <2>3, NothingNew
<1>5. CASE Offer
  <2>1. UNCHANGED <<lake, table, bin>> /\ pc # "down" /\ Encodes
    BY <1>5 DEF Offer, server, Idle
  <2>2. Checked' /\ Waits' = Waits /\ MirroredRows' = MirroredRows
    BY <2>1 DEF Checked, Filled, Encodes, Head1, Waits, MirroredRows, lake
  <2> QED
    BY <2>1, <2>2, NothingNew DEF lake
<1>6. CASE Insert
  BY <1>6, InsertDoors
<1>7. CASE Commit
  BY <1>7, CommitDoors
<1>8. CASE Seal
  BY <1>8, SealDoors
<1>9. CASE Kill
  <2>1. UNCHANGED <<lake, table>> /\ pc' = "down"
    BY <1>9 DEF Kill, server
  <2>2. Checked' /\ Waits' = Waits /\ MirroredRows' = MirroredRows
    BY <2>1 DEF Checked, Waits, MirroredRows, lake
  <2> QED
    BY <2>1, <2>2, NothingNew DEF lake
<1>10. CASE Outage \/ ServerBack \/ DropTable \/ UNCHANGED vars
  <2>1. UNCHANGED <<lake, process>> /\ (table' = table \/ table' = NoTable)
    BY <1>10 DEF Outage, ServerBack, DropTable, vars, server
  <2>2. Checked' /\ Waits' = Waits /\ MirroredRows' \subseteq MirroredRows
    BY <2>1 DEF DoorsInv, Checked, Head1, Waits, MirroredRows, lake, process
  <2> QED
    BY <2>1, <2>2, NothingNew DEF lake, process
<1>11. CASE Expire
  <2>1. /\ UNCHANGED <<lake, process>> /\ table # NoTable /\ IsSeq(table.rows) /\ IsTable(table)
        /\ DOMAIN table.rows = 1..Len(table.rows)
    BY <1>11, LenProperties DEF Expire, MirrorInv, TableOK, Sound, IsSeq
  <2> PICK tb, after : tb = table /\ after = table'
    OBVIOUS
  <2>2. PICK i \in 1..Len(tb.rows) : after.rows = RemoveAt(tb.rows, i)
    <3>1. PICK i \in 1..Len(tb.rows) : \E tokens :
             after = [tb EXCEPT !.rows = RemoveAt(@, i), !.tokens = tokens]
      BY <1>11, <2>1 DEF Expire
    <3> QED
      BY <2>1, <3>1 DEF IsTable
  <2> PICK s, left : s = tb.rows /\ left = after.rows
    OBVIOUS
  <2>3. IsSeq(s) /\ i \in 1..Len(s) /\ left = RemoveAt(s, i) /\ DOMAIN s = 1..Len(s)
    BY <2>1, <2>2
  <2>4. /\ IsSeq(left) /\ Len(s) \in Nat /\ Len(left) = Len(s) - 1
        /\ \A k \in 1..(Len(s) - 1) : left[k] = s[IF k < i THEN k ELSE k + 1]
    BY <2>3, RemovedAt
  <2>5. ToSet(after.rows) \subseteq ToSet(tb.rows)
    <3>1. DOMAIN left = 1..(Len(s) - 1)
      BY <2>4, LenProperties DEF IsSeq
    <3>2. ASSUME NEW k \in DOMAIN left PROVE left[k] \in ToSet(s)
      <4>1. (IF k < i THEN k ELSE k + 1) \in DOMAIN s
        BY <2>3, <2>4, <3>1, <3>2
      <4> QED
        BY <2>4, <3>1, <4>1 DEF ToSet
    <3> QED
      BY <3>2 DEF ToSet
  <2>6. Checked' /\ Waits' = Waits /\ MirroredRows' \subseteq MirroredRows
    BY <2>1, <2>5 DEF DoorsInv, Checked, Head1, Waits, MirroredRows, lake, process
  <2> QED
    BY <2>1, <2>6, NothingNew DEF lake, process
<1> QED
  BY <1>1, <1>2, <1>3, <1>4, <1>5, <1>6, <1>7, <1>8, <1>9, <1>10, <1>11 DEF Next, Worker

\* What the mirror holds of a batch is what its data file holds, column by column
\* and null by null, though one and the other may have been written by two
\* processes under two declarations, the mirror's before a kill and the file
\* after it (ARCHITECTURE.md, two-door identity; table.go, Insert; flush.go,
\* process).  No column may have been renamed: the mirror knows a column by its
\* name, the lake by its field id.
THEOREM DoorsAlwaysAgree ==
    ASSUME WindowedTables, NamesStay
    PROVE  Spec => []TwoDoorsAgree
<1>1. Init => MirrorInv /\ DoorsInv
  <2> SUFFICES ASSUME Init PROVE DoorsInv
    BY InitHolds
  <2>1. Waits = {} /\ DOMAIN recorded = {} /\ pc = "down"
    BY DEF Init, Waits
  <2>2. MirroredRows = {}
    <3>1. table = NoTable \/ table.rows = <<>>
      BY DEF Init, WindowedTables
    <3> QED
      BY <3>1 DEF MirroredRows, ToSet
  <2> QED
    BY <2>1, <2>2 DEF DoorsInv, Checked, TwoDoorsAgree
<1>2. MirrorInv /\ DoorsInv /\ [Next]_vars => (MirrorInv /\ DoorsInv)'
  BY StepKeeps, DoorsStep
<1>3. DoorsInv => TwoDoorsAgree
  BY DEF DoorsInv
<1> QED
  BY <1>1, <1>2, <1>3, PTL DEF Spec

=============================================================================
