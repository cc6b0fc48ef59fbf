---------------------------- MODULE IngestProofs ----------------------------
(***************************************************************************)
(* What holds of Ingest for every value of its constants: streams of any   *)
(* length, for any number of tables, under any bounds and with any number  *)
(* of failures.                                                            *)
(*                                                                         *)
(* The argument.  At any moment a record the framing has read is in        *)
(* exactly one place: in staging, in the chunk, in the channel, in the     *)
(* framing's hand, refused or dropped by it; and the places follow one     *)
(* another in the order of the stream.  While a chunk is written, what of  *)
(* it is below the limit is in staging, in the rows being written or in a  *)
(* group still to come; each table has one group, and what staging holds   *)
(* of a table precedes what is left of it.  The limit falls only to a      *)
(* record that is at fault, of a table nothing of which is in staging at   *)
(* or after it.  An answer is given when one of those places is empty, or  *)
(* names the first record of the first group that is left.                 *)
(***************************************************************************)
EXTENDS Ingest, FunctionTheorems, FiniteSetTheorems, SequenceTheorems, WellFoundedInduction, TLAPS

Ascending(s) == \A i, j \in DOMAIN s : i < j => s[i] < s[j]

Precedes(S, T) == \A m \in S, n \in T : m < n

Stored == UNION {ToSet(durable[t]) : t \in Tables}

Writing == pc \in {"write", "wait"}

(***************************************************************************)
(* The framing, the channel and the chunk, in the order of the stream.     *)
(***************************************************************************)
FramingInv ==
    /\ framer = "sending" => framed > 0
    /\ readErr # 0 => /\ readErr = framed /\ framer = "closed"
                      /\ stream[readErr].fate = "unframed"
    /\ framer = "closed" => readErr # 0 \/ cancelled \/ framed = Len(stream)

\* The framing has what nobody else has: a record in hand, or one it refused.
InHand == framer = "sending" \/ readErr # 0

OrderInv ==
    /\ Ascending(queue) /\ Ascending(chunk)
    /\ ToSet(queue) \union ToSet(chunk) \union Stored \subseteq 1..framed
    /\ InHand => framed \notin ToSet(queue) \union ToSet(chunk) \union Stored
    /\ Precedes(ToSet(chunk) \union Stored, ToSet(queue))
    /\ pc \in {"first", "drain", "group"} => Precedes(Stored, ToSet(chunk))
    /\ pc = "first" => chunk = <<>>

\* No record is anywhere else; only the last one can have been dropped.
PlacedInv ==
    \A n \in 1..framed :
        \/ n \in Stored \/ n \in ToSet(chunk) \/ n \in ToSet(queue)
        \/ n = framed /\ (InHand \/ (framer = "closed" /\ cancelled))

(***************************************************************************)
(* What is in staging, and what the counters charge.                       *)
(***************************************************************************)
StoreInv ==
    \A t \in Tables :
        /\ Ascending(durable[t])
        /\ \A n \in ToSet(durable[t]) : stream[n].table = t
        /\ Ascending(pending[t]) /\ ToSet(pending[t]) \subseteq ToSet(durable[t])

(***************************************************************************)
(* The chunk being written.                                                *)
(***************************************************************************)
Later == IF Writing THEN groups \ {Leading} ELSE groups

\* What of the chunk is still to be written.
Left == (UNION {ToSet(g) : g \in Later}) \union (IF Writing THEN ToSet(rows) ELSE {})

TableOf(g) == stream[Head(g)].table

GroupsInv ==
    /\ \A g \in groups :
          /\ Ascending(g) /\ ToSet(g) \subseteq ToSet(chunk)
          /\ \A n \in ToSet(g) : stream[n].table = TableOf(g)
    /\ \A g, h \in groups : TableOf(g) = TableOf(h) => g = h
    /\ \A g \in Later : Precedes(ToSet(durable[TableOf(g)]), ToSet(g))
    /\ \A n \in ToSet(chunk) : (limit # 0 => n < limit) => n \in Stored \/ n \in Left

LimitInv ==
    /\ failure = IF limit = 0 THEN Nothing ELSE Refusal(limit)
    /\ limit # 0 =>
          /\ limit \in ToSet(chunk) /\ stream[limit].fate # "good"
          /\ \A n \in Stored : n >= limit => stream[n].table # stream[limit].table

NoneRefused(s) == \A n \in ToSet(s) : stream[n].fate # "refused"

RowsInv ==
    /\ groups # {} /\ Ascending(rows) /\ take \in 1..Len(rows)
    /\ ToSet(rows) \subseteq ToSet(Group)
    /\ Precedes(ToSet(durable[GroupTable]), ToSet(rows))
    /\ NoneRefused(rows) \/ (rows = Group /\ take = Len(rows))

(***************************************************************************)
(* How a chunk ended, and what was answered.                               *)
(***************************************************************************)
OutcomeInv ==
    /\ outcome = "ended" => Drained
    /\ outcome = "stopped" => cancelled
    /\ result = Nothing <=> pc # "done"

IInv ==
    /\ TypeOK /\ FramingInv /\ OrderInv /\ PlacedInv /\ StoreInv
    /\ pc \in {"next", "write", "wait"} => GroupsInv /\ LimitInv
    /\ Writing => RowsInv
    /\ OutcomeInv /\ ResultIsTrue /\ ChargeExact

-----------------------------------------------------------------------------
(***************************************************************************)
(* Slices of record numbers.                                               *)
(***************************************************************************)

LEMMA Slice ==
    ASSUME NEW s \in Seq(Nat)
    PROVE  /\ Len(s) \in Nat /\ DOMAIN s = 1..Len(s)
           /\ \A i \in 1..Len(s) : s[i] \in Nat /\ s[i] \in ToSet(s)
           /\ \A n \in ToSet(s) : n \in Nat /\ \E i \in 1..Len(s) : s[i] = n
           /\ ToSet(s) \subseteq Nat
           /\ Ascending(s) <=> \A i, j \in 1..Len(s) : i < j => s[i] < s[j]
           /\ s # <<>> <=> Len(s) > 0
<1>1. Len(s) \in Nat /\ DOMAIN s = 1..Len(s) /\ \A i \in 1..Len(s) : s[i] \in Nat
  BY LenProperties
<1> QED
  BY <1>1, EmptySeq DEF ToSet, Ascending

LEMMA In ==
    ASSUME NEW s \in Seq(Nat)
    PROVE  \A n : n \in ToSet(s) <=> \E i \in 1..Len(s) : s[i] = n
BY LenProperties DEF ToSet

LEMMA Ascends ==
    ASSUME NEW s \in Seq(Nat)
    PROVE  Ascending(s) <=> \A i, j \in 1..Len(s) : i < j => s[i] < s[j]
BY LenProperties DEF Ascending

LEMMA Appended ==
    ASSUME NEW s \in Seq(Nat), NEW x \in Nat
    PROVE  /\ Append(s, x) \in Seq(Nat) /\ Len(Append(s, x)) = Len(s) + 1
           /\ ToSet(Append(s, x)) = ToSet(s) \union {x}
           /\ Ascending(s) /\ Precedes(ToSet(s), {x}) => Ascending(Append(s, x))
<1> DEFINE a == Append(s, x)
<1>1. /\ a \in Seq(Nat) /\ Len(a) = Len(s) + 1
      /\ \A i \in 1..Len(s) : a[i] = s[i]
      /\ a[Len(s) + 1] = x
  BY AppendProperties
<1> HIDE DEF a
<1>i. /\ \A n : n \in ToSet(s) <=> \E i \in 1..Len(s) : s[i] = n
      /\ \A n : n \in ToSet(a) <=> \E i \in 1..Len(a) : a[i] = n
      /\ Len(s) \in Nat
  BY <1>1, In
<1>2. ToSet(a) = ToSet(s) \union {x}
  <2>1. \A n \in ToSet(a) : n \in ToSet(s) \union {x}
    BY <1>1, <1>i
  <2>2. \A n \in ToSet(s) \union {x} : n \in ToSet(a)
    <3>1. \A n \in ToSet(s) : n \in ToSet(a)
      BY <1>1, <1>i
    <3>2. x \in ToSet(a)
      <4>1. Len(s) + 1 \in 1..Len(a)
        BY <1>1, <1>i
      <4> QED
        BY <4>1, <1>1, <1>i
    <3> QED
      BY <3>1, <3>2
  <2> QED
    BY <2>1, <2>2
<1>3. ASSUME Ascending(s), Precedes(ToSet(s), {x}) PROVE Ascending(a)
  <2>1. \A i, j \in 1..Len(s) : i < j => s[i] < s[j]
    BY <1>3, Ascends
  <2>2. \A i \in 1..Len(s) : s[i] < x
    BY <1>i, <1>3 DEF Precedes
  <2>3. ASSUME NEW i \in 1..Len(a), NEW j \in 1..Len(a), i < j PROVE a[i] < a[j]
    <3>1. i \in 1..Len(s) /\ a[i] = s[i]
      BY <2>3, <1>1, <1>i
    <3>2. CASE j \in 1..Len(s)
      BY <3>1, <3>2, <2>1, <2>3, <1>1
    <3>3. CASE j = Len(s) + 1
      BY <3>1, <3>3, <2>2, <1>1
    <3> QED
      BY <3>2, <3>3, <1>1, <1>i
  <2> QED
    BY <2>3, <1>1, Ascends
<1> QED
  BY <1>1, <1>2, <1>3 DEF a

LEMMA Joined ==
    ASSUME NEW s \in Seq(Nat), NEW u \in Seq(Nat)
    PROVE  /\ s \o u \in Seq(Nat) /\ Len(s \o u) = Len(s) + Len(u)
           /\ ToSet(s \o u) = ToSet(s) \union ToSet(u)
           /\ Ascending(s) /\ Ascending(u) /\ Precedes(ToSet(s), ToSet(u)) => Ascending(s \o u)
<1> DEFINE a == s \o u
<1>1. /\ a \in Seq(Nat) /\ Len(a) = Len(s) + Len(u)
      /\ \A i \in 1..Len(a) : a[i] = IF i <= Len(s) THEN s[i] ELSE u[i - Len(s)]
  BY ConcatProperties
<1>2. Len(s) \in Nat /\ Len(u) \in Nat
  OBVIOUS
<1> HIDE DEF a
<1>i. /\ \A n : n \in ToSet(s) <=> \E i \in 1..Len(s) : s[i] = n
      /\ \A n : n \in ToSet(u) <=> \E i \in 1..Len(u) : u[i] = n
      /\ \A n : n \in ToSet(a) <=> \E i \in 1..Len(a) : a[i] = n
  BY <1>1, In
<1>3. \A i \in 1..Len(s) : i \in 1..Len(a) /\ a[i] = s[i]
  BY <1>1, <1>2
<1>4. ASSUME NEW i \in 1..Len(u)
      PROVE  i + Len(s) \in 1..Len(a) /\ a[i + Len(s)] = u[i]
  <2>1. i + Len(s) \in 1..Len(a) /\ ~(i + Len(s) <= Len(s)) /\ i + Len(s) - Len(s) = i
    BY <1>1, <1>2
  <2> QED
    BY <2>1, <1>1
<1>5. \A i \in 1..Len(a) : \/ i \in 1..Len(s) /\ a[i] = s[i]
                           \/ /\ i > Len(s) /\ i - Len(s) \in 1..Len(u)
                              /\ a[i] = u[i - Len(s)]
  BY <1>1, <1>2
<1>6. ToSet(a) = ToSet(s) \union ToSet(u)
  <2>1. \A n \in ToSet(a) : n \in ToSet(s) \union ToSet(u)
    BY <1>5, <1>i
  <2>2. \A n \in ToSet(s) : n \in ToSet(a)
    BY <1>3, <1>i
  <2>3. \A n \in ToSet(u) : n \in ToSet(a)
    BY <1>4, <1>i
  <2> QED
    BY <2>1, <2>2, <2>3
<1>7. ASSUME Ascending(s), Ascending(u), Precedes(ToSet(s), ToSet(u)) PROVE Ascending(a)
  <2>0. /\ \A i, j \in 1..Len(s) : i < j => s[i] < s[j]
        /\ \A i, j \in 1..Len(u) : i < j => u[i] < u[j]
    BY <1>7, Ascends
  <2>1. ASSUME NEW i \in 1..Len(a), NEW j \in 1..Len(a), i < j PROVE a[i] < a[j]
    <3>1. CASE i \in 1..Len(s) /\ j \in 1..Len(s)
      BY <3>1, <2>0, <2>1, <1>3
    <3>2. CASE i \in 1..Len(s) /\ j > Len(s)
      <4>1. a[i] \in ToSet(s)
        BY <3>2, <1>3, <1>i
      <4>2. j - Len(s) \in 1..Len(u) /\ a[j] = u[j - Len(s)]
        BY <3>2, <2>1, <1>2, <1>5
      <4>3. a[j] \in ToSet(u)
        BY <4>2, <1>i
      <4> QED
        BY <4>1, <4>3, <1>7 DEF Precedes
    <3>3. CASE i > Len(s) /\ j > Len(s)
      <4>1. /\ i - Len(s) \in 1..Len(u) /\ j - Len(s) \in 1..Len(u)
            /\ i - Len(s) < j - Len(s)
            /\ a[i] = u[i - Len(s)] /\ a[j] = u[j - Len(s)]
        BY <3>3, <2>1, <1>2, <1>5
      <4> QED
        BY <4>1, <2>0
    <3> QED
      BY <3>1, <3>2, <3>3, <2>1, <1>1, <1>2
  <2> QED
    BY <2>1, <1>1, Ascends
<1> QED
  BY <1>1, <1>6, <1>7 DEF a

\* A slice cut in two.
Before(s, k) == SubSeq(s, 1, k)
After(s, k) == SubSeq(s, k + 1, Len(s))

LEMMA Cut ==
    ASSUME NEW s \in Seq(Nat), NEW k \in 0..Len(s)
    PROVE  LET p == Before(s, k)
               r == After(s, k)
           IN
           /\ p \in Seq(Nat) /\ Len(p) = k /\ r \in Seq(Nat) /\ Len(r) = Len(s) - k
           /\ ToSet(s) = ToSet(p) \union ToSet(r)
           /\ \A i \in 1..k : p[i] = s[i]
           /\ \A i \in 1..Len(s) - k : r[i] = s[k + i]
           /\ Ascending(s) => Ascending(p) /\ Ascending(r) /\ Precedes(ToSet(p), ToSet(r))
<1> DEFINE p == Before(s, k)
           r == After(s, k)
<1>0. Len(s) \in Nat /\ k \in Nat /\ k <= Len(s) /\ Len(s) + 1 - (k + 1) = Len(s) - k
  OBVIOUS
<1>1. /\ p \in Seq(Nat) /\ Len(p) = k /\ \A i \in 1..k : p[i] = s[i]
      /\ r \in Seq(Nat) /\ Len(r) = Len(s) - k /\ \A i \in 1..Len(s) - k : r[i] = s[k + i]
  BY DEF Before, After
<1> HIDE DEF p, r
<1>2. ASSUME NEW i \in 1..Len(s)
      PROVE  i \in 1..k \/ (i > k /\ i - k \in 1..Len(s) - k /\ r[i - k] = s[i])
  <2>1. i \in 1..k \/ (i > k /\ i - k \in 1..Len(s) - k /\ k + (i - k) = i)
    BY <1>0
  <2> QED
    BY <2>1, <1>1
<1>i. /\ \A n : n \in ToSet(s) <=> \E i \in 1..Len(s) : s[i] = n
      /\ \A n : n \in ToSet(p) <=> \E i \in 1..k : p[i] = n
      /\ \A n : n \in ToSet(r) <=> \E i \in 1..Len(s) - k : r[i] = n
  <2>1. \A n : n \in ToSet(p) <=> \E i \in 1..Len(p) : p[i] = n
    BY <1>1, In
  <2>2. \A n : n \in ToSet(r) <=> \E i \in 1..Len(r) : r[i] = n
    BY <1>1, In
  <2> QED
    BY <2>1, <2>2, <1>1, In
<1>3. ToSet(s) = ToSet(p) \union ToSet(r)
  <2>1. \A n \in ToSet(s) : n \in ToSet(p) \union ToSet(r)
    BY <1>1, <1>2, <1>i
  <2>2. \A n \in ToSet(p) : n \in ToSet(s)
    BY <1>0, <1>1, <1>i
  <2>3. \A n \in ToSet(r) : n \in ToSet(s)
    <3>1. \A i \in 1..Len(s) - k : k + i \in 1..Len(s)
      BY <1>0
    <3>2. ASSUME NEW n \in ToSet(r) PROVE n \in ToSet(s)
      <4>1. PICK i \in 1..Len(s) - k : r[i] = n
        BY <1>i
      <4>2. k + i \in 1..Len(s) /\ s[k + i] = n
        BY <3>1, <4>1, <1>1
      <4> QED
        BY <4>2, <1>i
    <3> QED
      BY <3>2
  <2> QED
    BY <2>1, <2>2, <2>3
<1>4. ASSUME Ascending(s) PROVE Ascending(p) /\ Ascending(r) /\ Precedes(ToSet(p), ToSet(r))
  <2>1. \A i, j \in 1..Len(s) : i < j => s[i] < s[j]
    BY <1>4, Ascends
  <2>2. \A i, j \in 1..Len(p) : i < j => p[i] < p[j]
    BY <2>1, <1>0, <1>1
  <2>3. ASSUME NEW i \in 1..Len(r), NEW j \in 1..Len(r), i < j PROVE r[i] < r[j]
    <3>1. /\ k + i \in 1..Len(s) /\ k + j \in 1..Len(s) /\ k + i < k + j
          /\ i \in 1..Len(s) - k /\ j \in 1..Len(s) - k
      BY <2>3, <1>0, <1>1
    <3> QED
      BY <3>1, <2>1, <1>1
  <2>4. ASSUME NEW m \in ToSet(p), NEW n \in ToSet(r) PROVE m < n
    <3>1. PICK i \in 1..k : p[i] = m
      BY <1>i
    <3>2. PICK j \in 1..Len(s) - k : r[j] = n
      BY <1>i
    <3>3. i \in 1..Len(s) /\ k + j \in 1..Len(s) /\ i < k + j
      BY <1>0
    <3> QED
      BY <3>1, <3>2, <3>3, <2>1, <1>1
  <2> QED
    BY <2>2, <2>3, <2>4, <1>1, Ascends DEF Precedes
<1> QED
  BY <1>1, <1>3, <1>4 DEF p, r

LEMMA HeadTail ==
    ASSUME NEW s \in Seq(Nat), s # <<>>
    PROVE  /\ Head(s) \in Nat /\ Head(s) \in ToSet(s)
           /\ Tail(s) \in Seq(Nat) /\ Len(Tail(s)) = Len(s) - 1
           /\ ToSet(s) = {Head(s)} \union ToSet(Tail(s))
           /\ Ascending(s) => Ascending(Tail(s)) /\ Precedes({Head(s)}, ToSet(Tail(s)))
<1>1. /\ Len(s) \in Nat /\ Len(s) >= 1 /\ Head(s) = s[1]
      /\ Tail(s) \in Seq(Nat) /\ Len(Tail(s)) = Len(s) - 1
      /\ \A i \in 1..Len(s) - 1 : Tail(s)[i] = s[i + 1]
  BY HeadTailProperties, EmptySeq
<1>i. /\ \A n : n \in ToSet(s) <=> \E i \in 1..Len(s) : s[i] = n
      /\ \A n : n \in ToSet(Tail(s)) <=> \E i \in 1..Len(s) - 1 : Tail(s)[i] = n
  <2>1. \A n : n \in ToSet(Tail(s)) <=> \E i \in 1..Len(Tail(s)) : Tail(s)[i] = n
    BY <1>1, In
  <2> QED
    BY <2>1, <1>1, In
<1>2. ToSet(s) = {Head(s)} \union ToSet(Tail(s))
  <2>1. \A i \in 1..Len(s) : i = 1 \/ (i - 1 \in 1..Len(s) - 1 /\ Tail(s)[i - 1] = s[i])
    BY <1>1
  <2>2. \A n \in ToSet(s) : n \in {Head(s)} \union ToSet(Tail(s))
    BY <2>1, <1>1, <1>i
  <2>3. \A n \in ToSet(Tail(s)) : n \in ToSet(s)
    <3>1. \A i \in 1..Len(s) - 1 : i + 1 \in 1..Len(s)
      BY <1>1
    <3> QED
      BY <3>1, <1>1, <1>i
  <2>4. Head(s) \in ToSet(s)
    BY <1>1, <1>i
  <2> QED
    BY <2>2, <2>3, <2>4
<1>3. ASSUME Ascending(s) PROVE Ascending(Tail(s)) /\ Precedes({Head(s)}, ToSet(Tail(s)))
  <2>1. \A i, j \in 1..Len(s) : i < j => s[i] < s[j]
    BY <1>3, Ascends
  <2>2. ASSUME NEW i \in 1..Len(Tail(s)), NEW j \in 1..Len(Tail(s)), i < j
        PROVE  Tail(s)[i] < Tail(s)[j]
    BY <2>1, <2>2, <1>1
  <2>3. ASSUME NEW n \in ToSet(Tail(s)) PROVE Head(s) < n
    <3>1. PICK i \in 1..Len(s) - 1 : Tail(s)[i] = n
      BY <1>i
    <3> QED
      BY <3>1, <2>1, <1>1
  <2> QED
    BY <2>2, <2>3, <1>1, Ascends DEF Precedes
<1> QED
  BY <1>1, <1>2, <1>3

\* As many records as places.
LEMMA AscendingLength ==
    ASSUME NEW s \in Seq(Nat), Ascending(s)
    PROVE  IsFiniteSet(ToSet(s)) /\ Cardinality(ToSet(s)) = Len(s)
<1> DEFINE f == [i \in 1..Len(s) |-> s[i]]
<1>1. f \in Bijection(1..Len(s), ToSet(s))
  <2>0. /\ \A i, j \in 1..Len(s) : i < j => s[i] < s[j]
        /\ \A i \in 1..Len(s) : s[i] \in Nat
        /\ Len(s) \in Nat
    BY Ascends
  <2>1. \A i, j \in 1..Len(s) : f[i] = f[j] => i = j
    BY <2>0
  <2>2. f \in [1..Len(s) -> ToSet(s)]
    BY In
  <2>3. \A n \in ToSet(s) : \E i \in 1..Len(s) : f[i] = n
    BY In
  <2> HIDE DEF f
  <2>4. f \in Injection(1..Len(s), ToSet(s)) /\ f \in Surjection(1..Len(s), ToSet(s))
    BY <2>1, <2>2, <2>3, Fun_IsInj, Fun_IsSurj
  <2> QED
    BY <2>4 DEF Bijection
<1>2. IsFiniteSet(1..Len(s)) /\ Cardinality(1..Len(s)) = Len(s)
  <2>1. Len(s) \in Nat /\ 1 \in Int /\ Len(s) \in Int /\ (1 > Len(s) => Len(s) = 0)
    OBVIOUS
  <2>2. Len(s) - 1 + 1 = Len(s)
    BY <2>1
  <2> QED
    BY <2>1, <2>2, FS_Interval
<1>3. ExistsBijection(1..Len(s), ToSet(s))
  BY <1>1 DEF ExistsBijection
<1> QED
  BY <1>2, <1>3, FS_Bijection

-----------------------------------------------------------------------------
(***************************************************************************)
(* Definitions by recursion, and what they compute: a set of numbers that  *)
(* has zero and, with each number up to n, the next, has them all.         *)
(***************************************************************************)

LEMMA Least ==
    ASSUME NEW S, S \subseteq Nat, S # {}
    PROVE  Min(S) \in S /\ \A y \in S : Min(S) <= y
<1>1. IsWellFoundedOn(OpToRel(<, Nat), Nat)
  BY NatLessThanWellFounded
<1>2. PICK x \in S : \A y \in S : ~(<<y, x>> \in OpToRel(<, Nat))
  BY <1>1, WFMin
<1>3. ASSUME NEW y \in S PROVE x <= y
  <2>1. x \in Nat /\ y \in Nat
    OBVIOUS
  <2>2. ~(y < x)
    BY <1>2, <2>1 DEF OpToRel
  <2> QED
    BY <2>1, <2>2
<1> QED
  BY <1>2, <1>3 DEF Min

LEMMA Climbs ==
    ASSUME NEW n \in Nat, NEW S, 0 \in S, \A i \in 1..n : i - 1 \in S => i \in S
    PROVE  \A i \in 0..n : i \in S
<1> DEFINE B == {i \in 0..n : i \notin S}
<1> SUFFICES ASSUME B # {} PROVE FALSE
  OBVIOUS
<1>1. Min(B) \in B /\ \A y \in B : Min(B) <= y
  <2>1. B \subseteq Nat
    OBVIOUS
  <2> QED
    BY <2>1, Least
<1>2. Min(B) \in 1..n
  BY <1>1
<1>3. Min(B) - 1 \in 0..n /\ ~(Min(B) <= Min(B) - 1)
  BY <1>2
<1>4. Min(B) - 1 \in S
  BY <1>1, <1>3
<1> QED
  BY <1>1, <1>2, <1>4

\* The function that a start and a step define.
Steps(n, S) == [1..n -> [S -> S]]
Follows(f, n, S, start, step) ==
    f \in [0..n -> S] /\ f[0] = start /\ \A i \in 1..n : f[i] = step[i][f[i - 1]]

LEMMA Recursion ==
    ASSUME NEW n \in Nat, NEW S, NEW start \in S, NEW step \in Steps(n, S)
    PROVE  \E f : Follows(f, n, S, start, step)
<1> USE DEF Steps
<1> DEFINE Upto(m) == {f \in [0..m -> S] : f[0] = start /\ \A i \in 1..m : f[i] = step[i][f[i - 1]]}
           R == {m \in 0..n : Upto(m) # {}}
<1>1. 0 \in R
  <2>1. [i \in 0..0 |-> start] \in Upto(0)
    OBVIOUS
  <2> QED
    BY <2>1
<1>2. ASSUME NEW m \in 1..n, m - 1 \in R PROVE m \in R
  <2>1. PICK f \in Upto(m - 1) : TRUE
    BY <1>2
  <2>2. /\ f \in [0..m - 1 -> S] /\ f[0] = start
        /\ \A i \in 1..m - 1 : f[i] = step[i][f[i - 1]]
    BY <2>1
  <2>3. m - 1 \in 0..m - 1 /\ f[m - 1] \in S /\ step[m] \in [S -> S]
    BY <2>2
  <2>4. step[m][f[m - 1]] \in S
    BY <2>3
  <2> DEFINE g == [i \in 0..m |-> IF i = m THEN step[m][f[m - 1]] ELSE f[i]]
  <2>5. \A i \in 0..m - 1 : i \in 0..m /\ i # m /\ g[i] = f[i] /\ f[i] \in S
    BY <2>2
  <2>6. g[m] = step[m][f[m - 1]]
    OBVIOUS
  <2>7. g \in [0..m -> S]
    <3>1. \A i \in 0..m : i = m \/ i \in 0..m - 1
      OBVIOUS
    <3> QED
      BY <3>1, <2>4, <2>5, <2>6
  <2> HIDE DEF g
  <2>8. g[0] = start
    <3>1. 0 \in 0..m - 1
      OBVIOUS
    <3> QED
      BY <3>1, <2>2, <2>5
  <2>9. ASSUME NEW i \in 1..m PROVE g[i] = step[i][g[i - 1]]
    <3>1. i - 1 \in 0..m - 1 /\ g[i - 1] = f[i - 1]
      BY <2>5
    <3>2. CASE i = m
      BY <3>1, <3>2, <2>6
    <3>3. CASE i # m
      <4>1. i \in 1..m - 1 /\ i \in 0..m - 1
        BY <3>3
      <4> QED
        BY <3>1, <4>1, <2>2, <2>5
    <3> QED
      BY <3>2, <3>3
  <2>10. g \in Upto(m)
    BY <2>7, <2>8, <2>9
  <2> QED
    BY <2>10
<1> HIDE DEF R
<1>3. \A m \in 0..n : m \in R
  BY <1>1, <1>2, Climbs
<1> QED
  BY <1>3 DEF R, Follows

(***************************************************************************)
(* The selections.                                                         *)
(***************************************************************************)

LEMMA UpToIs ==
    ASSUME NEW s \in Seq(Nat), Ascending(s), NEW lim \in Nat, NEW p, p = UpTo(s, lim)
    PROVE  /\ p \in Seq(Nat) /\ Ascending(p)
           /\ ToSet(p) = {n \in ToSet(s) : lim # 0 => n < lim}
           /\ p # <<>> => s # <<>> /\ Head(p) = Head(s)
<1> DEFINE I == {i \in DOMAIN s : lim # 0 /\ s[i] >= lim}
<1>1. DOMAIN s = 1..Len(s) /\ Len(s) \in Nat /\ \A i \in 1..Len(s) : s[i] \in Nat
  OBVIOUS
<1>2. CASE lim = 0
  <2>1. p = s
    BY <1>2 DEF UpTo
  <2> QED
    BY <1>2, <2>1
<1>3. CASE lim # 0 /\ I = {}
  <2>1. p = s
    BY <1>3 DEF UpTo
  <2>2. \A n \in ToSet(s) : n < lim
    BY <1>1, <1>3, In
  <2> QED
    BY <1>3, <2>1, <2>2
<1>4. CASE lim # 0 /\ I # {}
  <2> DEFINE k == Min(I)
  <2>0. I \subseteq Nat
    BY <1>1
  <2>1. k \in I /\ \A y \in I : k <= y
    BY <1>4, <2>0, Least
  <2> HIDE DEF k
  <2>2. k \in 1..Len(s) /\ s[k] >= lim /\ k - 1 \in 0..Len(s)
    BY <2>1, <1>1, <1>4
  <2>4. p = SubSeq(s, 1, k - 1)
    BY <1>4, <2>2 DEF UpTo, k
  <2> DEFINE q == k - 1
             r == After(s, q)
  <2>q. q \in 0..Len(s) /\ p = Before(s, q)
    BY <2>2, <2>4 DEF Before
  <2> HIDE DEF q
  <2>c. /\ p \in Seq(Nat) /\ Len(p) = q /\ Ascending(p)
        /\ ToSet(s) = ToSet(p) \union ToSet(r)
        /\ \A i \in 1..q : p[i] = s[i]
        /\ r \in Seq(Nat) /\ Len(r) = Len(s) - q
        /\ \A i \in 1..Len(s) - q : r[i] = s[q + i]
    BY <2>q, Cut
  <2> HIDE DEF r
  <2>5. /\ p \in Seq(Nat) /\ Len(p) = k - 1 /\ Ascending(p)
        /\ ToSet(s) = ToSet(p) \union ToSet(r)
        /\ \A i \in 1..k - 1 : p[i] = s[i]
        /\ r \in Seq(Nat) /\ Len(r) = Len(s) - (k - 1)
        /\ \A i \in 1..Len(s) - (k - 1) : r[i] = s[k - 1 + i]
    BY <2>c DEF q
  <2>6. ASSUME NEW n \in ToSet(p) PROVE n < lim
    <3>1. PICK i \in 1..k - 1 : p[i] = n
      BY <2>5, In
    <3>2. i \in 1..Len(s) /\ ~(k <= i)
      BY <2>2, <1>1
    <3>3. s[i] = n
      BY <3>1, <2>5
    <3> QED
      BY <3>2, <3>3, <2>1, <1>1
  <2>7. ASSUME NEW n \in ToSet(r) PROVE ~(n < lim)
    <3>1. PICK i \in 1..Len(r) : r[i] = n
      BY <2>5, In
    <3>i. i \in 1..Len(s) - (k - 1) /\ r[i] = s[k - 1 + i]
      BY <3>1, <2>5
    <3>j. k - 1 + i \in 1..Len(s) /\ k <= k - 1 + i
      BY <3>i, <2>2, <1>1
    <3>2. k - 1 + i \in 1..Len(s) /\ k <= k - 1 + i /\ r[i] = s[k - 1 + i]
      BY <3>i, <3>j
    <3>3. s[k] <= s[k - 1 + i]
      <4>1. \A h, j \in 1..Len(s) : h < j => s[h] < s[j]
        BY Ascends
      <4>2. ASSUME NEW m \in 1..Len(s), k <= m PROVE s[k] <= s[m]
        <5>1. k = m \/ k < m
          BY <4>2, <2>2, <1>1
        <5>2. s[k] \in Nat /\ s[m] \in Nat
          BY <2>2, <1>1
        <5> QED
          BY <4>1, <5>1, <5>2, <2>2
      <4> QED
        BY <4>2, <3>2
    <3> QED
      BY <3>1, <3>2, <3>3, <2>2, <1>1
  <2>8. ASSUME p # <<>> PROVE s # <<>> /\ Head(p) = Head(s)
    <3>1. Len(p) # 0
      BY <2>5, <2>8, EmptySeq
    <3>2. 1 \in 1..k - 1
      BY <3>1, <2>2, <2>5
    <3>3. p[1] = s[1]
      BY <3>2, <2>5
    <3> QED
      BY <3>3, <2>8, <2>2, <2>5, HeadTailProperties, EmptySeq
  <2>9. ToSet(p) = {n \in ToSet(s) : n < lim}
    BY <2>5, <2>6, <2>7
  <2> QED
    BY <1>4, <2>5, <2>8, <2>9
<1> QED
  BY <1>2, <1>3, <1>4

LEMMA UnreadableIs ==
    ASSUME NEW c \in Seq(Nat), NEW f, f = FirstUnreadable(c)
    PROVE  f = 0 \/ (f \in ToSet(c) /\ stream[f].fate = "unreadable")
<1> DEFINE I == {i \in 1..Len(c) : stream[c[i]].fate = "unreadable"}
<1>1. CASE I = {}
  BY <1>1 DEF FirstUnreadable, SelectInSeq
<1>2. CASE I # {}
  <2>1. Min(I) \in I
    <3>1. I \subseteq Nat
      OBVIOUS
    <3> QED
      BY <3>1, <1>2, Least
  <2>2. f = c[Min(I)]
    <3>1. SelectInSeq(c, LAMBDA n : stream[n].fate = "unreadable") = Min(I)
      BY <1>2 DEF SelectInSeq
    <3>2. Min(I) # 0
      BY <2>1
    <3> QED
      BY <3>1, <3>2 DEF FirstUnreadable
  <2> QED
    BY <2>1, <2>2, In
<1> QED
  BY <1>1, <1>2

LEMMA RefusedIs ==
    ASSUME NEW s \in Seq(Nat), NEW k, k = RefusedIn(s)
    PROVE  /\ k \in 0..Len(s)
           /\ k = 0 => NoneRefused(s)
           /\ k # 0 => /\ k \in 1..Len(s) /\ stream[s[k]].fate = "refused"
                       /\ \A i \in 1..k - 1 : stream[s[i]].fate # "refused"
<1> DEFINE I == {i \in 1..Len(s) : stream[s[i]].fate = "refused"}
<1>1. CASE I = {}
  <2>1. k = 0
    BY <1>1 DEF RefusedIn, SelectInSeq
  <2>2. NoneRefused(s)
    BY <1>1, In DEF NoneRefused
  <2> QED
    BY <2>1, <2>2
<1>2. CASE I # {}
  <2>1. Min(I) \in I /\ \A y \in I : Min(I) <= y
    <3>1. I \subseteq Nat
      OBVIOUS
    <3> QED
      BY <3>1, <1>2, Least
  <2>2. k = Min(I)
    BY <1>2 DEF RefusedIn, SelectInSeq
  <2> HIDE DEF I
  <2>3. k \in I /\ \A y \in I : k <= y
    BY <2>1, <2>2
  <2>4. k \in 1..Len(s) /\ stream[s[k]].fate = "refused"
    BY <2>3 DEF I
  <2>5. ASSUME NEW i \in 1..k - 1 PROVE stream[s[i]].fate # "refused"
    <3>1. i \in 1..Len(s) /\ ~(k <= i)
      BY <2>4
    <3> QED
      BY <3>1, <2>3 DEF I
  <2> QED
    BY <2>4, <2>5
<1> QED
  BY <1>1, <1>2

LEMMA GroupOfIs ==
    ASSUME NEW c \in Seq(Nat), Ascending(c), NEW t, NEW g, g = GroupOf(t, c)
    PROVE  /\ g \in Seq(Nat) /\ Ascending(g)
           /\ ToSet(g) = {n \in ToSet(c) : stream[n].table = t}
<1> DEFINE Mine(i) == stream[c[i]].table = t
           Body(f) == [i \in 0..Len(c) |->
                          IF i = 0 THEN <<>>
                          ELSE IF stream[c[i]].table = t THEN Append(f[i - 1], c[i]) ELSE f[i - 1]]
           F == CHOOSE f : f = Body(f)
<1>1. Len(c) \in Nat /\ \A i \in 1..Len(c) : c[i] \in Nat
  OBVIOUS
<1>2. \E f : f = Body(f)
  <2> DEFINE step == [i \in 1..Len(c) |-> [x \in Seq(Nat) |-> IF Mine(i) THEN Append(x, c[i]) ELSE x]]
  <2>1. step \in [1..Len(c) -> [Seq(Nat) -> Seq(Nat)]]
    BY <1>1
  <2>2. \A i \in 1..Len(c) : \A x \in Seq(Nat) : step[i][x] = IF Mine(i) THEN Append(x, c[i]) ELSE x
    OBVIOUS
  <2> HIDE DEF step
  <2>3. PICK f \in [0..Len(c) -> Seq(Nat)] : f[0] = <<>> /\ \A i \in 1..Len(c) : f[i] = step[i][f[i - 1]]
    <3>1. step \in Steps(Len(c), Seq(Nat)) /\ <<>> \in Seq(Nat)
      BY <2>1 DEF Steps
    <3>2. \E f : Follows(f, Len(c), Seq(Nat), <<>>, step)
      BY <3>1, <1>1, Recursion
    <3> QED
      BY <3>2 DEF Follows
  <2>4. ASSUME NEW i \in 0..Len(c)
        PROVE  f[i] = IF i = 0 THEN <<>> ELSE IF stream[c[i]].table = t THEN Append(f[i - 1], c[i]) ELSE f[i - 1]
    <3>1. CASE i = 0
      BY <3>1, <2>3
    <3>2. CASE i # 0
      <4>1. i \in 1..Len(c) /\ i - 1 \in 0..Len(c)
        BY <3>2, <1>1
      <4> QED
        BY <3>2, <4>1, <2>2, <2>3
    <3> QED
      BY <3>1, <3>2
  <2>5. f = Body(f)
    BY <2>3, <2>4
  <2> QED
    BY <2>5
<1>3. F = Body(F)
  BY <1>2
<1>4. g = F[Len(c)]
  BY DEF GroupOf
<1> HIDE DEF F
<1>5. /\ F[0] = <<>>
      /\ \A i \in 1..Len(c) : F[i] = IF Mine(i) THEN Append(F[i - 1], c[i]) ELSE F[i - 1]
  <2>1. \A i \in 0..Len(c) : F[i] = Body(F)[i]
    BY <1>3
  <2>2. 0 \in 0..Len(c) /\ \A i \in 1..Len(c) : i \in 0..Len(c) /\ i # 0
    BY <1>1
  <2> QED
    BY <2>1, <2>2
<1> DEFINE Of(i) == {n \in ToSet(c) : \E j \in 1..i : c[j] = n /\ Mine(j)}
           Good == {i \in 0..Len(c) : F[i] \in Seq(Nat) /\ Ascending(F[i]) /\ ToSet(F[i]) = Of(i)}
<1>6. 0 \in Good
  <2>1. F[0] \in Seq(Nat) /\ Len(F[0]) = 0
    BY <1>5
  <2>2. Ascending(F[0]) /\ ToSet(F[0]) = {}
    BY <2>1, In, Ascends
  <2>3. Of(0) = {}
    OBVIOUS
  <2> QED
    BY <2>1, <2>2, <2>3, <1>1
<1>7. ASSUME NEW i \in 1..Len(c), i - 1 \in Good PROVE i \in Good
  <2>1. F[i - 1] \in Seq(Nat) /\ Ascending(F[i - 1]) /\ ToSet(F[i - 1]) = Of(i - 1)
    BY <1>7
  <2>2. c[i] \in Nat /\ c[i] \in ToSet(c)
    BY <1>1, In
  <2>3. \A j \in 1..i : j \in 1..i - 1 \/ j = i
    BY <1>1
  <2>4. i \in 1..i /\ \A j \in 1..i - 1 : j \in 1..i
    BY <1>1
  <2>5. CASE Mine(i)
    <3>1. F[i] = Append(F[i - 1], c[i])
      BY <2>5, <1>5
    <3>2. Of(i) = Of(i - 1) \union {c[i]}
      BY <2>2, <2>3, <2>4, <2>5
    <3>3. Precedes(ToSet(F[i - 1]), {c[i]})
      <4>1. \A j, k \in 1..Len(c) : j < k => c[j] < c[k]
        BY Ascends
      <4>2. \A j \in 1..i - 1 : j \in 1..Len(c) /\ j < i
        BY <1>1
      <4> QED
        BY <4>1, <4>2, <2>1 DEF Precedes
    <3>4. /\ F[i] \in Seq(Nat) /\ Ascending(F[i])
          /\ ToSet(F[i]) = ToSet(F[i - 1]) \union {c[i]}
      BY <3>1, <3>3, <2>1, <2>2, Appended
    <3> QED
      BY <3>2, <3>4, <2>1
  <2>6. CASE ~Mine(i)
    <3>1. F[i] = F[i - 1]
      BY <2>6, <1>5
    <3>2. Of(i) = Of(i - 1)
      BY <2>3, <2>4, <2>6
    <3> QED
      BY <3>1, <3>2, <2>1
  <2> QED
    BY <2>5, <2>6
<1>8. \A i \in 0..Len(c) : i \in Good
  <2> HIDE DEF Good
  <2> QED
    BY <1>1, <1>6, <1>7, Climbs
<1>9. Len(c) \in Good
  <2>1. Len(c) \in 0..Len(c)
    BY <1>1
  <2> HIDE DEF Good
  <2> QED
    BY <2>1, <1>8
<1>10. Of(Len(c)) = {n \in ToSet(c) : stream[n].table = t}
  BY In
<1> QED
  BY <1>4, <1>9, <1>10

(***************************************************************************)
(* The groups of a chunk, and the one that is written first.               *)
(***************************************************************************)

LEMMA GroupsOfAre ==
    ASSUME NEW c \in Seq(Nat), Ascending(c), \A n \in ToSet(c) : stream[n].table \in Tables
    PROVE  LET f == FirstUnreadable(c) IN
           /\ f \in Nat
           /\ \A g \in GroupsOf(c) :
                 /\ g \in Seq(Nat) /\ g # <<>> /\ Ascending(g)
                 /\ ToSet(g) \subseteq ToSet(c)
                 /\ \A n \in ToSet(g) : stream[n].table = TableOf(g)
           /\ \A g, h \in GroupsOf(c) : TableOf(g) = TableOf(h) => g = h
           /\ \A n \in ToSet(c) : (f # 0 => n < f) => n \in UNION {ToSet(g) : g \in GroupsOf(c)}
<1> DEFINE f == FirstUnreadable(c)
           read == UpTo(c, f)
<1>1. f \in Nat
  <2>1. f = 0 \/ f \in ToSet(c)
    BY UnreadableIs
  <2> QED
    BY <2>1, Slice
<1>2. /\ read \in Seq(Nat) /\ Ascending(read)
      /\ ToSet(read) = {n \in ToSet(c) : f # 0 => n < f}
  BY <1>1, UpToIs
<1>3. GroupsOf(c) = {GroupOf(t, read) : t \in Tables} \ {<<>>}
  BY DEF GroupsOf
<1> HIDE DEF f, read
<1>4. ASSUME NEW t \in Tables
      PROVE  LET g == GroupOf(t, read) IN
             /\ g \in Seq(Nat) /\ Ascending(g)
             /\ ToSet(g) = {n \in ToSet(read) : stream[n].table = t}
             /\ g # <<>> => TableOf(g) = t
  <2> DEFINE g == GroupOf(t, read)
  <2>1. /\ g \in Seq(Nat) /\ Ascending(g)
        /\ ToSet(g) = {n \in ToSet(read) : stream[n].table = t}
    BY <1>2, GroupOfIs
  <2> HIDE DEF g
  <2>2. g # <<>> => Head(g) \in ToSet(g)
    BY <2>1, HeadTail
  <2>3. g # <<>> => TableOf(g) = t
    BY <2>1, <2>2 DEF TableOf
  <2> QED
    BY <2>1, <2>3 DEF g
<1>5. ASSUME NEW g \in GroupsOf(c)
      PROVE  \E t \in Tables :
                /\ g = GroupOf(t, read) /\ g # <<>> /\ g \in Seq(Nat) /\ Ascending(g)
                /\ ToSet(g) = {n \in ToSet(read) : stream[n].table = t}
                /\ TableOf(g) = t
  BY <1>3, <1>4
<1>6. ASSUME NEW n \in ToSet(c), f # 0 => n < f
      PROVE  n \in UNION {ToSet(g) : g \in GroupsOf(c)}
  <2> DEFINE t == stream[n].table
             g == GroupOf(t, read)
  <2>1. t \in Tables /\ n \in ToSet(read)
    BY <1>2, <1>6
  <2>2. g \in Seq(Nat) /\ n \in ToSet(g)
    BY <2>1, <1>4
  <2>3. g # <<>>
    BY <2>2, EmptySeq, In
  <2>4. g \in GroupsOf(c)
    BY <2>1, <2>3, <1>3
  <2> QED
    BY <2>2, <2>4
<1> QED
  BY <1>1, <1>2, <1>5, <1>6 DEF f

LEMMA LeadingIs ==
    ASSUME NEW S, groups = S, S # {}, \A g \in S : g \in Seq(Nat) /\ g # <<>>
    PROVE  Leading \in S /\ \A h \in S : Head(Leading) <= Head(h)
<1> DEFINE H == {Head(g) : g \in S}
<1>1. H \subseteq Nat /\ H # {}
  BY HeadTail
<1>2. Min(H) \in H /\ \A y \in H : Min(H) <= y
  BY <1>1, Least
<1>3. \E g \in S : \A h \in S : Head(g) <= Head(h)
  BY <1>2
<1> QED
  BY <1>3 DEF Leading

(***************************************************************************)
(* The weight of a set of records.                                         *)
(***************************************************************************)

SizeIn(st, S, n) == IF n \in S THEN st[n].size ELSE 0

LEMMA WeightIs ==
    ASSUME NEW st \in Seq(Record), NEW S
    PROVE  \E f \in [0..Len(st) -> Nat] :
              /\ f[0] = 0 /\ f[Len(st)] = WeightIn(st, S)
              /\ \A n \in 1..Len(st) : f[n] = f[n - 1] + SizeIn(st, S, n)
<1> DEFINE Body(f) == [n \in 0..Len(st) |->
                          IF n = 0 THEN 0 ELSE f[n - 1] + (IF n \in S THEN st[n].size ELSE 0)]
           F == CHOOSE f : f = Body(f)
<1>1. Len(st) \in Nat /\ \A n \in 1..Len(st) : SizeIn(st, S, n) \in Nat
  <2>1. \A n \in 1..Len(st) : st[n] \in Record
    OBVIOUS
  <2> QED
    BY <2>1 DEF SizeIn, Record
<1>2. PICK f : f = Body(f) /\ f \in [0..Len(st) -> Nat]
  <2> DEFINE step == [n \in 1..Len(st) |-> [x \in Nat |-> x + SizeIn(st, S, n)]]
  <2>1. step \in [1..Len(st) -> [Nat -> Nat]]
    BY <1>1
  <2>2. \A n \in 1..Len(st) : \A x \in Nat : step[n][x] = x + SizeIn(st, S, n)
    OBVIOUS
  <2> HIDE DEF step
  <2>3. PICK f \in [0..Len(st) -> Nat] : f[0] = 0 /\ \A n \in 1..Len(st) : f[n] = step[n][f[n - 1]]
    <3>1. step \in Steps(Len(st), Nat) /\ 0 \in Nat
      BY <2>1 DEF Steps
    <3>2. \E f : Follows(f, Len(st), Nat, 0, step)
      BY <3>1, <1>1, Recursion
    <3> QED
      BY <3>2 DEF Follows
  <2>4. ASSUME NEW n \in 0..Len(st)
        PROVE  f[n] = IF n = 0 THEN 0 ELSE f[n - 1] + (IF n \in S THEN st[n].size ELSE 0)
    <3>1. CASE n = 0
      BY <3>1, <2>3
    <3>2. CASE n # 0
      <4>1. n \in 1..Len(st) /\ n - 1 \in 0..Len(st)
        BY <3>2, <1>1
      <4>2. f[n] = f[n - 1] + SizeIn(st, S, n)
        BY <4>1, <2>2, <2>3
      <4> QED
        BY <3>2, <4>2 DEF SizeIn
    <3> QED
      BY <3>1, <3>2
  <2>5. f = Body(f)
    BY <2>3, <2>4
  <2> QED
    BY <2>3, <2>5
<1>3. F = Body(F)
  BY <1>2
<1>4. WeightIn(st, S) = F[Len(st)]
  BY DEF WeightIn
<1> HIDE DEF F
<1>5. /\ F[0] = 0
      /\ \A n \in 1..Len(st) : F[n] = F[n - 1] + SizeIn(st, S, n)
  <2>1. \A n \in 0..Len(st) : F[n] = Body(F)[n]
    BY <1>3
  <2>2. 0 \in 0..Len(st) /\ \A n \in 1..Len(st) : n \in 0..Len(st) /\ n # 0
    BY <1>1
  <2> QED
    BY <2>1, <2>2 DEF SizeIn
<1>6. \A n \in 0..Len(st) : F[n] \in Nat
  <2> DEFINE G == {n \in 0..Len(st) : F[n] \in Nat}
  <2>1. 0 \in G
    BY <1>1, <1>5
  <2>2. ASSUME NEW n \in 1..Len(st), n - 1 \in G PROVE n \in G
    BY <2>2, <1>1, <1>5
  <2> HIDE DEF G
  <2>3. \A n \in 0..Len(st) : n \in G
    BY <2>1, <2>2, <1>1, Climbs
  <2> QED
    BY <2>3 DEF G
<1>7. F \in [0..Len(st) -> Nat]
  BY <1>3, <1>6
<1> QED
  BY <1>4, <1>5, <1>7

LEMMA WeightAdds ==
    ASSUME NEW st \in Seq(Record), NEW S, NEW T, \A n \in T : n \notin S
    PROVE  /\ WeightIn(st, S) \in Nat
           /\ WeightIn(st, S \union T) = WeightIn(st, S) + WeightIn(st, T)
<1>1. PICK f \in [0..Len(st) -> Nat] :
         /\ f[0] = 0 /\ f[Len(st)] = WeightIn(st, S)
         /\ \A n \in 1..Len(st) : f[n] = f[n - 1] + SizeIn(st, S, n)
  BY WeightIs
<1>2. PICK g \in [0..Len(st) -> Nat] :
         /\ g[0] = 0 /\ g[Len(st)] = WeightIn(st, T)
         /\ \A n \in 1..Len(st) : g[n] = g[n - 1] + SizeIn(st, T, n)
  BY WeightIs
<1>3. PICK h \in [0..Len(st) -> Nat] :
         /\ h[0] = 0 /\ h[Len(st)] = WeightIn(st, S \union T)
         /\ \A n \in 1..Len(st) : h[n] = h[n - 1] + SizeIn(st, S \union T, n)
  BY WeightIs
<1>4. Len(st) \in Nat /\ Len(st) \in 0..Len(st)
  OBVIOUS
<1>5. ASSUME NEW n \in 1..Len(st)
      PROVE  /\ SizeIn(st, S, n) \in Nat /\ SizeIn(st, T, n) \in Nat
             /\ SizeIn(st, S \union T, n) = SizeIn(st, S, n) + SizeIn(st, T, n)
  <2>1. st[n] \in Record
    OBVIOUS
  <2> QED
    BY <2>1 DEF SizeIn, Record
<1> DEFINE G == {n \in 0..Len(st) : h[n] = f[n] + g[n]}
<1>6. 0 \in G
  BY <1>1, <1>2, <1>3, <1>4
<1>7. ASSUME NEW n \in 1..Len(st), n - 1 \in G PROVE n \in G
  <2>1. n - 1 \in 0..Len(st) /\ n \in 0..Len(st)
    BY <1>4
  <2>2. f[n - 1] \in Nat /\ g[n - 1] \in Nat
    BY <2>1, <1>1, <1>2
  <2>3. h[n - 1] = f[n - 1] + g[n - 1]
    BY <1>7
  <2>4. /\ h[n] = h[n - 1] + (SizeIn(st, S, n) + SizeIn(st, T, n))
        /\ f[n] = f[n - 1] + SizeIn(st, S, n) /\ g[n] = g[n - 1] + SizeIn(st, T, n)
        /\ SizeIn(st, S, n) \in Nat /\ SizeIn(st, T, n) \in Nat
    BY <1>1, <1>2, <1>3, <1>5
  <2>5. h[n] = f[n] + g[n]
    BY <2>2, <2>3, <2>4
  <2> QED
    BY <2>1, <2>5
<1> HIDE DEF G
<1>8. \A n \in 0..Len(st) : n \in G
  BY <1>4, <1>6, <1>7, Climbs
<1>9. h[Len(st)] = f[Len(st)] + g[Len(st)]
  BY <1>4, <1>8 DEF G
<1> QED
  BY <1>1, <1>2, <1>3, <1>4, <1>9

LEMMA WeightOfNothing ==
    ASSUME NEW st \in Seq(Record)
    PROVE  WeightIn(st, {}) = 0
<1>1. WeightIn(st, {}) \in Nat /\ WeightIn(st, {} \union {}) = WeightIn(st, {}) + WeightIn(st, {})
  BY WeightAdds
<1>2. {} \union {} = {}
  OBVIOUS
<1> QED
  BY <1>1, <1>2

-----------------------------------------------------------------------------
(***************************************************************************)
(* States.                                                                 *)
(***************************************************************************)

LEMMA OfNumbers ==
    ASSUME NEW s \in Seq(Nat), NEW S, S \subseteq Nat
    PROVE  s \in Seq(S) <=> ToSet(s) \subseteq S
<1>1. ASSUME s \in Seq(S) PROVE ToSet(s) \subseteq S
  BY <1>1, In
<1>2. ASSUME ToSet(s) \subseteq S PROVE s \in Seq(S)
  <2>1. Len(s) \in Nat /\ \A i \in 1..Len(s) : s[i] \in S
    BY <1>2, In
  <2>2. s = [i \in 1..Len(s) |-> s[i]]
    BY LenProperties
  <2> QED
    BY <2>1, <2>2, IsASeq
<1> QED
  BY <1>1, <1>2

LEMMA WiderSeq ==
    ASSUME NEW S, NEW T, S \subseteq T, NEW s \in Seq(S)
    PROVE  s \in Seq(T)
OBVIOUS

LEMMA Facts ==
    ASSUME TypeOK
    PROVE  /\ stream \in Seq(Record) /\ Len(stream) \in Nat /\ framed \in Nat
           /\ Numbers = 1..Len(stream) /\ Numbers \subseteq Nat
           /\ queue \in Seq(Nat) /\ chunk \in Seq(Nat) /\ rows \in Seq(Nat)
           /\ ToSet(queue) \subseteq Numbers /\ ToSet(chunk) \subseteq Numbers
           /\ \A g \in groups : g \in Seq(Nat) /\ g # <<>> /\ ToSet(g) \subseteq Numbers
           /\ \A t \in Tables : durable[t] \in Seq(Nat) /\ pending[t] \in Seq(Nat)
           /\ Stored \subseteq Numbers
           /\ \A n \in Numbers : stream[n].table \in Tables /\ stream[n].fate \in Fates
<1>1. stream \in Seq(Record) /\ Len(stream) \in Nat /\ Numbers = 1..Len(stream) /\ Numbers \subseteq Nat
  BY LimitsAssumption, LenProperties DEF TypeOK, Numbers
<1>2. \A n \in Numbers : stream[n] \in Record
  BY <1>1
<1>3. ASSUME NEW s \in Seq(Numbers) PROVE s \in Seq(Nat) /\ ToSet(s) \subseteq Numbers
  <2>1. s \in Seq(Nat)
    BY <1>1, WiderSeq
  <2> QED
    BY <2>1, <1>1, OfNumbers
<1>4. /\ queue \in Seq(Numbers) /\ chunk \in Seq(Numbers) /\ rows \in Seq(Numbers)
      /\ \A g \in groups : g \in Seq(Numbers) /\ g # <<>>
      /\ \A t \in Tables : durable[t] \in Seq(Numbers) /\ pending[t] \in Seq(Numbers)
      /\ framed \in 0..Len(stream)
  BY DEF TypeOK
<1>5. \A t \in Tables : ToSet(durable[t]) \subseteq Numbers
  BY <1>3, <1>4
<1>6. Stored \subseteq Numbers
  BY <1>5 DEF Stored
<1>7. \A n \in Numbers : stream[n].table \in Tables /\ stream[n].fate \in Fates
  BY <1>2 DEF Record
<1>8. /\ queue \in Seq(Nat) /\ chunk \in Seq(Nat) /\ rows \in Seq(Nat)
      /\ ToSet(queue) \subseteq Numbers /\ ToSet(chunk) \subseteq Numbers
  BY <1>3, <1>4
<1>9. \A g \in groups : g \in Seq(Nat) /\ g # <<>> /\ ToSet(g) \subseteq Numbers
  BY <1>3, <1>4
<1>10. \A t \in Tables : durable[t] \in Seq(Nat) /\ pending[t] \in Seq(Nat)
  BY <1>3, <1>4
<1>11. framed \in Nat
  BY <1>1, <1>4
<1> QED
  BY <1>1, <1>6, <1>7, <1>8, <1>9, <1>10, <1>11

LEMMA DurableIsStored ==
    ASSUME TypeOK, NEW n
    PROVE  IsDurable(n) <=> n \in Stored
<1>1. \A t \in Tables : Contains(durable[t], n) <=> n \in ToSet(durable[t])
  BY Facts, In DEF Contains
<1> QED
  BY <1>1 DEF IsDurable, Stored

(***************************************************************************)
(* While a group is written.                                               *)
(***************************************************************************)

LEMMA GroupIs ==
    ASSUME TypeOK, GroupsInv, groups # {}
    PROVE  /\ Leading \in groups /\ \A h \in groups : Head(Leading) <= Head(h)
           /\ Leading \in Seq(Nat) /\ Leading # <<>> /\ Ascending(Leading)
           /\ GroupTable = TableOf(Leading) /\ GroupTable \in Tables
           /\ Group \in Seq(Nat) /\ Ascending(Group)
           /\ ToSet(Group) = {n \in ToSet(Leading) : limit # 0 => n < limit}
           /\ Group # <<>> => Head(Group) = Head(Leading) /\ Head(Group) \in ToSet(Group)
           /\ ToSet(Leading) \subseteq ToSet(chunk)
           /\ \A n \in ToSet(Leading) : stream[n].table = GroupTable
<1>1. Leading \in groups /\ \A h \in groups : Head(Leading) <= Head(h)
  BY Facts, LeadingIs
<1>2. /\ Leading \in Seq(Nat) /\ Leading # <<>> /\ Ascending(Leading)
      /\ ToSet(Leading) \subseteq ToSet(chunk)
      /\ \A n \in ToSet(Leading) : stream[n].table = TableOf(Leading)
  BY <1>1, Facts DEF GroupsInv
<1>3. GroupTable = TableOf(Leading)
  BY DEF GroupTable, TableOf
<1>4. Head(Leading) \in ToSet(Leading) /\ Head(Leading) \in Numbers
  BY <1>1, <1>2, Facts, HeadTail
<1>5. GroupTable \in Tables
  BY <1>4, Facts DEF GroupTable
<1>6. limit \in Nat
  BY DEF TypeOK
<1>7. /\ Group \in Seq(Nat) /\ Ascending(Group)
      /\ ToSet(Group) = {n \in ToSet(Leading) : limit # 0 => n < limit}
      /\ Group # <<>> => Head(Group) = Head(Leading)
  BY <1>2, <1>6, UpToIs DEF Group
<1>8. Group # <<>> => Head(Group) \in ToSet(Group)
  BY <1>7, HeadTail
<1> QED
  BY <1>1, <1>2, <1>3, <1>5, <1>7, <1>8

\* What is tried, and what is left of the rows.
LEMMA AttemptIs ==
    ASSUME TypeOK, RowsInv
    PROVE  LET r == SubSeq(rows, take + 1, Len(rows)) IN
           /\ Attempt \in Seq(Nat) /\ Len(Attempt) = take /\ take \in 1..Len(rows)
           /\ r \in Seq(Nat) /\ Len(r) = Len(rows) - take
           /\ ToSet(rows) = ToSet(Attempt) \union ToSet(r)
           /\ Ascending(Attempt) /\ Ascending(r) /\ Precedes(ToSet(Attempt), ToSet(r))
           /\ take = Len(rows) => Attempt = rows
<1>1. rows \in Seq(Nat) /\ take \in 1..Len(rows) /\ take \in 0..Len(rows) /\ Ascending(rows)
  BY Facts DEF RowsInv
<1>2. Attempt = Before(rows, take) /\ SubSeq(rows, take + 1, Len(rows)) = After(rows, take)
  BY DEF Attempt, Before, After
<1>3. take = Len(rows) => Attempt = rows
  <2>1. SubSeq(rows, 1, Len(rows)) = rows
    BY <1>1
  <2> QED
    BY <2>1 DEF Attempt
<1> DEFINE p == Before(rows, take)
           r == After(rows, take)
<1>4. /\ p \in Seq(Nat) /\ Len(p) = take /\ r \in Seq(Nat) /\ Len(r) = Len(rows) - take
      /\ ToSet(rows) = ToSet(p) \union ToSet(r)
      /\ Ascending(p) /\ Ascending(r) /\ Precedes(ToSet(p), ToSet(r))
  BY <1>1, Cut
<1> QED
  BY <1>1, <1>2, <1>3, <1>4

LEMMA LeftIs ==
    ASSUME NEW n
    PROVE  n \in Left <=> \/ \E g \in Later : n \in ToSet(g)
                          \/ Writing /\ n \in ToSet(rows)
<1>1. n \in UNION {ToSet(g) : g \in Later} <=> \E g \in Later : n \in ToSet(g)
  OBVIOUS
<1>2. CASE Writing
  BY <1>1, <1>2 DEF Left
<1>3. CASE ~Writing
  BY <1>1, <1>3 DEF Left
<1> QED
  BY <1>2, <1>3

\* Everything that precedes the group being written is in staging.
LEMMA BeforeGroup ==
    ASSUME IInv, Writing, NEW n \in Numbers, n < Head(Group)
    PROVE  n \in Stored
<1>1. /\ TypeOK /\ OrderInv /\ PlacedInv /\ GroupsInv /\ RowsInv /\ groups # {}
  BY DEF IInv, Writing, RowsInv
<1>2. rows # <<>> /\ rows \in Seq(Nat) /\ Head(rows) \in ToSet(rows)
  <2>1. rows \in Seq(Nat) /\ take \in 1..Len(rows)
    BY <1>1, Facts DEF RowsInv
  <2>2. rows # <<>>
    BY <2>1, EmptySeq
  <2> QED
    BY <2>1, <2>2, HeadTail
<1>3. /\ Leading \in groups /\ \A h \in groups : Head(Leading) <= Head(h)
      /\ Group \in Seq(Nat) /\ Ascending(Group)
      /\ ToSet(Group) = {m \in ToSet(Leading) : limit # 0 => m < limit}
      /\ Group # <<>> => Head(Group) = Head(Leading) /\ Head(Group) \in ToSet(Group)
      /\ ToSet(Leading) \subseteq ToSet(chunk)
  BY <1>1, GroupIs
<1>4. Group # <<>>
  <2>1. Head(rows) \in ToSet(Group)
    BY <1>1, <1>2 DEF RowsInv
  <2> QED
    BY <2>1, <1>3, EmptySeq, In
<1> DEFINE h == Head(Group)
<1>5. h = Head(Leading) /\ h \in ToSet(Group) /\ h \in ToSet(chunk) /\ (limit # 0 => h < limit)
  BY <1>3, <1>4
<1>6. h \in Nat /\ n \in Nat /\ h <= framed /\ framed \in Nat
  BY <1>1, <1>5, Facts DEF OrderInv
<1>7. limit \in Nat
  BY <1>1 DEF TypeOK
<1>8. n \in 1..framed /\ n # framed /\ n < h
  BY <1>1, <1>6, Facts
<1>9. CASE n \in ToSet(chunk)
  <2>1. limit # 0 => n < limit
    BY <1>5, <1>6, <1>7
  <2>2. n \in Stored \/ n \in Left
    BY <1>1, <1>9, <2>1 DEF GroupsInv
  <2>3. n \notin ToSet(rows)
    <3>1. \A m \in ToSet(Group) : h <= m
      <4>1. h \in Nat /\ ToSet(Group) = {h} \union ToSet(Tail(Group))
            /\ Precedes({h}, ToSet(Tail(Group))) /\ Tail(Group) \in Seq(Nat)
        BY <1>3, <1>4, HeadTail
      <4>2. ToSet(Tail(Group)) \subseteq Nat
        BY <4>1, Slice
      <4> QED
        BY <4>1, <4>2 DEF Precedes
    <3>2. ToSet(rows) \subseteq ToSet(Group)
      BY <1>1 DEF RowsInv
    <3> QED
      BY <3>1, <3>2, <1>6, <1>8
  <2>4. ASSUME NEW g \in groups PROVE n \notin ToSet(g)
    <3>1. g \in Seq(Nat) /\ g # <<>> /\ Ascending(g)
      BY <1>1, Facts DEF GroupsInv
    <3>2. /\ Head(g) \in Nat /\ ToSet(g) = {Head(g)} \union ToSet(Tail(g))
          /\ Precedes({Head(g)}, ToSet(Tail(g)))
      BY <3>1, HeadTail
    <3>3. h <= Head(g)
      BY <1>3, <1>5
    <3> QED
      BY <3>2, <3>3, <1>6, <1>8 DEF Precedes
  <2> QED
    <3>1. Later \subseteq groups
      BY DEF Later
    <3>2. \A m : m \in Left => m \in ToSet(rows) \/ \E g \in groups : m \in ToSet(g)
      BY <3>1, LeftIs
    <3> QED
      BY <3>2, <2>2, <2>3, <2>4
<1>10. CASE n \in ToSet(queue)
  <2>1. h < n
    BY <1>1, <1>5, <1>10 DEF OrderInv, Precedes
  <2> QED
    BY <2>1, <1>6, <1>8
<1> QED
  BY <1>1, <1>8, <1>9, <1>10 DEF PlacedInv

-----------------------------------------------------------------------------
(***************************************************************************)
(* What a step leaves as it was.                                           *)
(***************************************************************************)

LEMMA SameStore ==
    ASSUME UNCHANGED durable
    PROVE  Stored' = Stored /\ \A n : IsDurable(n)' <=> IsDurable(n)
BY DEF Stored, IsDurable

LEMMA SameKept ==
    ASSUME StoreInv, ChargeExact, UNCHANGED <<stream, durable, pending, charged>>
    PROVE  StoreInv' /\ ChargeExact'
<1>1. StoreInv'
  BY DEF StoreInv
<1>2. Uncommitted' = Uncommitted
  BY DEF Uncommitted
<1>3. ChargeExact'
  BY <1>2 DEF ChargeExact, Weight
<1> QED
  BY <1>1, <1>3

LEMMA SameAnswer ==
    ASSUME ResultIsTrue, UNCHANGED <<stream, durable, result>>, cancelled => cancelled'
    PROVE  ResultIsTrue'
<1>1. \A n : IsDurable(n)' <=> IsDurable(n)
  BY SameStore
<1>2. Numbers' = Numbers
  BY DEF Numbers
<1>3. NilMeansAll'
  BY <1>1, <1>2 DEF ResultIsTrue, NilMeansAll, Nil
<1>4. NothingBeforeIsMissing'
  BY <1>1, <1>2 DEF ResultIsTrue, NothingBeforeIsMissing
<1>5. NamesTheCulprit'
  BY <1>1, <1>2 DEF ResultIsTrue, NamesTheCulprit
<1> QED
  BY <1>3, <1>4, <1>5 DEF ResultIsTrue

LEMMA NoAnswer ==
    ASSUME result' = Nothing
    PROVE  ResultIsTrue'
BY DEF ResultIsTrue, NilMeansAll, NothingBeforeIsMissing, NamesTheCulprit, Nothing, Nil

LEMMA StoppedAnswer ==
    ASSUME result' = Nil, cancelled'
    PROVE  ResultIsTrue'
BY DEF ResultIsTrue, NilMeansAll, NothingBeforeIsMissing, NamesTheCulprit, Nil

LEMMA SameChunk ==
    ASSUME UNCHANGED <<stream, chunk, groups, limit, failure, rows, durable>>,
           Writing' <=> Writing
    PROVE  /\ Group' = Group /\ GroupTable' = GroupTable
           /\ GroupsInv => GroupsInv'
           /\ LimitInv => LimitInv'
           /\ RowsInv /\ UNCHANGED take => RowsInv'
<1>1. Leading' = Leading
  BY DEF Leading
<1>2. Group' = Group /\ GroupTable' = GroupTable
  BY <1>1 DEF Group, GroupTable
<1>3. Later' = Later
  BY <1>1 DEF Later
<1>4. Left' = Left
  BY <1>3 DEF Left
<1>5. Stored' = Stored
  BY SameStore
<1>6. \A g : TableOf(g)' = TableOf(g)
  BY DEF TableOf
<1>7. GroupsInv => GroupsInv'
  BY <1>3, <1>4, <1>5, <1>6 DEF GroupsInv
<1>8. LimitInv => LimitInv'
  BY <1>5 DEF LimitInv
<1>9. RowsInv /\ UNCHANGED take => RowsInv'
  <2>1. \A s : NoneRefused(s)' <=> NoneRefused(s)
    BY DEF NoneRefused
  <2> QED
    BY <1>2, <2>1 DEF RowsInv
<1> QED
  BY <1>2, <1>7, <1>8, <1>9

-----------------------------------------------------------------------------
(***************************************************************************)
(* The framing goroutine.                                                  *)
(***************************************************************************)

LEMMA Starts ==
    ASSUME Init
    PROVE  IInv
<1> USE DEF Init
<1>0. stream \in Seq(Record) /\ Len(stream) \in Nat
  BY LimitsAssumption
<1>1. TypeOK
  <2>1. 0 \in 0..Len(stream) /\ 0 \in 0..StagingMaxRecords /\ 0 \in 0..StagingMaxBytes /\ 0 \in 0..MaxFaults
    BY <1>0, LimitsAssumption
  <2>2. <<>> \in Seq(Numbers) /\ Len(<<>>) = 0
    BY EmptySeq
  <2>3. Len(queue) <= ReadAhead /\ Len(chunk) <= ChunkMaxRecords
    BY <2>2, LimitsAssumption
  <2>4. take \in 0..Len(rows)
    BY <2>2
  <2> QED
    BY <2>1, <2>2, <2>3, <2>4 DEF TypeOK, Results, Nothing
<1>2. \A s : s = <<>> => ToSet(s) = {} /\ Ascending(s)
  BY DEF ToSet, Ascending
<1>3. Stored = {} /\ Uncommitted = {}
  BY <1>2 DEF Stored, Uncommitted
<1>4. FramingInv /\ OrderInv /\ PlacedInv /\ StoreInv /\ OutcomeInv
  BY <1>2, <1>3 DEF FramingInv, OrderInv, PlacedInv, StoreInv, OutcomeInv, InHand, Precedes
<1>5. ResultIsTrue
  BY DEF ResultIsTrue, NilMeansAll, NothingBeforeIsMissing, NamesTheCulprit, Nothing, Nil
<1>6. ChargeExact
  <2>1. WeightIn(stream, {}) = 0
    BY <1>0, WeightOfNothing
  <2>2. Cardinality({}) = 0
    BY FS_EmptySet
  <2> QED
    BY <1>3, <2>1, <2>2 DEF ChargeExact, Weight
<1> QED
  BY <1>1, <1>4, <1>5, <1>6 DEF IInv, Writing

\* The framing, the channel and a cancellation leave a chunk as it is.
LEMMA AroundTheChunk ==
    ASSUME IInv, UNCHANGED <<stream, chunking, writing, store, result>>,
           UNCHANGED pc, cancelled => cancelled'
    PROVE  /\ StoreInv' /\ ChargeExact' /\ ResultIsTrue'
           /\ pc' \in {"next", "write", "wait"} => GroupsInv' /\ LimitInv'
           /\ Writing' => RowsInv'
<1> USE DEF chunking, writing, store, IInv
<1>1. StoreInv' /\ ChargeExact'
  BY SameKept
<1>2. ResultIsTrue'
  BY SameAnswer
<1>3. Writing' <=> Writing
  BY DEF Writing
<1>4. (GroupsInv => GroupsInv') /\ (LimitInv => LimitInv') /\ (RowsInv => RowsInv')
  BY <1>3, SameChunk
<1> QED
  BY <1>1, <1>2, <1>3, <1>4

LEMMA FrameKeeps ==
    ASSUME IInv, Frame
    PROVE  IInv'
<1> USE DEF framing, chunking, writing, store
<1>0. /\ TypeOK /\ FramingInv /\ OrderInv /\ PlacedInv /\ OutcomeInv
      /\ framer = "reading" /\ readErr = 0 /\ ~InHand
      /\ Stored' = Stored
  BY SameStore DEF IInv, Frame, FramingInv, InHand
<1>1. TypeOK'
  BY <1>0 DEF TypeOK, Frame, Numbers
<1>2. /\ StoreInv' /\ ChargeExact' /\ ResultIsTrue'
      /\ pc' \in {"next", "write", "wait"} => GroupsInv' /\ LimitInv'
      /\ Writing' => RowsInv'
  BY AroundTheChunk DEF Frame
<1>3. framed \in Nat /\ framed' \in Nat
  BY <1>0, <1>1, Facts DEF TypeOK
<1>4. FramingInv'
  BY <1>0, <1>3 DEF Frame, FramingInv
<1>5. OrderInv'
  <2>1. /\ UNCHANGED <<queue, chunk, pc>>
        /\ framed' = framed \/ framed' = framed + 1
        /\ InHand' => framed' = framed + 1
    BY <1>0 DEF Frame, InHand
  <2>2. \A n \in 1..framed : n \in 1..framed' /\ n # framed + 1
    BY <1>3, <2>1
  <2> QED
    BY <1>0, <2>1, <2>2 DEF OrderInv
<1>6. PlacedInv'
  <2>1. ASSUME NEW n \in 1..framed'
        PROVE  \/ n \in Stored' \/ n \in ToSet(chunk') \/ n \in ToSet(queue')
               \/ n = framed' /\ (InHand' \/ (framer' = "closed" /\ cancelled'))
    <3>1. CASE n \in 1..framed
      BY <1>0, <3>1 DEF PlacedInv, Frame
    <3>2. CASE n \notin 1..framed
      <4>1. framed' = framed + 1 /\ n = framed'
        BY <1>3, <3>2 DEF Frame
      <4>2. InHand'
        BY <1>0, <1>3, <4>1 DEF Frame, InHand
      <4> QED
        BY <4>1, <4>2
    <3> QED
      BY <3>1, <3>2
  <2> QED
    BY <2>1 DEF PlacedInv
<1>7. OutcomeInv'
  BY <1>0 DEF OutcomeInv, Drained, Frame
<1> QED
  BY <1>1, <1>2, <1>4, <1>5, <1>6, <1>7 DEF IInv

LEMMA SendKeeps ==
    ASSUME IInv, Send
    PROVE  IInv'
<1> USE DEF framing, chunking, writing, store
<1>0. /\ TypeOK /\ FramingInv /\ OrderInv /\ PlacedInv /\ OutcomeInv
      /\ framer = "sending" /\ readErr = 0 /\ InHand /\ framed > 0
      /\ Stored' = Stored
  BY SameStore DEF IInv, Send, FramingInv, InHand
<1>f. /\ queue \in Seq(Nat) /\ framed \in Nat /\ ToSet(queue) \subseteq Nat /\ Len(queue) \in Nat
      /\ queue \in Seq(Numbers) /\ framed \in Numbers
  BY <1>0, Facts DEF TypeOK
<1>q. /\ Len(queue') = Len(queue) + 1 /\ queue' \in Seq(Numbers)
      /\ ToSet(queue') = ToSet(queue) \union {framed}
      /\ Ascending(queue) /\ Precedes(ToSet(queue), {framed}) => Ascending(queue')
  <2>1. queue' = Append(queue, framed)
    BY DEF Send
  <2>2. Append(queue, framed) \in Seq(Numbers)
    BY <1>f, AppendProperties
  <2> QED
    BY <1>f, <2>1, <2>2, Appended
<1>1. TypeOK'
  <2>1. Len(queue') <= ReadAhead
    BY <1>f, <1>q, LimitsAssumption DEF Send
  <2> QED
    BY <1>0, <1>q, <2>1 DEF TypeOK, Send, Numbers
<1>2. /\ StoreInv' /\ ChargeExact' /\ ResultIsTrue'
      /\ pc' \in {"next", "write", "wait"} => GroupsInv' /\ LimitInv'
      /\ Writing' => RowsInv'
  BY AroundTheChunk DEF Send
<1>4. FramingInv'
  BY <1>0 DEF Send, FramingInv
<1>5. OrderInv'
  <2>1. \A n \in ToSet(queue) \union ToSet(chunk) \union Stored : n \in Nat /\ n < framed
    BY <1>0, <1>f DEF OrderInv
  <2>2. Precedes(ToSet(queue), {framed}) /\ Precedes(ToSet(chunk) \union Stored, ToSet(queue'))
    BY <1>0, <1>q, <2>1 DEF OrderInv, Precedes
  <2>3. framed \in 1..framed /\ ~InHand'
    BY <1>0, <1>f DEF Send, InHand
  <2> QED
    BY <1>0, <1>q, <2>2, <2>3 DEF OrderInv, Send
<1>6. PlacedInv'
  BY <1>0, <1>q DEF PlacedInv, Send, InHand
<1>7. OutcomeInv'
  BY <1>0 DEF OutcomeInv, Drained, Send
<1> QED
  BY <1>1, <1>2, <1>4, <1>5, <1>6, <1>7 DEF IInv

LEMMA FramerStopsKeeps ==
    ASSUME IInv, FramerStops
    PROVE  IInv'
<1> USE DEF framing, chunking, writing, store
<1>0. /\ TypeOK /\ FramingInv /\ OrderInv /\ PlacedInv /\ OutcomeInv
      /\ framer = "sending" /\ cancelled /\ Stored' = Stored
  BY SameStore DEF IInv, FramerStops
<1>1. TypeOK'
  BY <1>0 DEF TypeOK, FramerStops, Numbers
<1>2. /\ StoreInv' /\ ChargeExact' /\ ResultIsTrue'
      /\ pc' \in {"next", "write", "wait"} => GroupsInv' /\ LimitInv'
      /\ Writing' => RowsInv'
  BY AroundTheChunk DEF FramerStops
<1>3. FramingInv' /\ OrderInv' /\ PlacedInv' /\ OutcomeInv'
  BY <1>0 DEF FramingInv, OrderInv, PlacedInv, OutcomeInv, Drained, InHand, FramerStops
<1> QED
  BY <1>1, <1>2, <1>3 DEF IInv

LEMMA CancelKeeps ==
    ASSUME IInv, Cancel
    PROVE  IInv'
<1> USE DEF framing, chunking, writing, store
<1>0. /\ TypeOK /\ FramingInv /\ OrderInv /\ PlacedInv /\ OutcomeInv /\ Stored' = Stored
  BY SameStore DEF IInv, Cancel
<1>1. TypeOK'
  BY <1>0 DEF TypeOK, Cancel, Numbers
<1>2. /\ StoreInv' /\ ChargeExact' /\ ResultIsTrue'
      /\ pc' \in {"next", "write", "wait"} => GroupsInv' /\ LimitInv'
      /\ Writing' => RowsInv'
  BY AroundTheChunk DEF Cancel
<1>3. FramingInv' /\ OrderInv' /\ PlacedInv' /\ OutcomeInv'
  BY <1>0 DEF FramingInv, OrderInv, PlacedInv, OutcomeInv, Drained, InHand, Cancel
<1> QED
  BY <1>1, <1>2, <1>3 DEF IInv

(***************************************************************************)
(* Collecting a chunk.                                                     *)
(***************************************************************************)

LEMMA TakeKeeps ==
    ASSUME IInv, Take, pc \in {"first", "drain"}, Len(chunk) < ChunkMaxRecords, pc' = "drain",
           UNCHANGED <<stream, cancelled, framing, outcome, writing, store, faults, result>>
    PROVE  IInv'
<1> USE DEF framing, chunking, writing, store
<1>0. /\ TypeOK /\ FramingInv /\ OrderInv /\ PlacedInv /\ OutcomeInv /\ StoreInv /\ ChargeExact
      /\ ResultIsTrue /\ Stored' = Stored /\ Precedes(Stored, ToSet(chunk))
  BY SameStore DEF IInv, OrderInv
<1> DEFINE n == Head(queue)
<1>f. /\ queue \in Seq(Nat) /\ queue # <<>> /\ chunk \in Seq(Nat) /\ framed \in Nat
      /\ queue \in Seq(Numbers) /\ chunk \in Seq(Numbers) /\ Len(queue) \in Nat /\ Len(chunk) \in Nat
      /\ Len(queue) <= ReadAhead
      /\ queue' = Tail(queue) /\ chunk' = Append(chunk, n)
  <2>1. queue \in Seq(Nat) /\ chunk \in Seq(Nat) /\ framed \in Nat
    BY <1>0, Facts
  <2>2. queue \in Seq(Numbers) /\ chunk \in Seq(Numbers) /\ Len(queue) <= ReadAhead
    BY <1>0 DEF TypeOK
  <2>3. queue # <<>> /\ queue' = Tail(queue) /\ chunk' = Append(chunk, Head(queue))
    BY DEF Take
  <2>4. Len(queue) \in Nat /\ Len(chunk) \in Nat
    BY <2>1, LenProperties
  <2> QED
    BY <2>1, <2>2, <2>3, <2>4
<1>h. /\ n \in Nat /\ n \in ToSet(queue) /\ n \in Numbers
      /\ queue' \in Seq(Numbers) /\ Len(queue') = Len(queue) - 1
      /\ ToSet(queue) = {n} \union ToSet(queue')
      /\ Ascending(queue') /\ Precedes({n}, ToSet(queue'))
  <2>1. /\ n \in Nat /\ n \in ToSet(queue)
        /\ Len(queue') = Len(queue) - 1
        /\ ToSet(queue) = {n} \union ToSet(queue')
        /\ Ascending(queue') /\ Precedes({n}, ToSet(queue'))
    BY <1>0, <1>f, HeadTail DEF OrderInv
  <2>2. n \in Numbers /\ Tail(queue) \in Seq(Numbers)
    BY <1>f, HeadTailProperties
  <2> QED
    BY <1>f, <2>1, <2>2
<1>p. Precedes(ToSet(chunk) \union Stored, ToSet(queue))
  BY <1>0 DEF OrderInv
<1>c. /\ chunk' \in Seq(Numbers) /\ Len(chunk') = Len(chunk) + 1
      /\ ToSet(chunk') = ToSet(chunk) \union {n} /\ Ascending(chunk')
  <2>1. Precedes(ToSet(chunk), {n})
    BY <1>h, <1>p DEF Precedes
  <2>2. Append(chunk, n) \in Seq(Numbers)
    BY <1>f, <1>h, AppendProperties
  <2>3. Ascending(chunk)
    BY <1>0 DEF OrderInv
  <2> HIDE DEF n
  <2> QED
    BY <1>f, <1>h, <2>1, <2>2, <2>3, Appended
<1> HIDE DEF n
<1>1. TypeOK'
  <2>1. Len(chunk') <= ChunkMaxRecords /\ Len(queue') <= ReadAhead
    BY <1>f, <1>h, <1>c, LimitsAssumption
  <2> QED
    BY <1>0, <1>h, <1>c, <2>1 DEF TypeOK, Numbers
<1>2. /\ StoreInv' /\ ChargeExact' /\ ResultIsTrue'
  BY <1>0, SameKept, SameAnswer
<1>3. FramingInv'
  BY <1>0 DEF FramingInv
<1>4. OrderInv'
  <2>1. Precedes(ToSet(chunk') \union Stored, ToSet(queue'))
    BY <1>h, <1>c, <1>p DEF Precedes
  <2>2. Precedes(Stored, ToSet(chunk'))
    BY <1>0, <1>h, <1>c, <1>p DEF Precedes
  <2>3. ToSet(queue') \union ToSet(chunk') = ToSet(queue) \union ToSet(chunk)
    BY <1>h, <1>c
  <2> QED
    BY <1>0, <1>h, <1>c, <2>1, <2>2, <2>3 DEF OrderInv, InHand
<1>5. PlacedInv'
  BY <1>0, <1>h, <1>c DEF PlacedInv, InHand
<1>6. OutcomeInv'
  BY <1>0, <1>f DEF OutcomeInv, Drained
<1> QED
  BY <1>1, <1>2, <1>3, <1>4, <1>5, <1>6 DEF IInv, Writing

LEMMA CollectedKeeps ==
    ASSUME IInv, pc \in {"first", "drain"}, NEW why \in {"more", "ended", "stopped"}, Collected(why),
           why = "ended" => Drained, why = "stopped" => cancelled,
           UNCHANGED <<stream, cancelled, framing, writing, store, faults, result>>
    PROVE  IInv'
<1> USE DEF framing, chunking, writing, store, Collected
<1>0. /\ TypeOK /\ FramingInv /\ OrderInv /\ PlacedInv /\ OutcomeInv /\ StoreInv /\ ChargeExact
      /\ ResultIsTrue /\ Stored' = Stored
  BY SameStore DEF IInv
<1>1. TypeOK'
  BY <1>0 DEF TypeOK, Numbers
<1>2. /\ StoreInv' /\ ChargeExact' /\ ResultIsTrue'
  BY <1>0, SameKept, SameAnswer
<1>3. FramingInv' /\ OrderInv' /\ PlacedInv' /\ OutcomeInv'
  BY <1>0 DEF FramingInv, OrderInv, PlacedInv, OutcomeInv, Drained, InHand
<1> QED
  BY <1>1, <1>2, <1>3 DEF IInv, Writing

LEMMA FirstRecordKeeps ==
    ASSUME IInv, FirstRecord
    PROVE  IInv'
<1>1. CASE Take /\ pc' = "drain" /\ UNCHANGED outcome
  <2>1. Len(chunk) < ChunkMaxRecords
    BY LimitsAssumption, EmptySeq DEF IInv, OrderInv, FirstRecord
  <2> QED
    BY <1>1, <2>1, TakeKeeps DEF FirstRecord
<1>2. CASE Drained /\ Collected("ended")
  BY <1>2, CollectedKeeps DEF FirstRecord
<1>3. CASE cancelled /\ Collected("stopped")
  BY <1>3, CollectedKeeps DEF FirstRecord
<1> QED
  BY <1>1, <1>2, <1>3 DEF FirstRecord

LEMMA DrainQueueKeeps ==
    ASSUME IInv, DrainQueue
    PROVE  IInv'
<1>1. CASE Fits(chunk) /\ Take /\ UNCHANGED <<pc, outcome>>
  BY <1>1, TakeKeeps DEF DrainQueue, Fits
<1>2. CASE Fits(chunk) /\ Drained /\ Collected("ended")
  BY <1>2, CollectedKeeps DEF DrainQueue
<1>3. CASE Collected("more")
  BY <1>3, CollectedKeeps DEF DrainQueue
<1> QED
  BY <1>1, <1>2, <1>3 DEF DrainQueue

LEMMA GroupChunkKeeps ==
    ASSUME IInv, GroupChunk
    PROVE  IInv'
<1> USE DEF framing, chunking, store
<1>0. /\ TypeOK /\ FramingInv /\ OrderInv /\ PlacedInv /\ OutcomeInv /\ StoreInv /\ ChargeExact
      /\ ResultIsTrue /\ Stored' = Stored /\ Precedes(Stored, ToSet(chunk)) /\ Ascending(chunk)
      /\ UNCHANGED <<stream, durable, chunk>> /\ pc' = "next"
  BY SameStore DEF IInv, OrderInv, GroupChunk
<1>f. /\ chunk \in Seq(Nat) /\ ToSet(chunk) \subseteq Numbers
      /\ Numbers = 1..Len(stream) /\ Len(stream) \in Nat /\ Numbers \subseteq Nat
      /\ Stored \subseteq Numbers
      /\ \A n \in ToSet(chunk) : stream[n].table \in Tables
  BY <1>0, Facts
<1> DEFINE lim == FirstUnreadable(chunk)
           gs == GroupsOf(chunk)
<1>g. /\ lim \in Nat
      /\ \A g \in gs :
            /\ g \in Seq(Nat) /\ g # <<>> /\ Ascending(g)
            /\ ToSet(g) \subseteq ToSet(chunk)
            /\ \A n \in ToSet(g) : stream[n].table = TableOf(g)
      /\ \A g, h \in gs : TableOf(g) = TableOf(h) => g = h
      /\ \A n \in ToSet(chunk) : (lim # 0 => n < lim) => n \in UNION {ToSet(g) : g \in gs}
  BY <1>0, <1>f, GroupsOfAre
<1>u. lim = 0 \/ (lim \in ToSet(chunk) /\ stream[lim].fate = "unreadable")
  BY <1>f, UnreadableIs
<1>e. groups' = gs /\ limit' = lim /\ failure' = IF limit' = 0 THEN Nothing ELSE Refusal(limit')
  BY DEF GroupChunk
<1> HIDE DEF lim, gs
<1>w. ~Writing' /\ Later' = gs /\ Left' = UNION {ToSet(g) : g \in gs}
  BY <1>0, <1>e DEF Writing, Later, Left
<1>1. TypeOK'
  <2>1. lim \in 0..Len(stream) /\ failure' \in Results
    BY <1>f, <1>u, <1>g, <1>e DEF Results, Nothing, Refusal
  <2>2. gs \subseteq Seq(Numbers) \ {<<>>}
    BY <1>f, <1>g, OfNumbers
  <2> QED
    BY <1>0, <1>e, <2>1, <2>2 DEF TypeOK, Numbers, GroupChunk
<1>2. /\ StoreInv' /\ ChargeExact' /\ ResultIsTrue'
  BY <1>0, SameKept, SameAnswer DEF GroupChunk
<1>3. FramingInv' /\ OrderInv' /\ PlacedInv' /\ OutcomeInv'
  BY <1>0 DEF FramingInv, OrderInv, PlacedInv, OutcomeInv, Drained, InHand, GroupChunk
<1>4. GroupsInv'
  <2>1. \A g : TableOf(g)' = TableOf(g)
    BY <1>0 DEF TableOf
  <2>2. ASSUME NEW g \in gs PROVE Precedes(ToSet(durable[TableOf(g)]), ToSet(g))
    <3>1. Head(g) \in ToSet(chunk)
      BY <1>g, HeadTail
    <3>2. TableOf(g) \in Tables
      BY <1>f, <3>1 DEF TableOf
    <3> QED
      BY <1>0, <1>g, <3>2 DEF Precedes, Stored
  <2> QED
    BY <1>0, <1>e, <1>g, <1>w, <2>1, <2>2 DEF GroupsInv
<1>5. LimitInv'
  <2>1. ASSUME lim # 0, NEW n \in Stored, n >= lim PROVE FALSE
    <3>1. n < lim
      BY <1>0, <1>u, <2>1 DEF Precedes
    <3> QED
      BY <1>f, <1>g, <2>1, <3>1
  <2> QED
    BY <1>0, <1>e, <1>u, <2>1 DEF LimitInv
<1> QED
  BY <1>1, <1>2, <1>3, <1>4, <1>5, <1>w DEF IInv

(***************************************************************************)
(* Starting a group, waiting, and a run that is told to stop.              *)
(***************************************************************************)

LEMMA StartGroupKeeps ==
    ASSUME IInv, StartGroup
    PROVE  IInv'
<1> USE DEF framing, chunking, store
<1>0. /\ TypeOK /\ FramingInv /\ OrderInv /\ PlacedInv /\ OutcomeInv /\ StoreInv /\ ChargeExact
      /\ ResultIsTrue /\ GroupsInv /\ LimitInv /\ Stored' = Stored /\ groups # {}
      /\ pc = "next" /\ ~Writing
      /\ UNCHANGED <<stream, cancelled, framing, queue, chunking, limit, failure, store, faults, result>>
  BY SameStore DEF IInv, StartGroup, Writing
<1>f. /\ Numbers \subseteq Nat /\ \A g \in groups : g \in Seq(Nat) /\ ToSet(g) \subseteq Numbers
  BY <1>0, Facts
<1>g. /\ Leading \in groups /\ GroupTable = TableOf(Leading) /\ GroupTable \in Tables
      /\ Group \in Seq(Nat) /\ Ascending(Group)
      /\ ToSet(Group) = {n \in ToSet(Leading) : limit # 0 => n < limit}
  BY <1>0, GroupIs
<1>l. Later = groups /\ \A n : n \in Left <=> \E g \in groups : n \in ToSet(g)
  BY <1>0, LeftIs DEF Later
<1>2. /\ StoreInv' /\ ChargeExact' /\ ResultIsTrue'
  BY <1>0, SameKept, SameAnswer
<1>3. FramingInv' /\ OrderInv' /\ PlacedInv' /\ OutcomeInv'
  BY <1>0 DEF FramingInv, OrderInv, PlacedInv, OutcomeInv, Drained, InHand, StartGroup
<1>4. LimitInv'
  BY <1>0 DEF LimitInv
<1>t. \A g : TableOf(g)' = TableOf(g)
  BY <1>0 DEF TableOf
<1>5. CASE Group = <<>>
  <2>1. groups' = groups \ {Leading} /\ UNCHANGED <<rows, take, held, again, pc>>
    BY <1>5 DEF StartGroup
  <2>2. TypeOK'
    BY <1>0, <2>1 DEF TypeOK, Numbers
  <2>3. ~Writing' /\ Later' = groups'
    BY <1>0, <2>1 DEF Writing, Later
  <2>4. \A n : n \in Left' <=> \E g \in groups' : n \in ToSet(g)
    BY <2>3 DEF Left
  <2>5. \A n : n \in ToSet(Leading) => ~(limit # 0 => n < limit)
    <3>1. ToSet(Group) = {}
      BY <1>5 DEF ToSet
    <3> QED
      BY <3>1, <1>g
  <2>6. \A n \in ToSet(chunk) : (limit # 0 => n < limit) => n \in Stored \/ n \in Left'
    BY <1>0, <1>l, <2>1, <2>4, <2>5 DEF GroupsInv
  <2>7. GroupsInv'
    BY <1>0, <1>l, <1>t, <2>1, <2>3, <2>6 DEF GroupsInv
  <2> QED
    BY <1>0, <1>2, <1>3, <1>4, <2>1, <2>2, <2>3, <2>7 DEF IInv
<1>6. CASE Group # <<>>
  <2>1. /\ rows' = Group /\ take' = Len(Group) /\ held' = FALSE /\ again' = FALSE
        /\ pc' = "write" /\ groups' = groups
    BY <1>6 DEF StartGroup
  <2>2. /\ Len(Group) \in 1..Len(Group) /\ Group \in Seq(Numbers)
    <3>1. Len(Group) \in Nat /\ Len(Group) # 0
      BY <1>6, <1>g, EmptySeq, LenProperties
    <3>2. ToSet(Group) \subseteq Numbers
      BY <1>f, <1>g
    <3>3. Group \in Seq(Numbers)
      BY <1>f, <1>g, <3>2, OfNumbers
    <3> QED
      BY <3>1, <3>3
  <2>3. TypeOK'
    <3>1. TypeOK /\ Numbers' = Numbers
      BY <1>0 DEF Numbers
    <3>2. rows' \in Seq(Numbers) /\ take' \in 0..Len(rows')
      BY <2>1, <2>2
    <3> QED
      BY <1>0, <2>1, <3>1, <3>2 DEF TypeOK
  <2>4. Leading' = Leading /\ Group' = Group /\ GroupTable' = GroupTable
    BY <1>0, <2>1 DEF Leading, Group, GroupTable
  <2>5. Writing' /\ Later' = groups \ {Leading}
    BY <2>1, <2>4 DEF Writing, Later
  <2>6. \A n : n \in Left' <=> n \in ToSet(Group) \/ \E g \in groups \ {Leading} : n \in ToSet(g)
    BY <2>1, <2>5 DEF Left
  <2>7. \A n \in ToSet(chunk) : (limit # 0 => n < limit) => n \in Stored \/ n \in Left'
    BY <1>0, <1>l, <1>g, <2>6 DEF GroupsInv
  <2>8. GroupsInv'
    BY <1>0, <1>l, <1>t, <2>1, <2>5, <2>7 DEF GroupsInv
  <2>9. RowsInv'
    <3>1. Precedes(ToSet(durable[GroupTable]), ToSet(Group))
      BY <1>0, <1>g, <1>l DEF GroupsInv, Precedes
    <3> QED
      BY <1>0, <1>g, <2>1, <2>2, <2>4, <3>1 DEF RowsInv
  <2> QED
    BY <1>2, <1>3, <1>4, <2>3, <2>8, <2>9 DEF IInv
<1> QED
  BY <1>5, <1>6

LEMMA BackoffEndsKeeps ==
    ASSUME IInv, BackoffEnds
    PROVE  IInv'
<1> USE DEF framing, chunking, writing, store
<1>0. /\ TypeOK /\ FramingInv /\ OrderInv /\ PlacedInv /\ OutcomeInv /\ StoreInv /\ ChargeExact
      /\ ResultIsTrue /\ GroupsInv /\ LimitInv /\ RowsInv /\ Stored' = Stored
      /\ Writing' /\ Writing
  BY SameStore DEF IInv, BackoffEnds, Writing
<1>1. TypeOK'
  BY <1>0 DEF TypeOK, BackoffEnds, Numbers
<1>2. /\ StoreInv' /\ ChargeExact' /\ ResultIsTrue'
  BY <1>0, SameKept, SameAnswer DEF BackoffEnds
<1>3. FramingInv' /\ OrderInv' /\ PlacedInv' /\ OutcomeInv'
  BY <1>0 DEF FramingInv, OrderInv, PlacedInv, OutcomeInv, Drained, InHand, BackoffEnds
<1>4. GroupsInv' /\ LimitInv' /\ RowsInv'
  BY <1>0, SameChunk DEF BackoffEnds
<1> QED
  BY <1>1, <1>2, <1>3, <1>4 DEF IInv

\* The last step of the calling goroutine, when it stages nothing.
LEMMA AnswerKeeps ==
    ASSUME IInv, pc # "done", pc' = "done", result' \in Results, result' # Nothing, ResultIsTrue',
           faults' \in 0..MaxFaults,
           UNCHANGED <<stream, cancelled, framing, queue, chunking, writing, store>>
    PROVE  IInv'
<1> USE DEF framing, chunking, writing, store
<1>0. /\ TypeOK /\ FramingInv /\ OrderInv /\ PlacedInv /\ OutcomeInv /\ StoreInv /\ ChargeExact
      /\ Stored' = Stored
  BY SameStore DEF IInv
<1>1. TypeOK'
  BY <1>0 DEF TypeOK, Numbers
<1>2. StoreInv' /\ ChargeExact'
  BY <1>0, SameKept
<1>3. FramingInv' /\ OrderInv' /\ PlacedInv' /\ OutcomeInv'
  BY <1>0 DEF FramingInv, OrderInv, PlacedInv, OutcomeInv, Drained, InHand
<1> QED
  BY <1>1, <1>2, <1>3 DEF IInv, Writing

LEMMA StopKeeps ==
    ASSUME IInv, WriteStopped \/ WaitStopped
    PROVE  IInv'
<1>1. /\ pc # "done" /\ pc' = "done" /\ result' = Nil /\ cancelled /\ UNCHANGED faults
      /\ UNCHANGED <<stream, cancelled, framing, queue, chunking, writing, store>>
  BY DEF WriteStopped, WaitStopped, Return
<1>2. ResultIsTrue'
  BY <1>1, StoppedAnswer
<1>3. faults' \in 0..MaxFaults /\ result' \in Results /\ result' # Nothing
  BY <1>1 DEF IInv, TypeOK, Results, Nil, Nothing
<1> QED
  BY <1>1, <1>2, <1>3, AnswerKeeps

LEMMA ChunkWrittenKeeps ==
    ASSUME IInv, ChunkWritten
    PROVE  IInv'
<1> USE DEF framing, store
<1>0. /\ TypeOK /\ FramingInv /\ OrderInv /\ PlacedInv /\ OutcomeInv /\ StoreInv /\ ChargeExact
      /\ ResultIsTrue /\ GroupsInv /\ LimitInv /\ Stored' = Stored
      /\ pc = "next" /\ ~Writing /\ groups = {}
      /\ UNCHANGED <<stream, cancelled, framing, queue, outcome, writing, store, faults>>
  BY SameStore DEF IInv, ChunkWritten, Writing
<1>f. /\ Numbers = 1..Len(stream) /\ Numbers \subseteq Nat /\ Len(stream) \in Nat /\ framed \in Nat
      /\ ToSet(chunk) \subseteq Numbers /\ limit \in Nat /\ framed <= Len(stream)
      /\ \A n : IsDurable(n)' <=> n \in Stored
  BY <1>0, Facts, SameStore, DurableIsStored DEF TypeOK
<1>1. \A n \in ToSet(chunk) : (limit # 0 => n < limit) => n \in Stored
  <2>1. \A n : n \notin Left
    BY <1>0, LeftIs DEF Later
  <2> QED
    BY <1>0, <2>1 DEF GroupsInv
<1>2. CASE failure # Nothing /\ Return(failure) /\ UNCHANGED chunk
  <2>1. /\ limit # 0 /\ result' = Refusal(limit) /\ limit \in ToSet(chunk)
        /\ stream[limit].fate # "good"
        /\ \A n \in Stored : n >= limit => stream[n].table # stream[limit].table
    BY <1>0, <1>2 DEF LimitInv, Return
  <2>2. limit <= framed
    BY <1>0, <1>f, <2>1 DEF OrderInv
  <2>3. ASSUME NEW n \in Numbers, n < limit PROVE n \in Stored
    <3>1. n \in 1..framed /\ n # framed
      BY <1>f, <2>2, <2>3
    <3>2. n \notin ToSet(queue)
      <4>1. ASSUME n \in ToSet(queue) PROVE limit < n
        BY <1>0, <2>1, <4>1 DEF OrderInv, Precedes
      <4> QED
        BY <4>1, <2>3, <1>f
    <3> QED
      BY <1>0, <1>1, <2>3, <3>1, <3>2 DEF PlacedInv
  <2>4. ResultIsTrue'
    <3>1. result'.at = limit /\ result' # Nil
      BY <2>1 DEF Refusal, Nil
    <3>2. NilMeansAll'
      BY <3>1 DEF NilMeansAll
    <3>3. NothingBeforeIsMissing'
      BY <1>0, <1>f, <2>3, <3>1 DEF NothingBeforeIsMissing, Numbers
    <3>4. NamesTheCulprit'
      <4>1. ASSUME NEW n \in limit..Len(stream), stream[n].table = stream[limit].table
            PROVE  n \notin Stored
        BY <1>f, <2>1, <4>1
      <4> QED
        BY <1>0, <1>f, <2>1, <3>1, <4>1 DEF NamesTheCulprit
    <3> QED
      BY <3>2, <3>3, <3>4 DEF ResultIsTrue
  <2>5. result' \in Results /\ result' # Nothing /\ pc' = "done"
    BY <1>0, <1>2 DEF TypeOK, Return
  <2>6. faults' \in 0..MaxFaults
    BY <1>0 DEF TypeOK
  <2> QED
    BY <1>0, <1>2, <2>4, <2>5, <2>6, AnswerKeeps DEF chunking
<1>3. ASSUME failure = Nothing
      PROVE  limit = 0 /\ ToSet(chunk) \subseteq Stored
  <2>1. limit = 0
    BY <1>0, <1>3 DEF LimitInv, Nothing, Refusal
  <2> QED
    BY <1>1, <2>1
<1>4. CASE failure = Nothing /\ outcome = "more" /\ chunk' = <<>> /\ pc' = "first" /\ UNCHANGED result
  <2>1. ToSet(chunk') = {} /\ Ascending(chunk') /\ chunk' \in Seq(Numbers) /\ Len(chunk') = 0
    BY <1>4, EmptySeq DEF ToSet, Ascending
  <2>2. TypeOK'
    <3>1. Len(chunk') <= ChunkMaxRecords
      BY <2>1, LimitsAssumption
    <3> QED
      BY <1>0, <1>4, <2>1, <3>1 DEF TypeOK, Numbers, writing
  <2>3. StoreInv' /\ ChargeExact' /\ ResultIsTrue'
    BY <1>0, <1>4, SameKept, SameAnswer
  <2>4. FramingInv' /\ OutcomeInv'
    BY <1>0, <1>4 DEF FramingInv, OutcomeInv, Drained
  <2>5. OrderInv'
    BY <1>0, <1>4, <2>1 DEF OrderInv, Precedes, InHand
  <2>6. PlacedInv'
    BY <1>0, <1>3, <1>4 DEF PlacedInv, InHand
  <2> QED
    BY <1>4, <2>2, <2>3, <2>4, <2>5, <2>6 DEF IInv, Writing
<1>5. CASE failure = Nothing /\ outcome = "stopped" /\ Return(Nil) /\ UNCHANGED chunk
  <2>1. cancelled' /\ result' = Nil
    BY <1>0, <1>5 DEF OutcomeInv, Return
  <2>2. ResultIsTrue'
    BY <2>1, StoppedAnswer
  <2>3. faults' \in 0..MaxFaults /\ result' \in Results /\ result' # Nothing
    BY <1>0, <2>1 DEF TypeOK, Results, Nil, Nothing
  <2> QED
    BY <1>0, <1>5, <2>2, <2>3, AnswerKeeps DEF chunking, Return
<1>6. CASE /\ failure = Nothing /\ outcome = "ended"
           /\ Return(IF readErr = 0 THEN Nil ELSE Refusal(readErr)) /\ UNCHANGED chunk
  <2>1. queue = <<>> /\ framer = "closed" /\ ToSet(queue) = {}
    BY <1>0, <1>6 DEF OutcomeInv, Drained, ToSet
  <2>2. \A n \in 1..framed : n \in Stored \/ (n = framed /\ (readErr # 0 \/ cancelled))
    BY <1>0, <1>3, <1>6, <2>1 DEF PlacedInv, InHand
  <2>3. ResultIsTrue' /\ result' \in Results /\ result' # Nothing
    <3>1. CASE readErr = 0
      <4>1. result' = Nil
        BY <1>6, <3>1 DEF Return
      <4>2. ~cancelled => framed = Len(stream)
        BY <1>0, <2>1, <3>1 DEF FramingInv
      <4>3. NilMeansAll'
        BY <1>0, <1>f, <2>2, <3>1, <4>2 DEF NilMeansAll, Numbers
      <4> QED
        BY <4>1, <4>3 DEF ResultIsTrue, NothingBeforeIsMissing, NamesTheCulprit, Nil, Nothing, Results
    <3>2. CASE readErr # 0
      <4>1. result' = Refusal(readErr) /\ readErr \in Nat \ {0} /\ readErr = framed
            /\ stream[readErr].fate = "unframed" /\ InHand
        BY <1>0, <1>6, <3>2 DEF Return, FramingInv, TypeOK, InHand
      <4>2. NothingBeforeIsMissing'
        <5>1. \A n \in Numbers : n < framed => n \in 1..framed /\ n # framed
          BY <1>f
        <5> QED
          BY <1>0, <1>f, <2>2, <4>1, <5>1 DEF NothingBeforeIsMissing, Numbers, Refusal
      <4>3. NamesTheCulprit'
        <5>1. \A n \in framed..Len(stream) : n \notin Stored
          BY <1>0, <1>f, <4>1 DEF OrderInv
        <5> QED
          BY <1>0, <1>f, <4>1, <5>1 DEF NamesTheCulprit, Refusal
      <4> QED
        BY <4>1, <4>2, <4>3 DEF ResultIsTrue, NilMeansAll, Refusal, Nil, Nothing, Results
    <3> QED
      BY <3>1, <3>2
  <2>4. faults' \in 0..MaxFaults
    BY <1>0 DEF TypeOK
  <2> QED
    BY <1>0, <1>6, <2>3, <2>4, AnswerKeeps DEF chunking, Return
<1> QED
  BY <1>2, <1>4, <1>5, <1>6 DEF ChunkWritten

-----------------------------------------------------------------------------
(***************************************************************************)
(* Writing a group.                                                        *)
(***************************************************************************)

\* What a batch that is accepted leaves in staging.
LEMMA StageIs ==
    ASSUME IInv, pc = "write", Staging, Stage(Attempt), UNCHANGED stream
    PROVE  /\ durable' \in [Tables -> Seq(Numbers)]
           /\ Stored' = Stored \union ToSet(Attempt)
           /\ ToSet(durable'[GroupTable]) = ToSet(durable[GroupTable]) \union ToSet(Attempt)
           /\ \A t \in Tables : t # GroupTable => durable'[t] = durable[t]
           /\ \A t \in Tables : /\ Ascending(durable'[t])
                                /\ \A n \in ToSet(durable'[t]) : stream[n].table = t
                                /\ ToSet(durable[t]) \subseteq ToSet(durable'[t])
           /\ ToSet(Attempt) \subseteq ToSet(chunk)
           /\ ToSet(Attempt) \subseteq ToSet(Group)
           /\ Precedes(ToSet(durable[GroupTable]), ToSet(Attempt))
           /\ \A n \in ToSet(Attempt) : n \notin Stored
           /\ NoneRefused(rows)
<1>0. TypeOK /\ StoreInv /\ GroupsInv /\ LimitInv /\ RowsInv /\ groups # {}
  BY DEF IInv, Writing, RowsInv
<1>a. /\ Attempt \in Seq(Nat) /\ Ascending(Attempt) /\ ToSet(Attempt) \subseteq ToSet(rows)
      /\ take = Len(rows) => Attempt = rows
  BY <1>0, AttemptIs
<1>g. /\ GroupTable \in Tables /\ ToSet(Group) \subseteq ToSet(Leading)
      /\ ToSet(Leading) \subseteq ToSet(chunk)
      /\ \A n \in ToSet(Leading) : stream[n].table = GroupTable
  BY <1>0, GroupIs
<1>r. /\ ToSet(rows) \subseteq ToSet(Group)
      /\ Precedes(ToSet(durable[GroupTable]), ToSet(rows))
      /\ NoneRefused(rows) \/ (rows = Group /\ take = Len(rows))
  BY <1>0 DEF RowsInv
<1>f. /\ Numbers \subseteq Nat /\ ToSet(chunk) \subseteq Numbers /\ Stored \subseteq Numbers
      /\ \A t \in Tables : durable[t] \in Seq(Nat)
      /\ durable \in [Tables -> Seq(Numbers)]
  BY <1>0, Facts DEF TypeOK
<1>1. /\ ToSet(Attempt) \subseteq ToSet(Group) /\ ToSet(Attempt) \subseteq ToSet(chunk)
      /\ ToSet(Attempt) \subseteq Numbers
      /\ \A n \in ToSet(Attempt) : stream[n].table = GroupTable
      /\ Precedes(ToSet(durable[GroupTable]), ToSet(Attempt))
  BY <1>a, <1>g, <1>r, <1>f DEF Precedes
<1>2. NoneRefused(rows)
  <2>1. NoneRefused(Attempt)
    BY <1>a, RefusedIs DEF Staging
  <2> QED
    BY <1>a, <1>r, <2>1
<1>3. durable' = [durable EXCEPT ![GroupTable] = @ \o Attempt]
  BY DEF Stage
<1> DEFINE d == durable[GroupTable]
<1>4. /\ d \o Attempt \in Seq(Numbers)
      /\ ToSet(d \o Attempt) = ToSet(d) \union ToSet(Attempt)
      /\ Ascending(d \o Attempt)
  <2>1. d \in Seq(Nat) /\ d \in Seq(Numbers) /\ Ascending(d)
    BY <1>0, <1>f, <1>g DEF StoreInv
  <2>2. Attempt \in Seq(Numbers)
    BY <1>a, <1>f, <1>1, OfNumbers
  <2>3. d \o Attempt \in Seq(Numbers)
    BY <2>1, <2>2, ConcatProperties
  <2> HIDE DEF d
  <2>4. Precedes(ToSet(d), ToSet(Attempt))
    BY <1>1 DEF d
  <2> QED
    BY <1>a, <2>1, <2>3, <2>4, Joined
<1>5. /\ durable'[GroupTable] = d \o Attempt
      /\ \A t \in Tables : t # GroupTable => durable'[t] = durable[t]
      /\ durable' \in [Tables -> Seq(Numbers)]
  BY <1>3, <1>4, <1>f, <1>g
<1> HIDE DEF d
<1>6. ASSUME NEW t \in Tables
      PROVE  /\ Ascending(durable'[t])
             /\ \A n \in ToSet(durable'[t]) : stream[n].table = t
             /\ ToSet(durable[t]) \subseteq ToSet(durable'[t])
             /\ ToSet(durable'[t]) = ToSet(durable[t]) \union (IF t = GroupTable THEN ToSet(Attempt) ELSE {})
  <2>1. CASE t = GroupTable
    BY <1>0, <1>1, <1>4, <1>5, <2>1 DEF d, StoreInv
  <2>2. CASE t # GroupTable
    BY <1>0, <1>5, <2>2 DEF StoreInv
  <2> QED
    BY <2>1, <2>2
<1>7. Stored' = Stored \union ToSet(Attempt)
  <2>1. \A n : n \in Stored' <=> \E t \in Tables : n \in ToSet(durable'[t])
    BY DEF Stored
  <2>2. \A n : n \in Stored <=> \E t \in Tables : n \in ToSet(durable[t])
    BY DEF Stored
  <2>3. \A n : n \in Stored' <=> n \in Stored \/ n \in ToSet(Attempt)
    BY <1>6, <1>g, <2>1, <2>2
  <2> QED
    BY <2>3
<1>8. \A n \in ToSet(Attempt) : n \notin Stored
  <2>1. ASSUME NEW n \in ToSet(Attempt), NEW t \in Tables, n \in ToSet(durable[t]) PROVE FALSE
    <3>1. t = GroupTable
      BY <1>0, <1>1, <2>1 DEF StoreInv
    <3>2. n < n /\ n \in Nat
      BY <1>1, <1>f, <2>1, <3>1 DEF Precedes
    <3> QED
      BY <3>2
  <2> QED
    BY <2>1 DEF Stored
<1> QED
  BY <1>1, <1>2, <1>4, <1>5, <1>6, <1>7, <1>8 DEF d

LEMMA UncommittedIs ==
    ASSUME TypeOK, StoreInv
    PROVE  /\ IsFiniteSet(Uncommitted) /\ Uncommitted \subseteq Stored
           /\ \A t \in Tables : \A n \in ToSet(pending[t]) : stream[n].table = t
<1>1. \A t \in Tables : ToSet(pending[t]) \subseteq ToSet(durable[t])
  BY DEF StoreInv
<1>2. Uncommitted \subseteq Stored
  BY <1>1 DEF Uncommitted, Stored
<1>3. Uncommitted \subseteq 1..Len(stream) /\ Len(stream) \in Nat
  BY <1>2, Facts
<1>4. IsFiniteSet(1..Len(stream))
  BY <1>3, FS_Interval
<1>5. IsFiniteSet(Uncommitted)
  BY <1>3, <1>4, FS_Subset
<1> QED
  BY <1>1, <1>2, <1>5 DEF StoreInv

\* Two sets of records without a record in common, one of them a batch.
LEMMA Together ==
    ASSUME TypeOK, NEW S, IsFiniteSet(S), NEW b \in Seq(Nat), Ascending(b),
           \A n \in ToSet(b) : n \notin S
    PROVE  /\ Cardinality(S) \in Nat /\ Cardinality(S \union ToSet(b)) = Cardinality(S) + Len(b)
           /\ Weight(S) \in Nat /\ Bytes(b) \in Nat
           /\ Weight(S \union ToSet(b)) = Weight(S) + Bytes(b)
<1>1. IsFiniteSet(ToSet(b)) /\ Cardinality(ToSet(b)) = Len(b) /\ Len(b) \in Nat
  BY AscendingLength
<1>2. S \cap ToSet(b) = {}
  OBVIOUS
<1>3. Cardinality(S \union ToSet(b)) = Cardinality(S) + Cardinality(ToSet(b)) - Cardinality(S \cap ToSet(b))
  BY <1>1, FS_Union
<1>4. Cardinality({}) = 0 /\ Cardinality(S) \in Nat
  BY FS_EmptySet, FS_CardinalityType
<1>5. stream \in Seq(Record)
  BY Facts
<1>6. /\ WeightIn(stream, S) \in Nat
      /\ WeightIn(stream, S \union ToSet(b)) = WeightIn(stream, S) + WeightIn(stream, ToSet(b))
  BY <1>5, WeightAdds
<1>7. WeightIn(stream, ToSet(b)) \in Nat
  <2>1. \A n \in {} : n \notin ToSet(b)
    OBVIOUS
  <2> QED
    BY <1>5, <2>1, WeightAdds
<1>8. Cardinality(S \union ToSet(b)) = Cardinality(S) + Len(b)
  <2>1. Cardinality(S \cap ToSet(b)) = 0
    BY <1>2, <1>4
  <2> QED
    BY <1>1, <1>3, <1>4, <2>1
<1>9. /\ Weight(S) \in Nat /\ Bytes(b) \in Nat
      /\ Weight(S \union ToSet(b)) = Weight(S) + Bytes(b)
  BY <1>6, <1>7 DEF Weight, Bytes
<1> QED
  BY <1>4, <1>8, <1>9

LEMMA ChargeKeeps ==
    ASSUME IInv, pc = "write", Staging, Stage(Attempt), Charge(Attempt), UNCHANGED stream
    PROVE  /\ pending' \in [Tables -> Seq(Numbers)] /\ StoreInv' /\ ChargeExact'
           /\ charged' \in [records : 0..StagingMaxRecords, bytes : 0..StagingMaxBytes]
<1>0. TypeOK /\ StoreInv /\ GroupsInv /\ RowsInv /\ ChargeExact /\ groups # {}
  BY DEF IInv, Writing, RowsInv
<1>s. /\ ToSet(durable'[GroupTable]) = ToSet(durable[GroupTable]) \union ToSet(Attempt)
      /\ \A t \in Tables : /\ Ascending(durable'[t])
                           /\ \A n \in ToSet(durable'[t]) : stream[n].table = t
                           /\ ToSet(durable[t]) \subseteq ToSet(durable'[t])
      /\ ToSet(Attempt) \subseteq ToSet(chunk)
      /\ Precedes(ToSet(durable[GroupTable]), ToSet(Attempt))
      /\ \A n \in ToSet(Attempt) : n \notin Stored
  BY StageIs
<1>a. Attempt \in Seq(Nat) /\ Ascending(Attempt)
  BY <1>0, AttemptIs
<1>f. /\ Numbers \subseteq Nat /\ ToSet(chunk) \subseteq Numbers
      /\ pending \in [Tables -> Seq(Numbers)]
      /\ \A t \in Tables : pending[t] \in Seq(Nat)
      /\ GroupTable \in Tables
  BY <1>0, Facts, GroupIs DEF TypeOK
<1> DEFINE q == pending[GroupTable]
<1>1. /\ q \o Attempt \in Seq(Numbers) /\ ToSet(q \o Attempt) = ToSet(q) \union ToSet(Attempt)
      /\ Ascending(q \o Attempt)
  <2>1. /\ q \in Seq(Nat) /\ q \in Seq(Numbers) /\ Ascending(q)
        /\ ToSet(q) \subseteq ToSet(durable[GroupTable])
    BY <1>0, <1>f DEF StoreInv
  <2>2. Attempt \in Seq(Numbers)
    <3>1. ToSet(Attempt) \subseteq Numbers
      BY <1>f, <1>s
    <3> QED
      BY <1>a, <1>f, <3>1, OfNumbers
  <2>3. q \o Attempt \in Seq(Numbers)
    BY <2>1, <2>2, ConcatProperties
  <2>4. Precedes(ToSet(q), ToSet(Attempt))
    BY <1>s, <2>1 DEF Precedes
  <2> HIDE DEF q
  <2> QED
    BY <1>a, <2>1, <2>3, <2>4, Joined
<1>2. /\ pending' \in [Tables -> Seq(Numbers)]
      /\ pending'[GroupTable] = q \o Attempt
      /\ \A t \in Tables : t # GroupTable => pending'[t] = pending[t]
  BY <1>1, <1>f DEF Charge
<1>3. StoreInv'
  <2>1. ASSUME NEW t \in Tables
        PROVE  Ascending(pending'[t]) /\ ToSet(pending'[t]) \subseteq ToSet(durable'[t])
    <3>1. CASE t = GroupTable
      BY <1>0, <1>1, <1>2, <1>s, <3>1 DEF StoreInv
    <3>2. CASE t # GroupTable
      BY <1>0, <1>2, <1>s, <3>2 DEF StoreInv
    <3> QED
      BY <3>1, <3>2
  <2> QED
    BY <1>s, <2>1 DEF StoreInv
<1>4. Uncommitted' = Uncommitted \union ToSet(Attempt)
  <2>1. \A n : n \in Uncommitted' <=> \E t \in Tables : n \in ToSet(pending'[t])
    BY DEF Uncommitted
  <2>2. \A n : n \in Uncommitted <=> \E t \in Tables : n \in ToSet(pending[t])
    BY DEF Uncommitted
  <2>3. \A n : n \in Uncommitted' <=> n \in Uncommitted \/ n \in ToSet(Attempt)
    BY <1>1, <1>2, <1>f, <2>1, <2>2
  <2> QED
    BY <2>3
<1>5. IsFiniteSet(Uncommitted) /\ \A n \in ToSet(Attempt) : n \notin Uncommitted
  BY <1>0, <1>s, UncommittedIs
<1>6. /\ Cardinality(Uncommitted) \in Nat /\ Weight(Uncommitted) \in Nat /\ Bytes(Attempt) \in Nat
      /\ Cardinality(Uncommitted \union ToSet(Attempt)) = Cardinality(Uncommitted) + Len(Attempt)
      /\ Weight(Uncommitted \union ToSet(Attempt)) = Weight(Uncommitted) + Bytes(Attempt)
  BY <1>0, <1>5, <1>a, Together
<1>7. \A S : Weight(S)' = Weight(S)
  BY DEF Weight
<1>8. charged' = [records |-> charged.records + Len(Attempt), bytes |-> charged.bytes + Bytes(Attempt)]
  BY DEF Charge
<1>9. charged.records = Cardinality(Uncommitted) /\ charged.bytes = Weight(Uncommitted)
  BY <1>0 DEF ChargeExact
<1>10. ChargeExact'
  BY <1>4, <1>6, <1>7, <1>8, <1>9 DEF ChargeExact
<1>11. charged' \in [records : 0..StagingMaxRecords, bytes : 0..StagingMaxBytes]
  <2>1. /\ charged.records + Len(Attempt) <= StagingMaxRecords
        /\ charged.bytes + Bytes(Attempt) <= StagingMaxBytes
    BY DEF Staging, Room
  <2>2. Len(Attempt) \in Nat /\ StagingMaxRecords \in Nat /\ StagingMaxBytes \in Nat
    BY <1>a, LimitsAssumption
  <2>3. /\ charged.records + Len(Attempt) \in 0..StagingMaxRecords
        /\ charged.bytes + Bytes(Attempt) \in 0..StagingMaxBytes
    BY <1>6, <1>9, <2>1, <2>2
  <2> QED
    BY <1>8, <2>3
<1> QED
  BY <1>2, <1>3, <1>10, <1>11

LEMMA WriteAcceptedKeeps ==
    ASSUME IInv, WriteAccepted
    PROVE  IInv'
<1> USE DEF framing, chunking, store
<1> DEFINE rest == SubSeq(rows, take + 1, Len(rows))
<1>0. /\ TypeOK /\ FramingInv /\ OrderInv /\ PlacedInv /\ OutcomeInv /\ GroupsInv /\ LimitInv /\ RowsInv
      /\ pc = "write" /\ Writing /\ groups # {} /\ result = Nothing
  BY DEF IInv, WriteAccepted, Writing, RowsInv, OutcomeInv
<1>u. /\ UNCHANGED <<stream, cancelled, framing, queue, chunking, limit, failure, again, faults, result>>
      /\ Staging /\ Stage(Attempt) /\ Charge(Attempt) /\ held' = FALSE
      /\ rows' = rest /\ take' = Len(rest)
      /\ IF rest = <<>> THEN pc' = "next" /\ groups' = groups \ {Leading}
                        ELSE UNCHANGED <<pc, groups>>
  BY DEF WriteAccepted, Staging
<1>s. /\ durable' \in [Tables -> Seq(Numbers)]
      /\ Stored' = Stored \union ToSet(Attempt)
      /\ ToSet(durable'[GroupTable]) = ToSet(durable[GroupTable]) \union ToSet(Attempt)
      /\ \A t \in Tables : t # GroupTable => durable'[t] = durable[t]
      /\ ToSet(Attempt) \subseteq ToSet(chunk)
      /\ ToSet(Attempt) \subseteq ToSet(Group)
      /\ NoneRefused(rows)
  BY <1>0, <1>u, StageIs
<1>c. /\ pending' \in [Tables -> Seq(Numbers)] /\ StoreInv' /\ ChargeExact'
      /\ charged' \in [records : 0..StagingMaxRecords, bytes : 0..StagingMaxBytes]
  BY <1>0, <1>u, ChargeKeeps
<1>a. /\ rest \in Seq(Nat) /\ Len(rest) \in Nat
      /\ ToSet(rows) = ToSet(Attempt) \union ToSet(rest)
      /\ Ascending(rest) /\ Precedes(ToSet(Attempt), ToSet(rest))
  BY <1>0, AttemptIs, LenProperties
<1>g. /\ Leading \in groups /\ GroupTable = TableOf(Leading) /\ GroupTable \in Tables
      /\ ToSet(Group) = {n \in ToSet(Leading) : limit # 0 => n < limit}
      /\ ToSet(Leading) \subseteq ToSet(chunk)
  BY <1>0, GroupIs
<1>f. Numbers \subseteq Nat /\ ToSet(rows) \subseteq Numbers /\ \A g \in groups : g \in Seq(Nat) /\ g # <<>>
      /\ ToSet(g) \subseteq ToSet(chunk) /\ \A n \in ToSet(chunk) : stream[n].table \in Tables
  BY <1>0, <1>g, Facts DEF RowsInv, GroupsInv
<1>l. limit \in Nat /\ ToSet(chunk) \subseteq Nat
  <2>1. limit \in Nat
    BY <1>0 DEF TypeOK
  <2> QED
    BY <1>0, <2>1, Facts
<1> HIDE DEF rest
<1>1. TypeOK'
  <2>1. TypeOK /\ Numbers' = Numbers
    BY <1>0, <1>u DEF Numbers
  <2>2. rest \in Seq(Numbers) /\ take' \in 0..Len(rows')
    <3>1. ToSet(rest) \subseteq Numbers
      BY <1>f, <1>a
    <3>2. rest \in Seq(Numbers)
      BY <3>1, <1>a, <1>f, OfNumbers
    <3> QED
      BY <3>2, <1>u, <1>a
  <2>3. pc' \in {"next", "write"} /\ groups' \subseteq groups /\ held' \in BOOLEAN
    BY <1>0, <1>u
  <2> QED
    BY <1>u, <1>s, <1>c, <2>1, <2>2, <2>3 DEF TypeOK
<1>2. ResultIsTrue'
  BY <1>0, <1>u, NoAnswer
<1>3. FramingInv' /\ OutcomeInv' /\ PlacedInv'
  BY <1>0, <1>u, <1>s DEF FramingInv, OutcomeInv, PlacedInv, Drained, InHand
<1>4. OrderInv'
  <2>1. ToSet(chunk) \union Stored' = ToSet(chunk) \union Stored
    BY <1>s
  <2>2. pc' \notin {"first", "drain", "group"}
    BY <1>0, <1>u
  <2> QED
    BY <1>0, <1>u, <2>1, <2>2 DEF OrderInv, InHand
<1>5. LimitInv'
  <2>1. ASSUME limit # 0, NEW n \in ToSet(Attempt) PROVE ~(n >= limit)
    <3>1. limit \in Nat /\ n \in Nat /\ n < limit
      <4>1. limit \in Nat /\ ToSet(chunk) \subseteq Nat
        BY <1>l
      <4> QED
        BY <4>1, <1>s, <1>g, <2>1
    <3> QED
      BY <3>1
  <2> QED
    BY <1>0, <1>u, <1>s, <2>1 DEF LimitInv
<1>t. \A g : TableOf(g)' = TableOf(g)
  BY <1>u DEF TableOf
<1>6. \A g \in groups \ {Leading} : Precedes(ToSet(durable'[TableOf(g)]), ToSet(g))
  <2>1. ASSUME NEW g \in groups \ {Leading}
        PROVE  Precedes(ToSet(durable'[TableOf(g)]), ToSet(g))
    <3>1. TableOf(g) # GroupTable
      BY <1>0, <1>g DEF GroupsInv
    <3>2. TableOf(g) \in Tables
      <4>1. Head(g) \in ToSet(g)
        BY <1>f, HeadTail
      <4> QED
        BY <4>1, <1>f DEF TableOf
    <3>3. Precedes(ToSet(durable[TableOf(g)]), ToSet(g))
      BY <1>0 DEF GroupsInv, Later
    <3> QED
      BY <1>s, <3>1, <3>2, <3>3
  <2> QED
    BY <2>1
<1>7. \A n \in ToSet(chunk) : (limit # 0 => n < limit) =>
         n \in Stored' \/ n \in ToSet(rest) \/ \E g \in groups \ {Leading} : n \in ToSet(g)
  BY <1>0, <1>a, <1>s, LeftIs DEF GroupsInv, Later
<1>8. CASE rest = <<>>
  <2>1. ~Writing' /\ pc' = "next" /\ groups' = groups \ {Leading} /\ Later' = groups'
    BY <1>u, <1>8 DEF Writing, Later
  <2>2. ToSet(rest) = {} /\ \A n : n \in Left' <=> \E g \in groups' : n \in ToSet(g)
    BY <1>8, <2>1 DEF Left, ToSet
  <2>3. GroupsInv'
    BY <1>0, <1>u, <1>t, <1>6, <1>7, <2>1, <2>2 DEF GroupsInv
  <2> QED
    BY <1>c, <1>1, <1>2, <1>3, <1>4, <1>5, <2>1, <2>3 DEF IInv
<1>9. CASE rest # <<>>
  <2>1. pc' = "write" /\ groups' = groups /\ Leading' = Leading /\ Group' = Group /\ GroupTable' = GroupTable
    BY <1>0, <1>u, <1>9 DEF Leading, Group, GroupTable
  <2>2. Writing' /\ Later' = groups \ {Leading}
    BY <2>1 DEF Writing, Later
  <2>3. \A n : n \in Left' <=> n \in ToSet(rest) \/ \E g \in groups \ {Leading} : n \in ToSet(g)
    BY <1>u, <2>2 DEF Left
  <2>4. GroupsInv'
    BY <1>0, <1>u, <1>t, <1>6, <1>7, <2>1, <2>2, <2>3 DEF GroupsInv
  <2>5. RowsInv'
    <3>1. Len(rest) \in 1..Len(rest)
      BY <1>9, <1>a, EmptySeq
    <3>2. ToSet(rest) \subseteq ToSet(Group)
      BY <1>0, <1>a DEF RowsInv
    <3>3. Precedes(ToSet(durable'[GroupTable]), ToSet(rest))
      BY <1>0, <1>a, <1>s DEF RowsInv, Precedes
    <3>4. NoneRefused(rows)'
      BY <1>s, <1>a, <1>u DEF NoneRefused
    <3>5. groups' # {}
      BY <1>0, <2>1
    <3> QED
      BY <1>u, <1>a, <2>1, <3>1, <3>2, <3>3, <3>4, <3>5 DEF RowsInv
  <2> QED
    BY <1>c, <1>1, <1>2, <1>3, <1>4, <1>5, <2>4, <2>5 DEF IInv
<1> QED
  BY <1>8, <1>9

LEMMA WriteFullKeeps ==
    ASSUME IInv, WriteFull
    PROVE  IInv'
<1> USE DEF framing, chunking, store
<1>0. /\ TypeOK /\ FramingInv /\ OrderInv /\ PlacedInv /\ OutcomeInv /\ StoreInv /\ ChargeExact
      /\ ResultIsTrue /\ GroupsInv /\ LimitInv /\ RowsInv /\ Stored' = Stored
      /\ Writing /\ Writing' /\ pc = "write" /\ pc' \in {"write", "wait"}
      /\ UNCHANGED <<stream, cancelled, framing, queue, chunking, groups, limit, failure, rows,
                     again, store, faults, result>>
  BY SameStore DEF IInv, WriteFull, Writing
<1>1. take' \in 1..Len(rows)
  <2>1. take \in 1..Len(rows) /\ Len(rows) \in Nat
    BY <1>0, Facts DEF RowsInv
  <2> QED
    BY <2>1 DEF WriteFull, MayHalve
<1>2. TypeOK'
  <2>1. held' \in BOOLEAN
    <3>1. held \in BOOLEAN
      BY <1>0 DEF TypeOK
    <3> QED
      BY <3>1 DEF WriteFull
  <2>2. TypeOK /\ Numbers' = Numbers /\ take' \in 0..Len(rows')
    BY <1>0, <1>1 DEF Numbers
  <2> QED
    BY <1>0, <2>1, <2>2 DEF TypeOK
<1>3. StoreInv' /\ ChargeExact' /\ ResultIsTrue'
  BY <1>0, SameKept, SameAnswer
<1>4. FramingInv' /\ OrderInv' /\ PlacedInv' /\ OutcomeInv'
  BY <1>0 DEF FramingInv, OrderInv, PlacedInv, OutcomeInv, Drained, InHand
<1>5. GroupsInv' /\ LimitInv' /\ Group' = Group /\ GroupTable' = GroupTable
  BY <1>0, SameChunk
<1>6. NoneRefused(rows)
  <2>1. take = Len(rows) => Attempt = rows
    BY <1>0, AttemptIs
  <2>2. NoneRefused(Attempt)
    BY <1>0, AttemptIs, RefusedIs DEF WriteFull
  <2> QED
    BY <1>0, <2>1, <2>2 DEF RowsInv
<1>7. RowsInv'
  BY <1>0, <1>1, <1>5, <1>6 DEF RowsInv, NoneRefused
<1> QED
  BY <1>2, <1>3, <1>4, <1>5, <1>7 DEF IInv

\* A failure that is reported against the first record of the group.
LEMMA BlamesTheFirst ==
    ASSUME IInv, pc = "write", UNCHANGED stream, Stored \subseteq Stored',
           durable' \in [Tables -> Seq(Numbers)], result' = WriteFailed(Head(Group))
    PROVE  ResultIsTrue' /\ result' \in Results /\ result' # Nothing
<1>0. TypeOK /\ GroupsInv /\ RowsInv /\ groups # {} /\ Writing
  BY DEF IInv, Writing, RowsInv
<1>1. Head(Group) \in Numbers /\ Numbers \subseteq 1..Len(stream) /\ Len(stream) \in Nat
  <2>1. rows # <<>> /\ rows \in Seq(Nat)
    <3>1. rows \in Seq(Nat) /\ take \in 1..Len(rows)
      BY <1>0, Facts DEF RowsInv
    <3> QED
      BY <3>1, EmptySeq
  <2>2. Head(rows) \in ToSet(Group)
    BY <1>0, <2>1, HeadTail DEF RowsInv
  <2>3. ToSet(Group) # {}
    BY <2>2
  <2>4. Group # <<>>
    BY <2>3 DEF ToSet
  <2>5. Head(Group) \in ToSet(chunk)
    BY <1>0, <2>4, GroupIs
  <2> QED
    BY <1>0, <2>5, Facts
<1>2. result'.at = Head(Group) /\ result'.kind = "write" /\ result' # Nil /\ result' # Nothing
  BY DEF WriteFailed, Nil, Nothing
<1>3. \A n \in Numbers : n < Head(Group) => IsDurable(n)'
  <2>1. \A t \in Tables : \A n : n \in ToSet(durable'[t]) => Contains(durable'[t], n)
    <3>1. \A t \in Tables : durable'[t] \in Seq(Nat)
      BY <1>0, Facts, WiderSeq
    <3> QED
      BY <3>1, In DEF Contains
  <2>2. \A n : n \in Stored' => IsDurable(n)'
    BY <2>1 DEF Stored, IsDurable
  <2> QED
    BY <1>0, <2>2, BeforeGroup
<1>4. NilMeansAll' /\ NamesTheCulprit'
  BY <1>2 DEF NilMeansAll, NamesTheCulprit
<1>5. NothingBeforeIsMissing'
  BY <1>2, <1>3 DEF NothingBeforeIsMissing, Numbers
<1>6. result' \in Results
  <2>1. \A n \in Numbers : n \in Nat \ {0}
    BY <1>1
  <2>2. Head(Group) \in Nat \ {0}
    BY <1>1, <2>1, Zenon
  <2> QED
    BY <2>2 DEF Results, WriteFailed
<1> QED
  BY <1>2, <1>4, <1>5, <1>6 DEF ResultIsTrue

LEMMA WriteFailsKeeps ==
    ASSUME IInv, WriteFails
    PROVE  IInv'
<1> USE DEF framing, chunking
<1>0. /\ TypeOK /\ FramingInv /\ OrderInv /\ PlacedInv /\ OutcomeInv /\ StoreInv /\ ChargeExact
      /\ pc = "write" /\ pc' = "done" /\ result' = WriteFailed(Head(Group)) /\ faults' = faults + 1
      /\ UNCHANGED <<stream, cancelled, framing, queue, chunking, writing>>
  BY DEF IInv, WriteFails, Return
<1>1. faults' \in 0..MaxFaults
  BY <1>0, LimitsAssumption DEF WriteFails, TypeOK
<1>2. CASE UNCHANGED store \/ (Staging /\ GivenBack(Attempt) /\ UNCHANGED durable)
  <2>1. UNCHANGED store
    BY <1>2 DEF store, GivenBack
  <2>2. Stored \subseteq Stored' /\ durable' \in [Tables -> Seq(Numbers)]
    BY <1>0, <2>1, SameStore DEF store, TypeOK
  <2>3. ResultIsTrue' /\ result' \in Results /\ result' # Nothing
    BY <1>0, <2>2, BlamesTheFirst
  <2> QED
    BY <1>0, <1>1, <2>1, <2>3, AnswerKeeps
<1>3. CASE Staging /\ Stage(Attempt) /\ (GivenBack(Attempt) \/ Charge(Attempt))
  <2>1. /\ durable' \in [Tables -> Seq(Numbers)]
        /\ Stored' = Stored \union ToSet(Attempt)
        /\ \A t \in Tables : /\ Ascending(durable'[t])
                             /\ \A n \in ToSet(durable'[t]) : stream[n].table = t
                             /\ ToSet(durable[t]) \subseteq ToSet(durable'[t])
        /\ ToSet(Attempt) \subseteq ToSet(chunk)
    BY <1>0, <1>3, StageIs
  <2>2. /\ pending' \in [Tables -> Seq(Numbers)] /\ StoreInv' /\ ChargeExact'
        /\ charged' \in [records : 0..StagingMaxRecords, bytes : 0..StagingMaxBytes]
    <3>1. CASE Charge(Attempt)
      BY <1>0, <1>3, <3>1, ChargeKeeps
    <3>2. CASE GivenBack(Attempt)
      <4>1. UNCHANGED <<stream, pending, charged>>
        BY <1>0, <3>2 DEF GivenBack
      <4>2. StoreInv'
        BY <1>0, <2>1, <4>1 DEF StoreInv
      <4>3. ChargeExact'
        <5>1. Uncommitted' = Uncommitted
          BY <4>1 DEF Uncommitted
        <5> QED
          BY <1>0, <4>1, <5>1 DEF ChargeExact, Weight
      <4> QED
        BY <1>0, <4>1, <4>2, <4>3 DEF TypeOK
    <3> QED
      BY <1>3, <3>1, <3>2
  <2>3. ResultIsTrue' /\ result' \in Results /\ result' # Nothing
    BY <1>0, <2>1, BlamesTheFirst
  <2>4. TypeOK'
    <3>1. TypeOK /\ Numbers' = Numbers
      BY <1>0 DEF Numbers
    <3> QED
      BY <1>0, <1>1, <2>1, <2>2, <2>3, <3>1 DEF TypeOK, writing
  <2>5. FramingInv' /\ PlacedInv' /\ OutcomeInv'
    BY <1>0, <2>1, <2>3 DEF FramingInv, PlacedInv, OutcomeInv, Drained, InHand
  <2>6. OrderInv'
    <3>1. ToSet(chunk) \union Stored' = ToSet(chunk) \union Stored
      BY <2>1
    <3> QED
      BY <1>0, <3>1 DEF OrderInv, InHand
  <2> QED
    BY <1>0, <2>2, <2>3, <2>4, <2>5, <2>6 DEF IInv, Writing
<1> QED
  BY <1>2, <1>3 DEF WriteFails

LEMMA WriteRefusedKeeps ==
    ASSUME IInv, WriteRefused
    PROVE  IInv'
<1> USE DEF framing, chunking, store
<1>0. /\ TypeOK /\ FramingInv /\ OrderInv /\ PlacedInv /\ OutcomeInv /\ StoreInv /\ ChargeExact
      /\ ResultIsTrue /\ GroupsInv /\ LimitInv /\ RowsInv /\ Stored' = Stored
      /\ Writing /\ pc = "write" /\ groups # {} /\ RefusedIn(Attempt) # 0
      /\ UNCHANGED <<stream, cancelled, framing, queue, chunking, store, faults>>
  BY SameStore DEF IInv, WriteRefused, Writing, RowsInv
<1>1. CASE again
  <2>1. /\ pc' = "done" /\ result' = WriteFailed(Head(Group)) /\ UNCHANGED writing
    BY <1>1 DEF WriteRefused, Return, writing
  <2>2. ResultIsTrue' /\ result' \in Results /\ result' # Nothing
    <3>1. Stored \subseteq Stored' /\ durable' \in [Tables -> Seq(Numbers)]
      BY <1>0 DEF TypeOK
    <3> QED
      BY <1>0, <2>1, <3>1, BlamesTheFirst
  <2>3. faults' \in 0..MaxFaults
    BY <1>0 DEF TypeOK
  <2> QED
    BY <1>0, <2>1, <2>2, <2>3, AnswerKeeps
<1>2. CASE ~again
  <2> DEFINE b == Blamed
             cut == CutAt(b)
  <2>g. /\ Leading \in groups /\ GroupTable = TableOf(Leading) /\ GroupTable \in Tables
        /\ Leading \in Seq(Nat) /\ Ascending(Leading)
        /\ Group \in Seq(Nat)
        /\ ToSet(Group) = {n \in ToSet(Leading) : limit # 0 => n < limit}
        /\ ToSet(Leading) \subseteq ToSet(chunk)
        /\ \A n \in ToSet(Leading) : stream[n].table = GroupTable
    BY <1>0, GroupIs
  <2>f. /\ Numbers = 1..Len(stream) /\ Len(stream) \in Nat /\ Numbers \subseteq Nat
        /\ ToSet(chunk) \subseteq Numbers /\ limit \in Nat /\ Stored \subseteq Numbers
        /\ \A t \in Tables : durable[t] \in Seq(Nat)
    <3>1. limit \in Nat
      BY <1>0 DEF TypeOK
    <3> QED
      BY <1>0, <3>1, Facts
  <2>1. rows = Group /\ Attempt = Group
    <3>1. /\ Attempt \in Seq(Nat) /\ ToSet(Attempt) \subseteq ToSet(rows)
          /\ take = Len(rows) => Attempt = rows
      BY <1>0, AttemptIs
    <3>2. ~NoneRefused(rows)
      <4> DEFINE k == RefusedIn(Attempt)
      <4>1. k \in 1..Len(Attempt) /\ stream[Attempt[k]].fate = "refused"
        BY <1>0, <3>1, RefusedIs
      <4> HIDE DEF k
      <4>2. Attempt[k] \in ToSet(Attempt)
        BY <3>1, <4>1, In
      <4> QED
        BY <3>1, <4>1, <4>2 DEF NoneRefused
    <3> QED
      BY <1>0, <3>1, <3>2 DEF RowsInv
  <2>2. b \in ToSet(Group) /\ stream[b].fate = "refused"
    <3> DEFINE k == RefusedIn(Attempt)
    <3>1. k \in 1..Len(Group) /\ stream[Group[k]].fate = "refused"
      BY <1>0, <2>g, <2>1, RefusedIs
    <3>2. b = Group[k]
      BY DEF Blamed
    <3> HIDE DEF k, b
    <3> QED
      BY <2>g, <3>1, <3>2, In
  <2>c. cut = UpTo(Leading, b)
    BY DEF CutAt
  <2>u. /\ limit' = b /\ failure' = Refusal(b)
        /\ rows' = cut /\ take' = Len(cut) /\ held' = FALSE /\ again' = (cut # <<>>)
        /\ IF cut = <<>> THEN pc' = "next" /\ groups' = groups \ {Leading}
                         ELSE UNCHANGED <<pc, groups>>
        /\ UNCHANGED result
    BY <1>0, <1>2 DEF WriteRefused
  <2> HIDE DEF b, cut
  <2>3. b \in ToSet(chunk) /\ b \in Numbers /\ b # 0 /\ b \in Nat /\ (limit # 0 => b < limit)
    BY <2>f, <2>g, <2>2
  <2>4. /\ cut \in Seq(Nat) /\ Ascending(cut)
        /\ ToSet(cut) = {n \in ToSet(Leading) : n < b}
    <3>1. /\ cut \in Seq(Nat) /\ Ascending(cut)
          /\ ToSet(cut) = {n \in ToSet(Leading) : b # 0 => n < b}
      BY <2>g, <2>c, <2>3, UpToIs
    <3> QED
      BY <2>3, <3>1
  <2>5. TypeOK'
    <3>1. TypeOK /\ Numbers' = Numbers
      BY <1>0 DEF Numbers
    <3>2. cut \in Seq(Numbers) /\ take' \in 0..Len(rows')
      <4>1. ToSet(cut) \subseteq Numbers
        BY <2>f, <2>g, <2>4
      <4>2. cut \in Seq(Numbers)
        BY <2>f, <2>4, <4>1, OfNumbers
      <4>3. Len(cut) \in 0..Len(cut)
        BY <2>4, LenProperties
      <4> QED
        BY <2>u, <4>2, <4>3
    <3>3. pc' \in {"next", "write"} /\ groups' \subseteq groups
      BY <1>0, <2>u
    <3>4. failure' \in Results /\ limit' \in 0..Len(stream)
      BY <2>f, <2>u, <2>3 DEF Results, Refusal
    <3> QED
      BY <1>0, <2>u, <3>1, <3>2, <3>3, <3>4 DEF TypeOK
  <2>6. StoreInv' /\ ChargeExact' /\ ResultIsTrue'
    BY <1>0, <2>u, SameKept, SameAnswer
  <2>7. FramingInv' /\ OrderInv' /\ PlacedInv' /\ OutcomeInv'
    BY <1>0, <2>u DEF FramingInv, OrderInv, PlacedInv, OutcomeInv, Drained, InHand
  <2>8. Precedes(ToSet(durable[GroupTable]), ToSet(Group))
    BY <1>0, <2>1 DEF RowsInv
  <2>9. LimitInv'
    <3>1. ASSUME NEW n \in Stored, n >= b, stream[n].table = stream[b].table PROVE FALSE
      <4>1. PICK t \in Tables : n \in ToSet(durable[t])
        BY DEF Stored
      <4>2. t = GroupTable
        BY <1>0, <2>g, <2>2, <3>1, <4>1 DEF StoreInv
      <4>3. n < b
        BY <2>2, <2>8, <4>1, <4>2 DEF Precedes
      <4> QED
        BY <2>f, <2>3, <3>1, <4>3
    <3> QED
      BY <1>0, <2>u, <2>2, <2>3, <3>1 DEF LimitInv
  <2>t. \A g : TableOf(g)' = TableOf(g)
    BY <1>0 DEF TableOf
  <2>10. \A n \in ToSet(chunk) : n < b =>
            n \in Stored \/ n \in ToSet(cut) \/ \E g \in groups \ {Leading} : n \in ToSet(g)
    <3>1. ASSUME NEW n \in ToSet(chunk), n < b
          PROVE  n \in Stored \/ n \in ToSet(cut) \/ \E g \in groups \ {Leading} : n \in ToSet(g)
      <4>1. limit # 0 => n < limit
        BY <2>f, <2>3, <3>1
      <4>2. n \in Stored \/ n \in Left
        BY <1>0, <4>1 DEF GroupsInv
      <4>3. n \in ToSet(Group) => n \in ToSet(cut)
        BY <2>g, <2>4, <3>1
      <4> QED
        BY <1>0, <2>1, <4>2, <4>3, LeftIs DEF Later
    <3> QED
      BY <3>1
  <2>11. \A g \in groups \ {Leading} : Precedes(ToSet(durable[TableOf(g)]), ToSet(g))
    BY <1>0 DEF GroupsInv, Later
  <2>12. CASE cut = <<>>
    <3>1. ~Writing' /\ pc' = "next" /\ groups' = groups \ {Leading} /\ Later' = groups'
      BY <2>u, <2>12 DEF Writing, Later
    <3>2. ToSet(cut) = {} /\ \A n : n \in Left' <=> \E g \in groups' : n \in ToSet(g)
      BY <2>12, <3>1 DEF Left, ToSet
    <3>3. GroupsInv'
      BY <1>0, <2>u, <2>t, <2>3, <2>10, <2>11, <3>1, <3>2 DEF GroupsInv
    <3> QED
      BY <2>5, <2>6, <2>7, <2>9, <3>1, <3>3 DEF IInv
  <2>13. CASE cut # <<>>
    <3>1. pc' = "write" /\ groups' = groups /\ Leading' = Leading /\ GroupTable' = GroupTable
      BY <1>0, <2>u, <2>13 DEF Leading, GroupTable
    <3>2. Group' = cut
      BY <2>u, <2>c, <3>1 DEF Group
    <3>3. Writing' /\ Later' = groups \ {Leading}
      BY <3>1 DEF Writing, Later
    <3>4. \A n : n \in Left' <=> n \in ToSet(cut) \/ \E g \in groups \ {Leading} : n \in ToSet(g)
      BY <2>u, <3>3 DEF Left
    <3>5. GroupsInv'
      BY <1>0, <2>u, <2>t, <2>3, <2>10, <2>11, <3>1, <3>3, <3>4 DEF GroupsInv
    <3>6. RowsInv'
      <4>1. Len(cut) \in 1..Len(cut)
        BY <2>4, <2>13, EmptySeq
      <4>2. Precedes(ToSet(durable[GroupTable]), ToSet(cut))
        BY <2>f, <2>g, <2>3, <2>4, <2>8 DEF Precedes
      <4>3. groups' # {}
        BY <1>0, <3>1
      <4> QED
        BY <1>0, <2>u, <2>4, <3>1, <3>2, <4>1, <4>2, <4>3 DEF RowsInv
    <3> QED
      BY <2>5, <2>6, <2>7, <2>9, <3>5, <3>6 DEF IInv
  <2> QED
    BY <2>12, <2>13
<1> QED
  BY <1>1, <1>2

-----------------------------------------------------------------------------
(***************************************************************************)
(* A worker gives back what it has committed.                              *)
(***************************************************************************)

LEMMA CommitKeeps ==
    ASSUME IInv, NEW t \in Tables, Commit(t)
    PROVE  IInv'
<1> USE DEF framing, chunking, writing
<1> DEFINE q == pending[t]
<1>0. /\ TypeOK /\ FramingInv /\ OrderInv /\ PlacedInv /\ OutcomeInv /\ StoreInv /\ ChargeExact
      /\ ResultIsTrue
  BY DEF IInv
<1>1. PICK k \in 1..Len(q) :
         /\ Release(SubSeq(q, 1, k))
         /\ pending' = [pending EXCEPT ![t] = SubSeq(@, k + 1, Len(@))]
         /\ UNCHANGED <<stream, cancelled, framing, queue, pc, chunking, writing, durable, faults, result>>
  BY DEF Commit
<1> DEFINE b == Before(q, k)
           r == After(q, k)
<1>q. /\ q \in Seq(Nat) /\ q \in Seq(Numbers) /\ Ascending(q)
      /\ ToSet(q) \subseteq ToSet(durable[t]) /\ Len(q) \in Nat
      /\ pending \in [Tables -> Seq(Numbers)] /\ Numbers \subseteq Nat
  BY <1>0, Facts, LenProperties DEF StoreInv, TypeOK
<1>2. /\ b \in Seq(Nat) /\ Len(b) = k /\ r \in Seq(Nat)
      /\ ToSet(q) = ToSet(b) \union ToSet(r)
      /\ Ascending(b) /\ Ascending(r) /\ Precedes(ToSet(b), ToSet(r))
  <2> HIDE DEF q
  <2>1. k \in 0..Len(q)
    BY <1>q
  <2> QED
    BY <1>q, <2>1, Cut
<1>3. Release(b) /\ pending' = [pending EXCEPT ![t] = r]
  BY <1>1 DEF Before, After
<1>4. r \in Seq(Numbers)
  <2>1. q \in Seq(Numbers) => ToSet(q) \subseteq Numbers
    BY <1>q, OfNumbers
  <2>2. ToSet(r) \subseteq Numbers
    BY <1>q, <1>2, <2>1
  <2> HIDE DEF r
  <2> QED
    BY <1>q, <1>2, <2>2, OfNumbers
<1> HIDE DEF b, r
<1>5. /\ pending' \in [Tables -> Seq(Numbers)] /\ pending'[t] = r
      /\ \A u \in Tables : u # t => pending'[u] = pending[u]
  BY <1>3, <1>4, <1>q
<1>6. Uncommitted = Uncommitted' \union ToSet(b)
  <2>1. \A n : n \in Uncommitted' <=> \E u \in Tables : n \in ToSet(pending'[u])
    BY DEF Uncommitted
  <2>2. \A n : n \in Uncommitted <=> \E u \in Tables : n \in ToSet(pending[u])
    BY DEF Uncommitted
  <2>3. \A n : n \in Uncommitted <=> n \in Uncommitted' \/ n \in ToSet(b)
    BY <1>2, <1>5, <2>1, <2>2
  <2> QED
    BY <2>3
<1>7. \A n \in ToSet(b) : n \notin Uncommitted'
  <2>1. ASSUME NEW n \in ToSet(b), NEW u \in Tables, n \in ToSet(pending'[u]) PROVE FALSE
    <3>1. n \in Nat /\ n \in ToSet(pending[t])
      <4>1. ToSet(b) \subseteq Nat
        BY <1>2, Slice
      <4> QED
        BY <4>1, <1>2
    <3>2. stream[n].table = t
      BY <1>0, <3>1, UncommittedIs
    <3>3. CASE u = t
      <4>1. n < n
        BY <1>2, <1>5, <2>1, <3>3 DEF Precedes
      <4> QED
        BY <3>1, <4>1
    <3>4. CASE u # t
      <4>1. n \in ToSet(pending[u])
        BY <1>5, <2>1, <3>4
      <4>2. stream[n].table = u
        BY <1>0, <4>1, UncommittedIs
      <4> QED
        BY <3>2, <3>4, <4>2
    <3> QED
      BY <3>3, <3>4
  <2> QED
    BY <2>1 DEF Uncommitted
<1>8. /\ Cardinality(Uncommitted') \in Nat /\ Weight(Uncommitted') \in Nat /\ Bytes(b) \in Nat
      /\ Cardinality(Uncommitted) = Cardinality(Uncommitted') + Len(b)
      /\ Weight(Uncommitted) = Weight(Uncommitted') + Bytes(b)
  <2>1. IsFiniteSet(Uncommitted')
    <3>1. IsFiniteSet(Uncommitted)
      BY <1>0, UncommittedIs
    <3>2. Uncommitted' \subseteq Uncommitted
      BY <1>6
    <3> QED
      BY <3>1, <3>2, FS_Subset
  <2> DEFINE U == Uncommitted'
  <2> HIDE DEF U
  <2>2. /\ Cardinality(U) \in Nat /\ Cardinality(U \union ToSet(b)) = Cardinality(U) + Len(b)
        /\ Weight(U) \in Nat /\ Bytes(b) \in Nat
        /\ Weight(U \union ToSet(b)) = Weight(U) + Bytes(b)
    <3>1. IsFiniteSet(U) /\ \A n \in ToSet(b) : n \notin U
      BY <1>7, <2>1 DEF U
    <3> QED
      BY <1>0, <1>2, <3>1, Together
  <2> QED
    BY <1>6, <2>2 DEF U
<1>9. /\ charged.records = Cardinality(Uncommitted) /\ charged.bytes = Weight(Uncommitted)
      /\ charged \in [records : 0..StagingMaxRecords, bytes : 0..StagingMaxBytes]
  BY <1>0 DEF ChargeExact, TypeOK
<1>10. charged' = [records |-> Cardinality(Uncommitted'), bytes |-> Weight(Uncommitted')]
  <2>1. /\ Less(charged.records, Len(b)) = Cardinality(Uncommitted')
        /\ Less(charged.bytes, Bytes(b)) = Weight(Uncommitted')
    <3>1. Len(b) \in Nat
      BY <1>2
    <3> QED
      BY <1>8, <1>9, <3>1 DEF Less
  <2> QED
    BY <1>3, <2>1 DEF Release
<1>11. ChargeExact'
  <2>1. Weight(Uncommitted)' = WeightIn(stream, Uncommitted') /\ Weight(Uncommitted') = WeightIn(stream, Uncommitted')
    BY <1>1 DEF Weight
  <2> QED
    BY <1>10, <2>1 DEF ChargeExact
<1>12. charged' \in [records : 0..StagingMaxRecords, bytes : 0..StagingMaxBytes]
  <2>1. Len(b) \in Nat /\ StagingMaxRecords \in Nat /\ StagingMaxBytes \in Nat
    BY <1>2, LimitsAssumption
  <2>2. /\ Cardinality(Uncommitted') <= Cardinality(Uncommitted)
        /\ Weight(Uncommitted') <= Weight(Uncommitted)
    BY <1>8, <2>1
  <2>3. /\ Cardinality(Uncommitted) \in 0..StagingMaxRecords
        /\ Weight(Uncommitted) \in 0..StagingMaxBytes
    BY <1>9
  <2>4. /\ Cardinality(Uncommitted') \in 0..StagingMaxRecords
        /\ Weight(Uncommitted') \in 0..StagingMaxBytes
    BY <1>8, <2>1, <2>2, <2>3
  <2> QED
    BY <1>10, <2>4
<1>13. TypeOK'
  <2>1. TypeOK /\ Numbers' = Numbers
    BY <1>0, <1>1 DEF Numbers
  <2> QED
    BY <1>1, <1>5, <1>12, <2>1 DEF TypeOK
<1>14. StoreInv'
  <2>1. ASSUME NEW u \in Tables
        PROVE  Ascending(pending'[u]) /\ ToSet(pending'[u]) \subseteq ToSet(durable[u])
    <3>1. CASE u = t
      BY <1>q, <1>2, <1>5, <3>1
    <3>2. CASE u # t
      BY <1>0, <1>5, <3>2 DEF StoreInv
    <3> QED
      BY <3>1, <3>2
  <2> QED
    BY <1>0, <1>1, <2>1 DEF StoreInv
<1>15. Stored' = Stored /\ ResultIsTrue'
  BY <1>0, <1>1, SameStore, SameAnswer
<1>16. FramingInv' /\ OrderInv' /\ PlacedInv' /\ OutcomeInv'
  BY <1>0, <1>1, <1>15 DEF FramingInv, OrderInv, PlacedInv, OutcomeInv, Drained, InHand
<1>17. /\ Writing' <=> Writing
       /\ GroupsInv => GroupsInv'
       /\ LimitInv => LimitInv'
       /\ RowsInv => RowsInv'
  <2>1. Writing' <=> Writing
    BY <1>1 DEF Writing
  <2> QED
    BY <1>1, <2>1, SameChunk
<1> QED
  BY <1>1, <1>11, <1>13, <1>14, <1>15, <1>16, <1>17 DEF IInv

-----------------------------------------------------------------------------
(***************************************************************************)
(* The invariant, and what follows from it.                                *)
(***************************************************************************)

LEMMA StepKeeps ==
    ASSUME IInv, [Next]_vars
    PROVE  IInv'
<1>1. CASE Framing
  BY <1>1, FrameKeeps, SendKeeps, FramerStopsKeeps DEF Framing
<1>2. CASE Calling
  BY <1>2, FirstRecordKeeps, DrainQueueKeeps, GroupChunkKeeps, StartGroupKeeps, ChunkWrittenKeeps,
     WriteAcceptedKeeps, WriteFullKeeps, WriteRefusedKeeps, WriteFailsKeeps, StopKeeps,
     BackoffEndsKeeps DEF Calling
<1>3. CASE \E t \in Tables : Commit(t)
  BY <1>3, CommitKeeps
<1>4. CASE Cancel
  BY <1>4, CancelKeeps
<1>5. CASE UNCHANGED vars
  <2> USE <1>5 DEF vars, framing, chunking, writing, store
  <2>0. /\ TypeOK /\ FramingInv /\ OrderInv /\ PlacedInv /\ OutcomeInv /\ Stored' = Stored
    BY SameStore DEF IInv
  <2>1. TypeOK'
    BY <2>0 DEF TypeOK, Numbers
  <2>2. /\ StoreInv' /\ ChargeExact' /\ ResultIsTrue'
        /\ pc' \in {"next", "write", "wait"} => GroupsInv' /\ LimitInv'
        /\ Writing' => RowsInv'
    BY AroundTheChunk
  <2>3. FramingInv' /\ OrderInv' /\ PlacedInv' /\ OutcomeInv'
    BY <2>0 DEF FramingInv, OrderInv, PlacedInv, OutcomeInv, Drained, InHand
  <2> QED
    BY <2>1, <2>2, <2>3 DEF IInv
<1> QED
  BY <1>1, <1>2, <1>3, <1>4, <1>5 DEF Next

\* The inductive invariant holds in every state of every run of the ingest.
THEOREM Inductive == Spec => []IInv
<1>1. Init => IInv
  BY Starts
<1>2. IInv /\ [Next]_vars => IInv'
  BY StepKeeps
<1> QED
  BY <1>1, <1>2, PTL DEF Spec

\* The state of IngestStream, of the framing goroutine and of the store's
\* counters is what it is declared to be: the channel never holds more than its
\* buffer, a chunk never more than its bound, and the counters never pass the
\* ceiling of the staging database.
THEOREM TypeCorrect == Spec => []TypeOK
<1>1. IInv => TypeOK
  BY DEF IInv
<1> QED
  BY <1>1, Inductive, PTL

\* The answer of IngestStream is true, for every stream, every way of cutting it
\* into chunks and every failure met: nil without a cancellation means that the
\* whole stream is in staging; an error that names a record leaves none before
\* it out; and a refusal names a record that is at fault, with no later record
\* of its table written.
THEOREM AnswersTruly == Spec => []ResultIsTrue
<1>1. IInv => ResultIsTrue
  BY DEF IInv
<1> QED
  BY <1>1, Inductive, PTL

\* A table's records enter staging once each, in the order of the stream.
THEOREM StagedOnceInOrder == Spec => []OnceInOrder
<1>1. IInv => OnceInOrder
  BY DEF IInv, StoreInv, Ascending, OnceInOrder
<1> QED
  BY <1>1, Inductive, PTL

\* The counters charge exactly the records the writers hold, so a commit never
\* meets the floor at zero.
THEOREM ChargedExactly == Spec => []ChargeExact
<1>1. IInv => ChargeExact
  BY DEF IInv
<1> QED
  BY <1>1, Inductive, PTL

=============================================================================
