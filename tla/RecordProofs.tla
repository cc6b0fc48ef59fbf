---------------------------- MODULE RecordProofs ----------------------------
(***************************************************************************)
(* What is declared, for every struct, every document and every limit; how *)
(* a stream is cut, for every input, every limit and every reader; and     *)
(* what becomes of a record, for every width, every shape and every value. *)
(*                                                                         *)
(* The argument.  A shape that a store is open with has its columns in the *)
(* order of their ids, which run from one: every way of declaring it, and  *)
(* of reading its descriptor, gives it back.  A mirror's name is two parts *)
(* around a separator neither has, of which the second does not begin with *)
(* the separator's character, so it can be taken apart in one way only.    *)
(*                                                                         *)
(* The scanner's buffer is a window on the input.  Before it lie records,  *)
(* each where the one before it said to look, and white space, whose       *)
(* newlines have been counted; a buffer that is full holds more of one     *)
(* record than is ever accepted.                                           *)
(*                                                                         *)
(* A record that is accepted is the row it was bound to, moved by field id *)
(* to the shape it is in now: each value is what was meant, the payload is *)
(* that row's encoding, and a payload is read back column by column as the *)
(* row it was written from.  What a door reads of a value does not depend  *)
(* on the spelling, up to the rounding of a double.                        *)
(***************************************************************************)
EXTENDS Declarations, Framing, Records, SequenceTheorems, FiniteSetTheorems, WellFoundedInduction, TLAPS

-----------------------------------------------------------------------------
(***************************************************************************)
(* Sets of numbers, and functions that are defined by recursion.           *)
(***************************************************************************)

LEMMA LeastOf ==
    ASSUME NEW S, S \subseteq Nat, S # {}
    PROVE  \E m \in S : \A y \in S : m <= y
<1>1. IsWellFoundedOn(OpToRel(<, Nat), Nat)
  BY NatLessThanWellFounded
<1>2. PICK x \in S : \A y \in S : ~(<<y, x>> \in OpToRel(<, Nat))
  BY <1>1, WFMin
<1>3. ASSUME NEW y \in S PROVE x <= y
  <2>1. x \in Nat /\ y \in Nat
    OBVIOUS
  <2>2. ~(y < x)
    BY <1>2, <2>1 DEF OpToRel
  <2> QED
    BY <2>1, <2>2
<1> QED
  BY <1>3

LEMMA Climbing ==
    ASSUME NEW n \in Nat, NEW S, 0 \in S, \A i \in 1..n : i - 1 \in S => i \in S
    PROVE  \A i \in 0..n : i \in S
<1> DEFINE B == {i \in 0..n : i \notin S}
<1> SUFFICES ASSUME B # {} PROVE FALSE
  OBVIOUS
<1>1. PICK m \in B : \A y \in B : m <= y
  <2>1. B \subseteq Nat
    OBVIOUS
  <2> QED
    BY <2>1, LeastOf
<1>2. m \in 1..n
  BY <1>1
<1>3. m - 1 \in 0..n /\ ~(m <= m - 1)
  BY <1>2
<1>4. m - 1 \in S
  BY <1>1, <1>3
<1> QED
  BY <1>1, <1>2, <1>4

\* The function that a start and a step define.
Rules(n, S) == [1..n -> [S -> S]]
Obeys(f, n, S, base, rule) ==
    f \in [0..n -> S] /\ f[0] = base /\ \A i \in 1..n : f[i] = rule[i][f[i - 1]]

LEMMA Recursive ==
    ASSUME NEW n \in Nat, NEW S, NEW base \in S, NEW rule \in Rules(n, S)
    PROVE  \E f : Obeys(f, n, S, base, rule)
<1> USE DEF Rules
<1> DEFINE Upto(m) == {f \in [0..m -> S] : f[0] = base /\ \A i \in 1..m : f[i] = rule[i][f[i - 1]]}
           R == {m \in 0..n : Upto(m) # {}}
<1>1. 0 \in R
  <2>1. [i \in 0..0 |-> base] \in Upto(0)
    OBVIOUS
  <2> QED
    BY <2>1
<1>2. ASSUME NEW m \in 1..n, m - 1 \in R PROVE m \in R
  <2>1. PICK f \in Upto(m - 1) : TRUE
    BY <1>2
  <2>2. /\ f \in [0..m - 1 -> S] /\ f[0] = base
        /\ \A i \in 1..m - 1 : f[i] = rule[i][f[i - 1]]
    BY <2>1
  <2>3. m - 1 \in 0..m - 1 /\ f[m - 1] \in S /\ rule[m] \in [S -> S]
    BY <2>2
  <2>4. rule[m][f[m - 1]] \in S
    BY <2>3
  <2> DEFINE g == [i \in 0..m |-> IF i = m THEN rule[m][f[m - 1]] ELSE f[i]]
  <2>5. \A i \in 0..m - 1 : i \in 0..m /\ i # m /\ g[i] = f[i] /\ f[i] \in S
    BY <2>2
  <2>6. g[m] = rule[m][f[m - 1]]
    OBVIOUS
  <2>7. g \in [0..m -> S]
    <3>1. \A i \in 0..m : i = m \/ i \in 0..m - 1
      OBVIOUS
    <3> QED
      BY <3>1, <2>4, <2>5, <2>6
  <2> HIDE DEF g
  <2>8. g[0] = base
    <3>1. 0 \in 0..m - 1
      OBVIOUS
    <3> QED
      BY <3>1, <2>2, <2>5
  <2>9. ASSUME NEW i \in 1..m PROVE g[i] = rule[i][g[i - 1]]
    <3>1. i - 1 \in 0..m - 1 /\ g[i - 1] = f[i - 1]
      BY <2>5
    <3>2. CASE i = m
      BY <3>1, <3>2, <2>6
    <3>3. CASE i # m
      <4>1. i \in 1..m - 1 /\ i \in 0..m - 1
        BY <3>3
      <4> QED
        BY <3>1, <4>1, <2>2, <2>5
    <3> QED
      BY <3>2, <3>3
  <2>10. g \in Upto(m)
    BY <2>7, <2>8, <2>9
  <2> QED
    BY <2>10
<1> HIDE DEF R
<1>3. \A m \in 0..n : m \in R
  BY <1>1, <1>2, Climbing
<1> QED
  BY <1>3 DEF R, Obeys

-----------------------------------------------------------------------------
(***************************************************************************)
(* The outcome of several parts.                                           *)
(***************************************************************************)

LEMMA EveryIs ==
    ASSUME NEW n \in Nat, NEW parts, DOMAIN parts = 1..n
    PROVE  /\ (\A i \in 1..n : parts[i].why = "none") =>
                Every(parts) = Accepted([i \in 1..n |-> parts[i].x])
           /\ Every(parts).why = "none" => \A i \in 1..n : parts[i].why = "none"
<1>1. (\A i \in 1..n : parts[i].why = "none") => Every(parts) = Accepted([i \in 1..n |-> parts[i].x])
  BY DEF Every
<1>2. ASSUME NEW k \in 1..n, parts[k].why # "none" PROVE Every(parts).why # "none"
  <2> DEFINE bad == {i \in 1..n : parts[i].why # "none"}
             P(i) == parts[i].why # "none" /\ \A j \in 1..i - 1 : parts[j].why = "none"
  <2>1. PICK m \in bad : \A y \in bad : m <= y
    <3>1. bad \subseteq 1..n /\ k \in bad
      BY <1>2, Zenon
    <3>2. 1..n \subseteq Nat
      OBVIOUS
    <3> QED
      BY <3>1, <3>2, LeastOf
  <2>2. P(m)
    <3>1. m \in 1..n /\ parts[m].why # "none"
      BY <2>1, Zenon
    <3>2. ASSUME NEW j \in 1..m - 1 PROVE parts[j].why = "none"
      <4>1. j \in 1..n /\ ~(m <= j)
        BY <3>1
      <4>2. j \notin bad
        BY <4>1, <2>1, Zenon
      <4> QED
        BY <4>1, <4>2, Zenon
    <3> QED
      BY <3>1, <3>2, Zenon
  <2>3. FirstRefusal(parts) = CHOOSE i \in DOMAIN parts : P(i)
    BY DEF FirstRefusal
  <2>4. P(FirstRefusal(parts))
    <3>1. \E i \in DOMAIN parts : P(i)
      BY <2>2
    <3> HIDE DEF P
    <3> QED
      BY <2>3, <3>1
  <2>5. Every(parts) = RefusedAs(parts[FirstRefusal(parts)].why)
    BY <1>2 DEF Every
  <2> QED
    <3>1. RefusedAs(parts[FirstRefusal(parts)].why).why = parts[FirstRefusal(parts)].why
      BY DEF RefusedAs
    <3> QED
      BY <2>4, <2>5, <3>1, Zenon
<1> QED
  BY <1>1, <1>2

(***************************************************************************)
(* Kinds and shapes.                                                       *)
(***************************************************************************)

KindNames == {"boolean", "int", "long", "float", "double", "decimal", "timestamptz", "string", "binary"}
Arrows == {"bool", "int32", "int64", "float32", "float64", "decimal", "timestamp_ms", "string", "bytes"}

LEMMA KindsAre ==
    /\ DOMAIN KindTag = KindNames /\ DOMAIN primitiveNode = KindNames
    /\ \A k \in KindNames : KindTag[k] \in 1..9 /\ KindOf(KindTag[k]) = k
    /\ \A k \in KindNames : primitiveNode[k] \in Arrows /\ IcebergKind(primitiveNode[k]) = k
    /\ \A a \in Arrows : a \notin Nested /\ IcebergKind(a) \in KindNames /\ primitiveNode[IcebergKind(a)] = a
    /\ \A a \in Arrows : a = "decimal" <=> IcebergKind(a) = "decimal"
<1>1. DOMAIN KindTag = KindNames /\ DOMAIN primitiveNode = KindNames
  BY DEF KindTag, primitiveNode, KindNames
<1>2. \A k \in KindNames : KindTag[k] \in 1..9
  BY DEF KindTag, KindNames
<1>3. \A k, l \in KindNames : KindTag[k] = KindTag[l] => k = l
  BY DEF KindTag, KindNames
<1>4. \A k \in KindNames : KindOf(KindTag[k]) = k
  BY <1>1, <1>3 DEF KindOf
<1>5. \A k \in KindNames : primitiveNode[k] \in Arrows /\ primitiveNode[k] # "timestamp_us"
  BY DEF primitiveNode, KindNames, Arrows
<1>6. \A k, l \in KindNames : primitiveNode[k] = primitiveNode[l] => k = l
  BY DEF primitiveNode, KindNames
<1>7. \A k \in KindNames : IcebergKind(primitiveNode[k]) = k
  BY <1>1, <1>5, <1>6 DEF IcebergKind
<1>8. \A a \in Arrows : \E k \in KindNames : primitiveNode[k] = a
  BY DEF primitiveNode, KindNames, Arrows
<1>9. \A a \in Arrows : a \notin Nested
  BY DEF Arrows, Nested
<1>10. \A k \in KindNames : k = "decimal" <=> primitiveNode[k] = "decimal"
  BY DEF primitiveNode, KindNames
<1> QED
  BY <1>1, <1>2, <1>4, <1>5, <1>7, <1>8, <1>9, <1>10

ColumnsOf(kinds) ==
    [id : Int, name : Seq(Nat), kind : kinds, precision : Nat, scale : Nat, required : BOOLEAN]

\* A shape with its ids in order, and one that has a descriptor.
Ordered(cols) ==
    /\ cols \in Seq(ColumnsOf(KindNames)) /\ cols # <<>>
    /\ \A i \in 1..Len(cols) : cols[i].id = i
Shapely(cols) == Ordered(cols) /\ \A i \in 1..Len(cols) : Describable(cols[i])

\* A shape is given its columns by their ids, and no other order of them is one.
LEMMA SortedIs ==
    ASSUME NEW cols, Ordered(cols)
    PROVE  /\ SortedById(cols) = cols
           /\ FromFields(cols) = newDescriptor(cols)
<1> DEFINE n == Len(cols)
           up(s) == \A i, j \in DOMAIN s : i < j => s[i].id < s[j].id
<1>1. n \in Nat /\ DOMAIN cols = 1..n /\ \A i \in 1..n : cols[i].id = i /\ cols[i] \in ToSet(cols)
  BY LenProperties DEF Ordered, ToSet
<1>2. \A f \in ToSet(cols) : f.id \in 1..n /\ f = cols[f.id]
  BY <1>1 DEF ToSet
<1>3. cols \in [1..n -> ToSet(cols)] /\ up(cols)
  <2>1. cols \in Seq(ColumnsOf(KindNames))
    BY DEF Ordered
  <2>2. cols \in [1..n -> ColumnsOf(KindNames)]
    BY <2>1, LenProperties
  <2>3. cols \in [1..n -> ToSet(cols)]
    BY <1>1, <2>2
  <2> QED
    BY <1>1, <2>3
<1>4. ASSUME NEW s \in [1..n -> ToSet(cols)], up(s) PROVE s = cols
  <2> DEFINE Low == {i \in 0..n : i = 0 \/ s[i].id >= i}
             High == {i \in 0..n : i = 0 \/ s[n + 1 - i].id <= n + 1 - i}
  <2>1. \A i \in 1..n : s[i].id \in 1..n /\ s[i] = cols[s[i].id]
    BY <1>2
  <2>2. \A i, j \in 1..n : i < j => s[i].id < s[j].id
    BY <1>4
  <2>3. \A i \in 0..n : i \in Low
    <3>1. 0 \in Low
      BY <1>1
    <3>2. ASSUME NEW i \in 1..n, i - 1 \in Low PROVE i \in Low
      <4>1. CASE i = 1
        <5>1. s[1].id \in 1..n
          BY <2>1, <4>1
        <5> QED
          BY <4>1, <5>1
      <4>2. CASE i # 1
        <5>1. i - 1 \in 1..n /\ i - 1 < i
          BY <4>2
        <5>2. s[i - 1].id < s[i].id /\ s[i].id \in 1..n /\ s[i - 1].id \in 1..n
          BY <5>1, <2>1, <2>2
        <5>3. s[i - 1].id >= i - 1
          BY <3>2, <4>2
        <5> QED
          BY <5>1, <5>2, <5>3
      <4> QED
        BY <4>1, <4>2
    <3> HIDE DEF Low
    <3> QED
      BY <1>1, <3>1, <3>2, Climbing
  <2>4. \A i \in 0..n : i \in High
    <3>1. 0 \in High
      BY <1>1
    <3>2. ASSUME NEW i \in 1..n, i - 1 \in High PROVE i \in High
      <4> DEFINE k == n + 1 - i
      <4>0. k \in 1..n /\ n + 1 - (i - 1) = k + 1
        BY <1>1
      <4>1. CASE i = 1
        <5>1. s[k].id \in 1..n /\ k = n
          BY <1>1, <2>1, <4>0, <4>1
        <5> QED
          BY <4>0, <5>1
      <4>2. CASE i # 1
        <5>1. k + 1 \in 1..n /\ k < k + 1
          BY <1>1, <4>2
        <5>2. s[k].id < s[k + 1].id /\ s[k].id \in 1..n /\ s[k + 1].id \in 1..n
          BY <4>0, <5>1, <2>1, <2>2
        <5>3. s[k + 1].id <= k + 1
          BY <3>2, <4>0, <4>2
        <5> QED
          BY <4>0, <5>2, <5>3
      <4> QED
        BY <4>1, <4>2
    <3> HIDE DEF High
    <3> QED
      BY <1>1, <3>1, <3>2, Climbing
  <2>5. ASSUME NEW i \in 1..n PROVE s[i].id = i
    <3>1. i \in 0..n /\ i # 0 /\ n + 1 - i \in 0..n /\ n + 1 - i # 0 /\ n + 1 - (n + 1 - i) = i
      BY <1>1
    <3>2. s[i].id >= i
      BY <2>3, <3>1
    <3>3. s[i].id <= i
      <4>1. n + 1 - i \in High
        BY <2>4, <3>1
      <4> QED
        BY <3>1, <4>1
    <3> QED
      BY <3>2, <3>3, <2>1
  <2>6. \A i \in 1..n : s[i] = cols[i]
    BY <2>1, <2>5
  <2> QED
    BY <1>3, <2>6
<1>5. SortedById(cols) = cols
  <2>1. SortedById(cols) = CHOOSE s \in [1..n -> ToSet(cols)] : up(s)
    BY <1>1 DEF SortedById
  <2> HIDE DEF up
  <2> QED
    BY <2>1, <1>3, <1>4
<1>6. ~ \E i, j \in DOMAIN cols : i # j /\ cols[i].id = cols[j].id
  BY <1>1
<1> QED
  BY <1>5, <1>6 DEF FromFields

LEMMA ShapelyIs ==
    ASSUME NEW cols, Ordered(cols)
    PROVE  /\ Shapely(cols) => FromFields(cols) = Accepted(cols)
           /\ FromFields(cols).why = "none" => Shapely(cols)
<1>1. DOMAIN cols = 1..Len(cols)
  BY LenProperties DEF Ordered
<1>2. FromFields(cols) = newDescriptor(cols)
  BY SortedIs
<1>3. newDescriptor(cols).why = "none" => \A i \in 1..Len(cols) : Describable(cols[i])
  BY <1>1 DEF newDescriptor, RefusedAs
<1> QED
  BY <1>1, <1>2, <1>3 DEF newDescriptor, Shapely

\* The nodes of a shape are derived back to it.
LEMMA DerivedBack ==
    ASSUME NEW cols, Ordered(cols)
    PROVE  derive([i \in DOMAIN cols |-> [cols[i] EXCEPT !.kind = primitiveNode[@]]]) = Accepted(cols)
<1> DEFINE n == Len(cols)
           nodes == [i \in DOMAIN cols |-> [cols[i] EXCEPT !.kind = primitiveNode[@]]]
<1>1. n \in Nat /\ DOMAIN cols = 1..n /\ n > 0 /\ \A i \in 1..n : cols[i] \in ColumnsOf(KindNames) /\ cols[i].id = i
  BY LenProperties, EmptySeq DEF Ordered
<1>2. ASSUME NEW i \in 1..n
      PROVE  /\ nodes[i].kind = primitiveNode[cols[i].kind]
             /\ nodes[i].id = i
             /\ [nodes[i] EXCEPT !.kind = IcebergKind(@)] = cols[i]
  <2>1. cols[i] \in ColumnsOf(KindNames) /\ cols[i].kind \in KindNames
    BY <1>1 DEF ColumnsOf
  <2>2. IcebergKind(primitiveNode[cols[i].kind]) = cols[i].kind
    BY <2>1, KindsAre
  <2>3. nodes[i] = [cols[i] EXCEPT !.kind = primitiveNode[cols[i].kind]]
    BY <1>1
  <2>4. nodes[i].kind = primitiveNode[cols[i].kind] /\ nodes[i].id = i
    BY <1>1, <2>1, <2>3 DEF ColumnsOf
  <2>5. [nodes[i] EXCEPT !.kind = IcebergKind(primitiveNode[cols[i].kind])] = cols[i]
    <3> HIDE DEF nodes
    <3> QED
      BY <2>1, <2>2, <2>3 DEF ColumnsOf
  <2> QED
    BY <2>4, <2>5
<1>3. DOMAIN nodes = 1..n /\ nodes # <<>>
  <2>1. DOMAIN nodes = 1..n /\ 1 \in DOMAIN nodes
    BY <1>1
  <2> HIDE DEF nodes
  <2> QED
    BY <2>1
<1> HIDE DEF nodes
<1>4. \A i \in DOMAIN nodes : nodes[i].kind \notin Nested
  <2>1. \A i \in 1..n : cols[i].kind \in KindNames
    BY <1>1 DEF ColumnsOf
  <2>2. \A k \in KindNames : primitiveNode[k] \notin Nested
    BY KindsAre
  <2> QED
    BY <1>2, <1>3, <2>1, <2>2
<1>5. PreorderIds(nodes)
  BY <1>2, <1>3 DEF PreorderIds
<1>6. [i \in DOMAIN nodes |-> [nodes[i] EXCEPT !.kind = IcebergKind(@)]] = cols
  <2> DEFINE back == [i \in DOMAIN nodes |-> [nodes[i] EXCEPT !.kind = IcebergKind(@)]]
  <2>1. DOMAIN back = 1..n /\ \A i \in 1..n : back[i] = cols[i]
    BY <1>2, <1>3
  <2>2. back = [i \in 1..n |-> cols[i]]
    BY <1>2, <1>3
  <2>3. cols = [i \in 1..n |-> cols[i]]
    BY <1>1, LenProperties DEF Ordered
  <2> QED
    BY <2>2, <2>3
<1>7. derive(nodes) = Accepted(cols)
  BY <1>3, <1>4, <1>5, <1>6 DEF derive
<1> QED
  BY <1>7 DEF nodes

\* A table with its names in order and such a shape, declared by its fields.
LEMMA FieldsDeclare ==
    ASSUME NEW t, ValidateName(t.namespace), ValidateName(t.table), Ordered(t.shape)
    PROVE  /\ DeclareFields(t) = Accepted(t.shape)
           /\ Shapely(t.shape) => OpenDynamicWriter(t) = Accepted(t.shape)
<1>1. DeclareFields(t) = Accepted(t.shape)
  BY DerivedBack DEF DeclareFields
<1>2. Accepted(t.shape).x = t.shape /\ Accepted(t.shape).why = "none"
  BY DEF Accepted
<1> QED
  BY <1>1, <1>2, ShapelyIs DEF OpenDynamicWriter, crossCheckSpecs

(***************************************************************************)
(* The document.                                                           *)
(***************************************************************************)

\* The columns of a document's table, and a table of one.
FieldsFit(fields) ==
    /\ fields \in Seq(DocumentFields)
    /\ \A j \in 1..Len(fields) :
          /\ fields[j].fieldid <= MaxFieldId
          /\ fields[j].type = "decimal" \/ (fields[j].precision = 0 /\ fields[j].scale = 0)

\* What is made of a column that is let through.
ColumnOf(f) == Field(f.fieldid, f.name, f.type, f.precision, f.scale, ~f.optional)
Lets(fields, i) ==
    /\ fields[i].name # <<>> /\ \A j \in 1..i - 1 : fields[j].name # fields[i].name
    /\ fields[i].fieldid = i
    /\ fields[i].type \in KindNames
    /\ fields[i].type = "decimal" =>
          fields[i].precision \in 1..MaxPrecision /\ fields[i].scale \in 0..fields[i].precision

LEMMA DocumentFieldIs ==
    ASSUME NEW fields, NEW i
    PROVE  /\ Lets(fields, i) => DocumentField(fields, i) = Accepted(ColumnOf(fields[i]))
           /\ DocumentField(fields, i).why = "none" => Lets(fields, i)
<1> DEFINE f == fields[i]
<1>1. /\ f.type \in KindNames /\ (f.type = "decimal" => f.precision \in 1..MaxPrecision /\ f.scale \in 0..f.precision)
            => ColumnType(f).why = "none"
  BY KindsAre DEF ColumnType, Accepted
<1>2. ColumnType(f).why = "none" =>
        /\ f.type \in KindNames
        /\ f.type = "decimal" => f.precision \in 1..MaxPrecision /\ f.scale \in 0..f.precision
  BY KindsAre DEF ColumnType, RefusedAs
<1> QED
  BY <1>1, <1>2 DEF DocumentField, Lets, ColumnOf, Accepted, RefusedAs

LEMMA TableSchemaIs ==
    ASSUME NEW S, NEW fields \in Seq(S)
    PROVE  /\ fields # <<>> /\ (\A i \in 1..Len(fields) : Lets(fields, i)) =>
                newTableSchema(fields) = Accepted([i \in 1..Len(fields) |-> ColumnOf(fields[i])])
           /\ newTableSchema(fields).why = "none" =>
                fields # <<>> /\ \A i \in 1..Len(fields) : Lets(fields, i)
<1> DEFINE n == Len(fields)
           parts == [i \in DOMAIN fields |-> DocumentField(fields, i)]
<1>1. n \in Nat /\ DOMAIN fields = 1..n
  BY LenProperties
<1>2. DOMAIN parts = 1..n /\ \A i \in 1..n : parts[i] = DocumentField(fields, i)
  BY <1>1
<1>3. fields # <<>> => newTableSchema(fields) = Every(parts)
  BY DEF newTableSchema
<1>4. fields = <<>> => newTableSchema(fields).why # "none"
  BY DEF newTableSchema, RefusedAs
<1> HIDE DEF parts
<1>5. ASSUME fields # <<>>, \A i \in 1..n : Lets(fields, i)
      PROVE  newTableSchema(fields) = Accepted([i \in 1..n |-> ColumnOf(fields[i])])
  <2>1. \A i \in 1..n : parts[i] = Accepted(ColumnOf(fields[i]))
    BY <1>2, <1>5, DocumentFieldIs
  <2>2. \A i \in 1..n : parts[i].why = "none" /\ parts[i].x = ColumnOf(fields[i])
    <3>1. \A x : Accepted(x).why = "none" /\ Accepted(x).x = x
      BY DEF Accepted
    <3> QED
      BY <2>1, <3>1
  <2>3. Every(parts) = Accepted([i \in 1..n |-> parts[i].x])
    BY <1>1, <1>2, <2>2, EveryIs
  <2>4. [i \in 1..n |-> parts[i].x] = [i \in 1..n |-> ColumnOf(fields[i])]
    BY <2>2
  <2> QED
    BY <1>3, <1>5, <2>3, <2>4
<1>6. ASSUME newTableSchema(fields).why = "none"
      PROVE  fields # <<>> /\ \A i \in 1..n : Lets(fields, i)
  <2>1. fields # <<>>
    BY <1>4, <1>6
  <2>2. \A i \in 1..n : parts[i].why = "none"
    BY <1>1, <1>2, <1>3, <1>6, <2>1, EveryIs
  <2> QED
    BY <1>2, <2>1, <2>2, DocumentFieldIs
<1> QED
  BY <1>5, <1>6

LEMMA SchemaIsShapely ==
    ASSUME NEW fields, FieldsFit(fields), newTableSchema(fields).why = "none"
    PROVE  /\ newTableSchema(fields) = Accepted(newTableSchema(fields).x)
           /\ Shapely(newTableSchema(fields).x)
<1> DEFINE n == Len(fields)
           cols == [i \in 1..n |-> ColumnOf(fields[i])]
<1>1. fields \in Seq(DocumentFields) /\ n \in Nat /\ DOMAIN fields = 1..n
  BY LenProperties DEF FieldsFit
<1>2. fields # <<>> /\ \A i \in 1..n : Lets(fields, i)
  BY <1>1, TableSchemaIs
<1>3. newTableSchema(fields) = Accepted(cols)
  BY <1>1, <1>2, TableSchemaIs
<1>4. ASSUME NEW i \in 1..n
      PROVE  ColumnOf(fields[i]) \in ColumnsOf(KindNames) /\ ColumnOf(fields[i]).id = i /\ Describable(ColumnOf(fields[i]))
  <2>1. fields[i] \in DocumentFields
    BY <1>1
  <2>2. /\ fields[i].name # <<>> /\ fields[i].fieldid = i /\ fields[i].type \in KindNames
        /\ fields[i].type = "decimal" =>
              fields[i].precision \in 1..MaxPrecision /\ fields[i].scale \in 0..fields[i].precision
    BY <1>2 DEF Lets
  <2>3. ColumnOf(fields[i]) \in ColumnsOf(KindNames) /\ ColumnOf(fields[i]).id = i
    BY <2>1, <2>2 DEF ColumnOf, Field, ColumnsOf, DocumentFields
  <2>4. i \in 1..MaxFieldId
    <3>1. MaxFieldId \in Nat
      BY DeclarationsAssumption
    <3>2. fields[i].fieldid <= MaxFieldId
      BY DEF FieldsFit
    <3> QED
      BY <1>1, <2>2, <3>1, <3>2
  <2>5. fields[i].type = "decimal" \/ (fields[i].precision = 0 /\ fields[i].scale = 0)
    BY DEF FieldsFit
  <2>6. Describable(ColumnOf(fields[i]))
    BY <2>2, <2>4, <2>5 DEF Describable, ColumnOf, Field
  <2> QED
    BY <2>3, <2>6
<1>5. cols \in Seq(ColumnsOf(KindNames)) /\ Len(cols) = n /\ \A i \in 1..n : cols[i] = ColumnOf(fields[i])
  <2>1. \A i \in 1..n : ColumnOf(fields[i]) \in ColumnsOf(KindNames)
    BY <1>4
  <2>2. cols \in [1..n -> ColumnsOf(KindNames)]
    BY <2>1
  <2>3. cols \in Seq(ColumnsOf(KindNames)) /\ DOMAIN cols = 1..n
    BY <1>1, <2>2
  <2>4. Len(cols) = n
    BY <1>1, <2>3, LenProperties
  <2> QED
    BY <2>3, <2>4
<1>6. cols # <<>>
  <2>1. n # 0
    BY <1>1, <1>2, EmptySeq
  <2> HIDE DEF cols
  <2> QED
    BY <1>1, <1>5, <2>1, EmptySeq
<1> HIDE DEF cols
<1>7. Shapely(cols)
  BY <1>4, <1>5, <1>6 DEF Shapely, Ordered
<1>8. Accepted(cols).x = cols
  BY DEF Accepted
<1> QED
  BY <1>3, <1>7, <1>8

\* One table of a document, and the document.
Fits(t) ==
    /\ t.namespace \in Seq(NameChars) /\ t.table \in Seq(NameChars)
    /\ FieldsFit(t.fields)
Named(t) ==
    /\ t.namespace \in Seq(NameChars) /\ t.table \in Seq(NameChars)
    /\ ValidateName(t.namespace) /\ ValidateName(t.table)
Apart(t, u) == t.namespace # u.namespace \/ t.table # u.table

LEMMA DocumentTableIs ==
    ASSUME NEW doc, NEW i, Fits(doc[i]), DocumentTable(doc, i).why = "none",
           NEW t, t = DocumentTable(doc, i).x
    PROVE  /\ Named(t) /\ Shapely(t.shape)
           /\ t = [namespace |-> doc[i].namespace, table |-> doc[i].table, shape |-> t.shape]
           /\ \A j \in 1..i - 1 : Apart(doc[j], doc[i])
<1> DEFINE u == doc[i]
           schema == newTableSchema(u.fields)
<1>1. ValidateName(u.namespace) /\ ValidateName(u.table)
  BY DEF DocumentTable, RefusedAs
<1>2. \A j \in 1..i - 1 : Apart(doc[j], doc[i])
  BY <1>1 DEF DocumentTable, RefusedAs, Apart
<1>3. schema.why = "none"
  BY <1>1, <1>2 DEF DocumentTable, Apart
<1>4. t = [namespace |-> u.namespace, table |-> u.table, shape |-> schema.x]
  BY <1>1, <1>2, <1>3 DEF DocumentTable, Apart, Accepted
<1>5. Shapely(schema.x)
  BY <1>3, SchemaIsShapely DEF Fits
<1> QED
  BY <1>1, <1>2, <1>4, <1>5 DEF Named, Fits

LEMMA DocumentIs ==
    ASSUME NEW S, NEW doc \in Seq(S), NEW n, n = Len(doc), \A i \in 1..n : Fits(doc[i]),
           ParseSchemaDocument(doc).why = "none", NEW ts, ts = ParseSchemaDocument(doc).x
    PROVE  /\ ts = [i \in 1..n |-> DocumentTable(doc, i).x]
           /\ \A i \in 1..n : ts[i] = DocumentTable(doc, i).x /\ DocumentTable(doc, i).why = "none"
<1> DEFINE parts == [i \in DOMAIN doc |-> DocumentTable(doc, i)]
<1>0. n \in Nat /\ DOMAIN doc = 1..n
  BY LenProperties
<1>1. DOMAIN parts = 1..n /\ \A i \in 1..n : parts[i] = DocumentTable(doc, i)
  BY <1>0
<1>2. ParseSchemaDocument(doc) = Every(parts)
  BY DEF ParseSchemaDocument
<1> HIDE DEF parts
<1>3. \A i \in 1..n : parts[i].why = "none"
  BY <1>0, <1>1, <1>2, EveryIs
<1>4. Every(parts) = Accepted([i \in 1..n |-> parts[i].x])
  BY <1>0, <1>1, <1>3, EveryIs
<1>5. ts = [i \in 1..n |-> parts[i].x]
  BY <1>2, <1>4 DEF Accepted
<1> QED
  BY <1>1, <1>3, <1>5

(***************************************************************************)
(* The struct.                                                             *)
(***************************************************************************)

\* A field that is let through as the i-th column, and the column it becomes.
Tagged(f, i) ==
    /\ f.exported /\ f.go \in GoTypes /\ f.id = i /\ f.name = f.arrowName
    /\ TagNode(f).kind \in Arrows /\ Adapts(f.go, TagNode(f).kind)
Derived(f) == Field(f.id, f.name, IcebergKind(TagNode(f).kind), f.precision, f.scale, ~f.pointer)

LEMMA TagNodeIs ==
    ASSUME NEW f
    PROVE  /\ TagNode(f).id = f.id
           /\ [TagNode(f) EXCEPT !.kind = IcebergKind(@)] = Derived(f)
BY DEF TagNode, Derived, Field

\* What Declare asks of the fields, together.
LEMMA DeriveIs ==
    ASSUME NEW S, NEW fields \in Seq(S), fields # <<>>,
           \A i \in 1..Len(fields) : Tagged(fields[i], i)
    PROVE  derive([i \in DOMAIN fields |-> TagNode(fields[i])])
              = Accepted([i \in 1..Len(fields) |-> Derived(fields[i])])
<1> DEFINE n == Len(fields)
           nodes == [i \in DOMAIN fields |-> TagNode(fields[i])]
<1>1. n \in Nat /\ DOMAIN fields = 1..n /\ n # 0
  BY LenProperties, EmptySeq
<1>2. DOMAIN nodes = 1..n /\ \A i \in 1..n : nodes[i] = TagNode(fields[i])
  BY <1>1
<1>3. nodes # <<>>
  <2>1. 1 \in DOMAIN nodes
    BY <1>1
  <2> QED
    BY <2>1
<1> HIDE DEF nodes
<1>4. \A i \in DOMAIN nodes : nodes[i].kind \notin Nested
  BY <1>2, KindsAre DEF Tagged
<1>5. PreorderIds(nodes)
  BY <1>1, <1>2, TagNodeIs DEF PreorderIds, Tagged
<1>6. [i \in DOMAIN nodes |-> [nodes[i] EXCEPT !.kind = IcebergKind(@)]] = [i \in 1..n |-> Derived(fields[i])]
  <2>1. \A i \in 1..n : [nodes[i] EXCEPT !.kind = IcebergKind(@)] = Derived(fields[i])
    BY <1>1, <1>2, TagNodeIs
  <2> QED
    BY <1>2, <2>1
<1>7. derive(nodes) = Accepted([i \in 1..n |-> Derived(fields[i])])
  BY <1>3, <1>4, <1>5, <1>6 DEF derive
<1> QED
  BY <1>7 DEF nodes

LEMMA StructIs ==
    ASSUME NEW t, NEW S, NEW fields \in Seq(S), fields = t.fields
    PROVE  /\ /\ ValidateName(t.namespace) /\ ValidateName(t.table) /\ fields # <<>>
              /\ \A i \in 1..Len(fields) : Tagged(fields[i], i)
              => Declare(t) = Accepted([namespace |-> t.namespace, table |-> t.table,
                                        shape |-> [i \in 1..Len(fields) |-> Derived(fields[i])]])
           /\ Declare(t).why = "none" =>
                /\ ValidateName(t.namespace) /\ ValidateName(t.table) /\ fields # <<>>
                /\ \A i \in 1..Len(fields) : Tagged(fields[i], i)
<1> DEFINE n == Len(fields)
           nodes == [i \in DOMAIN fields |-> TagNode(fields[i])]
<1>1. n \in Nat /\ DOMAIN fields = 1..n
  BY LenProperties
<1>2. ASSUME ValidateName(t.namespace), ValidateName(t.table), fields # <<>>,
             \A i \in 1..n : Tagged(fields[i], i)
      PROVE  Declare(t) = Accepted([namespace |-> t.namespace, table |-> t.table,
                                    shape |-> [i \in 1..n |-> Derived(fields[i])]])
  <2>1. derive(nodes) = Accepted([i \in 1..n |-> Derived(fields[i])])
    BY <1>2, DeriveIs
  <2>2. \A i \in DOMAIN fields : fields[i].exported /\ fields[i].go \in GoTypes \union Nested /\ CrossChecked(fields[i])
    BY <1>1, <1>2 DEF Tagged, CrossChecked
  <2>3. derive(nodes).why = "none" /\ derive(nodes).x = [i \in 1..n |-> Derived(fields[i])]
    BY <2>1 DEF Accepted
  <2> HIDE DEF nodes
  <2>4. Declare(t) = Accepted([namespace |-> t.namespace, table |-> t.table, shape |-> derive(nodes).x])
    BY <1>2, <2>2, <2>3 DEF Declare, nodes
  <2> QED
    BY <2>3, <2>4
<1>3. ASSUME Declare(t).why = "none"
      PROVE  /\ ValidateName(t.namespace) /\ ValidateName(t.table) /\ fields # <<>>
             /\ \A i \in 1..n : Tagged(fields[i], i)
  <2>1. ValidateName(t.namespace) /\ ValidateName(t.table)
    BY <1>3 DEF Declare, RefusedAs
  <2>2. ~ \E i \in DOMAIN fields : ~fields[i].exported
    BY <1>3, <2>1 DEF Declare, RefusedAs
  <2>3. ~ \E i \in DOMAIN fields : fields[i].go \notin GoTypes \union Nested
    BY <1>3, <2>1, <2>2 DEF Declare, RefusedAs
  <2>4. derive(nodes).why = "none"
    BY <1>3, <2>1, <2>2, <2>3 DEF Declare
  <2>5. \A i \in DOMAIN fields : CrossChecked(fields[i])
    BY <1>3, <2>1, <2>2, <2>3, <2>4 DEF Declare, RefusedAs
  <2>6. nodes # <<>>
    BY <2>4 DEF derive, RefusedAs
  <2>7. \A i \in DOMAIN nodes : nodes[i].kind \notin Nested
    BY <2>4, <2>6 DEF derive, RefusedAs
  <2>8. PreorderIds(nodes)
    <3> HIDE DEF nodes
    <3> QED
      BY <2>4, <2>6, <2>7 DEF derive, RefusedAs
  <2>9. fields # <<>>
    <3>1. n # 0
      BY <1>1, <2>6
    <3> QED
      BY <3>1, EmptySeq
  <2>10. ASSUME NEW i \in 1..n PROVE Tagged(fields[i], i)
    <3>1. fields[i].exported /\ fields[i].go \in GoTypes \union Nested /\ CrossChecked(fields[i])
      BY <1>1, <2>2, <2>3, <2>5
    <3>2. nodes[i] = TagNode(fields[i]) /\ nodes[i].kind \notin Nested /\ nodes[i].id = i
      BY <1>1, <2>7, <2>8 DEF PreorderIds
    <3>3. fields[i].id = i
      BY <1>1, <3>2, TagNodeIs
    <3> HIDE DEF nodes
    <3>4. fields[i].name = fields[i].arrowName /\ Adapts(fields[i].go, TagNode(fields[i]).kind)
      BY <3>1 DEF CrossChecked
    <3>5. TagNode(fields[i]).kind = fields[i].go \/ TagNode(fields[i]).kind \in {"timestamp_ms", "decimal"}
      BY <3>4 DEF Adapts
    <3>6. TagNode(fields[i]).kind \in Arrows
      BY <3>1, <3>2, <3>5 DEF Arrows, GoTypes
    <3>7. fields[i].go \in GoTypes
      BY <3>1, <3>2, <3>4 DEF Adapts, Nested
    <3> QED
      BY <3>1, <3>3, <3>4, <3>6, <3>7 DEF Tagged
  <2> QED
    BY <2>1, <2>9, <2>10
<1> QED
  BY <1>2, <1>3

\* The shape of a struct that is declared.
StructFit(t) == t \in Stating(StructFields) /\ \A i, j \in DOMAIN t.fields : i # j => t.fields[i].name # t.fields[j].name

LEMMA DeclareIs ==
    ASSUME NEW t, StructFit(t), Declare(t).why = "none", NEW u, u = Declare(t).x
    PROVE  /\ Named(u) /\ Ordered(u.shape) /\ Len(u.shape) = Len(t.fields)
           /\ u = [namespace |-> t.namespace, table |-> t.table, shape |-> u.shape]
           /\ \A i \in 1..Len(t.fields) : Tagged(t.fields[i], i) /\ u.shape[i] = Derived(t.fields[i])
<1> DEFINE fields == t.fields
           n == Len(fields)
           cols == [i \in 1..n |-> Derived(fields[i])]
<1>1. /\ t.namespace \in Seq(NameChars) /\ t.table \in Seq(NameChars)
      /\ fields \in Seq(StructFields)
  BY DEF StructFit, Stating
<1>2. n \in Nat /\ \A i \in 1..n : fields[i] \in StructFields
  BY <1>1, LenProperties
<1>3. /\ ValidateName(t.namespace) /\ ValidateName(t.table) /\ fields # <<>>
      /\ \A i \in 1..n : Tagged(fields[i], i)
  BY <1>1, StructIs
<1>4. u = [namespace |-> t.namespace, table |-> t.table, shape |-> cols]
  <2>1. Declare(t) = Accepted([namespace |-> t.namespace, table |-> t.table, shape |-> cols])
    BY <1>1, <1>3, StructIs
  <2> HIDE DEF cols
  <2> QED
    BY <2>1 DEF Accepted
<1>5. ASSUME NEW i \in 1..n PROVE Derived(fields[i]) \in ColumnsOf(KindNames) /\ Derived(fields[i]).id = i
  <2>1. IcebergKind(TagNode(fields[i]).kind) \in KindNames
    BY <1>3, KindsAre DEF Tagged
  <2>2. fields[i].id = i
    BY <1>3 DEF Tagged
  <2>3. fields[i] \in StructFields
    BY <1>2
  <2> QED
    BY <2>1, <2>2, <2>3 DEF Derived, Field, ColumnsOf, StructFields
<1>6. cols \in Seq(ColumnsOf(KindNames)) /\ Len(cols) = n /\ \A i \in 1..n : cols[i] = Derived(fields[i])
  <2>1. cols \in [1..n -> ColumnsOf(KindNames)]
    BY <1>5
  <2>2. cols \in Seq(ColumnsOf(KindNames)) /\ DOMAIN cols = 1..n
    BY <1>2, <2>1
  <2>3. Len(cols) = n
    BY <1>2, <2>2, LenProperties
  <2> QED
    BY <2>2, <2>3
<1> HIDE DEF cols
<1>7. cols # <<>>
  <2>1. n # 0
    BY <1>1, <1>3, EmptySeq
  <2> QED
    BY <1>2, <1>6, <2>1, EmptySeq
<1>8. Ordered(cols)
  BY <1>5, <1>6, <1>7 DEF Ordered
<1> QED
  BY <1>1, <1>3, <1>4, <1>6, <1>8 DEF Named

\* A struct whose shape has a descriptor says what a document may.
LEMMA StatedBack ==
    ASSUME NEW t, StructFit(t), Declare(t).why = "none", NEW u, u = Declare(t).x, Shapely(u.shape)
    PROVE  ParseSchemaDocument(<<Stated(t)>>) = Accepted(<<u>>)
<1> DEFINE fields == t.fields
           n == Len(fields)
           s == Stated(t)
<1>1. /\ Named(u) /\ Ordered(u.shape) /\ Len(u.shape) = n
      /\ u = [namespace |-> t.namespace, table |-> t.table, shape |-> u.shape]
      /\ \A i \in 1..n : Tagged(fields[i], i) /\ u.shape[i] = Derived(fields[i])
  BY DeclareIs
<1>2. fields \in Seq(StructFields) /\ n \in Nat /\ DOMAIN fields = 1..n
        /\ \A i \in 1..n : fields[i] \in StructFields
  BY LenProperties DEF StructFit, Stating
<1>3. s.namespace = t.namespace /\ s.table = t.table
  BY DEF Stated
<1>4. ASSUME NEW i \in 1..n
      PROVE  /\ s.fields[i].name = fields[i].name
             /\ ColumnOf(s.fields[i]) = Derived(fields[i])
  <2> DEFINE f == TagNode(fields[i])
  <2>1. s.fields[i] = [name |-> f.name, type |-> Spelled(f.kind), fieldid |-> f.id, precision |-> f.precision,
                       scale |-> f.scale, optional |-> ~f.required]
    BY <1>2 DEF Stated
  <2>2. f.name = fields[i].name /\ f.id = fields[i].id /\ f.precision = fields[i].precision
          /\ f.scale = fields[i].scale /\ f.required = ~fields[i].pointer
    BY DEF TagNode, Field
  <2>3. f.kind \in Arrows
    BY <1>1 DEF Tagged
  <2>4. Spelled(f.kind) = IcebergKind(f.kind) /\ IcebergKind(f.kind) \in KindNames
    BY <2>3, KindsAre DEF Spelled
  <2>5. fields[i].pointer \in BOOLEAN
    BY <1>2 DEF StructFields
  <2> HIDE DEF f
  <2>6. (~f.required) = fields[i].pointer
    <3>1. CASE fields[i].pointer = TRUE
      BY <2>2, <3>1
    <3>2. CASE fields[i].pointer = FALSE
      BY <2>2, <3>2
    <3> QED
      BY <2>5, <3>1, <3>2
  <2>7. s.fields[i] = [name |-> fields[i].name, type |-> IcebergKind(f.kind), fieldid |-> fields[i].id,
                       precision |-> fields[i].precision, scale |-> fields[i].scale,
                       optional |-> fields[i].pointer]
    <3> HIDE DEF s
    <3>1. s.fields[i] = [name |-> fields[i].name, type |-> IcebergKind(f.kind), fieldid |-> fields[i].id,
                         precision |-> fields[i].precision, scale |-> fields[i].scale,
                         optional |-> ~f.required]
      BY <2>1, <2>2, <2>4
    <3> QED
      BY <2>6, <3>1
  <2> HIDE DEF s
  <2>9. ColumnOf(s.fields[i]) = Derived(fields[i])
    BY <2>7 DEF ColumnOf, Derived, Field, f
  <2> QED
    BY <2>7, <2>9
<1> DEFINE S == {s.fields[i] : i \in 1..n}
<1>5. s.fields \in Seq(S) /\ Len(s.fields) = n /\ s.fields # <<>>
  <2>1. DOMAIN s.fields = 1..n
    BY <1>2 DEF Stated
  <2>2. s.fields = [i \in 1..n |-> s.fields[i]]
    BY <1>2 DEF Stated
  <2> HIDE DEF s
  <2>3. s.fields \in [1..n -> S]
    BY <2>2
  <2>4. s.fields \in Seq(S)
    BY <1>2, <2>3
  <2>5. Len(s.fields) = n
    BY <1>2, <2>1, <2>4, LenProperties
  <2>6. n # 0
    BY <1>1, LenProperties, EmptySeq DEF Ordered
  <2> QED
    BY <2>4, <2>5, <2>6, EmptySeq
<1> HIDE DEF s
<1>6. ASSUME NEW i \in 1..n PROVE Lets(s.fields, i)
  <2>1. Describable(u.shape[i]) /\ u.shape[i].id = i
    BY <1>1 DEF Shapely, Ordered
  <2>2. Describable(ColumnOf(s.fields[i])) /\ ColumnOf(s.fields[i]).id = i
    BY <1>1, <1>4, <2>1
  <2>3. ColumnOf(s.fields[i]).kind \in KindNames
    <3>1. IcebergKind(TagNode(fields[i]).kind) \in KindNames
      BY <1>1, KindsAre DEF Tagged
    <3>2. Derived(fields[i]).kind = IcebergKind(TagNode(fields[i]).kind)
      BY DEF Derived, Field
    <3> QED
      BY <1>4, <3>1, <3>2
  <2>4. \A j \in 1..i - 1 : s.fields[j].name # s.fields[i].name
    <3>1. ASSUME NEW j \in 1..i - 1 PROVE s.fields[j].name # s.fields[i].name
      <4>1. j \in 1..n /\ i \in 1..n /\ j # i
        BY <1>2
      <4> QED
        BY <1>2, <1>4, <4>1 DEF StructFit
    <3> QED
      BY <3>1
  <2> QED
    BY <2>2, <2>3, <2>4 DEF Lets, ColumnOf, Field, Describable
<1>7. newTableSchema(s.fields) = Accepted(u.shape)
  <2>1. newTableSchema(s.fields) = Accepted([i \in 1..n |-> ColumnOf(s.fields[i])])
    BY <1>5, <1>6, TableSchemaIs
  <2>2. \A i \in 1..n : ColumnOf(s.fields[i]) = u.shape[i]
    BY <1>1, <1>4
  <2>3. u.shape = [i \in 1..n |-> u.shape[i]]
    BY <1>1, LenProperties DEF Ordered
  <2>4. [i \in 1..n |-> ColumnOf(s.fields[i])] = [i \in 1..n |-> u.shape[i]]
    BY <2>2
  <2> QED
    BY <2>1, <2>3, <2>4
<1>8. DocumentTable(<<s>>, 1) = Accepted(u)
  <2>1. ValidateName(s.namespace) /\ ValidateName(s.table)
    BY <1>1, <1>3 DEF Named
  <2>2. <<s>>[1] = s /\ 1..(1 - 1) = {}
    OBVIOUS
  <2>3. newTableSchema(s.fields).why = "none" /\ newTableSchema(s.fields).x = u.shape
    BY <1>7 DEF Accepted
  <2>4. DocumentTable(<<s>>, 1)
          = Accepted([namespace |-> s.namespace, table |-> s.table, shape |-> newTableSchema(s.fields).x])
    BY <2>1, <2>2, <2>3 DEF DocumentTable
  <2> QED
    BY <1>1, <1>3, <2>3, <2>4
<1>9. ParseSchemaDocument(<<s>>) = Accepted(<<u>>)
  <2> DEFINE parts == [i \in DOMAIN <<s>> |-> DocumentTable(<<s>>, i)]
  <2>1. DOMAIN <<s>> = 1..1 /\ <<s>> # <<>>
    OBVIOUS
  <2>2. DOMAIN parts = 1..1 /\ parts[1] = Accepted(u)
    BY <1>8, <2>1
  <2>3. ParseSchemaDocument(<<s>>) = Every(parts)
    BY <2>1 DEF ParseSchemaDocument
  <2> HIDE DEF parts
  <2>4. \A i \in 1..1 : parts[i].why = "none" /\ parts[i].x = u
    BY <2>2 DEF Accepted
  <2>5. Every(parts) = Accepted([i \in 1..1 |-> parts[i].x])
    <3>1. 1 \in Nat
      OBVIOUS
    <3> QED
      BY <2>2, <2>4, <3>1, EveryIs
  <2>6. [i \in 1..1 |-> parts[i].x] = <<u>>
    BY <2>4
  <2> QED
    BY <2>3, <2>5, <2>6
<1> QED
  BY <1>9 DEF s

\* A document's table, declared by the struct that says the same.
LEMMA StructuredBack ==
    ASSUME NEW t, Named(t), Shapely(t.shape),
           t = [namespace |-> t.namespace, table |-> t.table, shape |-> t.shape]
    PROVE  Declare(Structured(t)) = Accepted(t)
<1> DEFINE cols == t.shape
           n == Len(cols)
           s == Structured(t)
           S == {s.fields[i] : i \in 1..n}
<1>1. n \in Nat /\ n # 0 /\ DOMAIN cols = 1..n /\ \A i \in 1..n : cols[i] \in ColumnsOf(KindNames) /\ cols[i].id = i
  BY LenProperties, EmptySeq DEF Shapely, Ordered
<1>2. s.namespace = t.namespace /\ s.table = t.table
  BY DEF Structured
<1>3. ASSUME NEW i \in 1..n PROVE Tagged(s.fields[i], i) /\ Derived(s.fields[i]) = cols[i]
  <2> DEFINE f == cols[i]
             arrow == primitiveNode[f.kind]
  <2>1. s.fields[i] = [name |-> f.name, arrowName |-> f.name, pointer |-> ~f.required,
                       go |-> IF arrow \in GoTypes THEN arrow ELSE "int64",
                       logical |-> IF arrow \in GoTypes THEN "none" ELSE arrow,
                       precision |-> f.precision, scale |-> f.scale, id |-> f.id, exported |-> TRUE]
    BY <1>1 DEF Structured
  <2>2. f \in ColumnsOf(KindNames) /\ f.id = i /\ f.kind \in KindNames
    BY <1>1 DEF ColumnsOf
  <2>3. arrow \in Arrows /\ IcebergKind(arrow) = f.kind
    BY <2>2, KindsAre
  <2>4. arrow \in GoTypes \/ arrow \in {"timestamp_ms", "decimal"}
    BY <2>3 DEF Arrows, GoTypes
  <2>5. "int64" \in GoTypes /\ "decimal" # "none" /\ "timestamp_ms" # "none"
    BY DEF GoTypes
  <2> HIDE DEF s, f, arrow
  <2>6. TagNode(s.fields[i]).kind = arrow
    BY <2>1, <2>4, <2>5 DEF TagNode, Field
  <2>7. s.fields[i].go \in GoTypes /\ Adapts(s.fields[i].go, arrow)
    BY <2>1, <2>4, <2>5 DEF Adapts
  <2>8. /\ s.fields[i].exported /\ s.fields[i].id = f.id /\ s.fields[i].name = f.name
        /\ s.fields[i].arrowName = f.name /\ s.fields[i].pointer = ~f.required
        /\ s.fields[i].precision = f.precision /\ s.fields[i].scale = f.scale
    BY <2>1
  <2>9. Tagged(s.fields[i], i)
    BY <2>2, <2>3, <2>6, <2>7, <2>8 DEF Tagged
  <2>10. Derived(s.fields[i]) = f
    <3>1. (~s.fields[i].pointer) = f.required
      <4>1. f.required \in BOOLEAN
        BY <2>2 DEF ColumnsOf
      <4>2. CASE f.required = TRUE
        BY <2>8, <4>2
      <4>3. CASE f.required = FALSE
        BY <2>8, <4>3
      <4> QED
        BY <4>1, <4>2, <4>3
    <3>2. Derived(s.fields[i]) = [id |-> f.id, name |-> f.name, kind |-> f.kind, precision |-> f.precision,
                                  scale |-> f.scale, required |-> f.required]
      BY <2>3, <2>6, <2>8, <3>1 DEF Derived, Field
    <3>3. f = [id |-> f.id, name |-> f.name, kind |-> f.kind, precision |-> f.precision,
               scale |-> f.scale, required |-> f.required]
      BY <2>2 DEF ColumnsOf
    <3> QED
      BY <3>2, <3>3
  <2> QED
    BY <2>9, <2>10 DEF f
<1>4. s.fields \in Seq(S) /\ Len(s.fields) = n /\ s.fields # <<>>
  <2>1. DOMAIN s.fields = 1..n /\ s.fields = [i \in 1..n |-> s.fields[i]]
    BY <1>1 DEF Structured
  <2> HIDE DEF s
  <2>2. s.fields \in [1..n -> S]
    BY <2>1
  <2>3. s.fields \in Seq(S)
    BY <1>1, <2>2
  <2>4. Len(s.fields) = n
    BY <1>1, <2>1, <2>3, LenProperties
  <2> QED
    BY <1>1, <2>3, <2>4, EmptySeq
<1> HIDE DEF s, S
<1>5. Declare(s) = Accepted([namespace |-> s.namespace, table |-> s.table,
                             shape |-> [i \in 1..n |-> Derived(s.fields[i])]])
  BY <1>2, <1>3, <1>4, StructIs DEF Named
<1>6. [i \in 1..n |-> Derived(s.fields[i])] = cols
  <2>1. [i \in 1..n |-> Derived(s.fields[i])] = [i \in 1..n |-> cols[i]]
    BY <1>3
  <2>2. cols = [i \in 1..n |-> cols[i]]
    BY <1>1, LenProperties DEF Shapely, Ordered
  <2> QED
    BY <2>1, <2>2
<1> QED
  BY <1>2, <1>5, <1>6 DEF s

(***************************************************************************)
(* The descriptor: what is encoded is read back, column by column.         *)
(***************************************************************************)

LEMMA SameSeq ==
    ASSUME NEW S, NEW s \in Seq(S), NEW u \in Seq(S), Len(s) = Len(u), \A i \in 1..Len(s) : s[i] = u[i]
    PROVE  s = u
<1>1. s \in [1..Len(s) -> S] /\ u \in [1..Len(s) -> S]
  BY LenProperties
<1> QED
  BY <1>1

LEMMA Middle ==
    ASSUME NEW r \in Seq(Nat), NEW m \in Nat, NEW k \in Nat, m + k <= Len(r)
    PROVE  /\ SubSeq(r, m + 1, m + k) \in Seq(Nat) /\ Len(SubSeq(r, m + 1, m + k)) = k
           /\ \A i \in 1..k : SubSeq(r, m + 1, m + k)[i] = r[m + i]
OBVIOUS

\* The parts that a sequence was put together from, cut from it.
Assembled(r, h, s, u) ==
    /\ r \in Seq(Nat) /\ Len(r) = Len(h) + Len(s) + Len(u)
    /\ \A i \in 1..Len(h) : r[i] = h[i]
    /\ \A i \in 1..Len(s) : r[Len(h) + i] = s[i]
    /\ \A i \in 1..Len(u) : r[Len(h) + Len(s) + i] = u[i]
    /\ SubSeq(r, Len(h) + 1, Len(h) + Len(s)) = s
    /\ SubSeq(r, Len(h) + Len(s) + 1, Len(r)) = u

LEMMA Pieces ==
    ASSUME NEW h \in Seq(Nat), NEW s \in Seq(Nat), NEW u \in Seq(Nat), NEW r, r = (h \o s) \o u
    PROVE  Assembled(r, h, s, u)
<1> DEFINE a == Len(h)
           b == Len(s)
           c == Len(u)
<1>1. a \in Nat /\ b \in Nat /\ c \in Nat
  BY LenProperties
<1>2. /\ h \o s \in Seq(Nat) /\ Len(h \o s) = a + b
      /\ \A i \in 1..a + b : (h \o s)[i] = IF i <= a THEN h[i] ELSE s[i - a]
  BY ConcatProperties
<1>3. /\ r \in Seq(Nat) /\ Len(r) = (a + b) + c
      /\ \A i \in 1..(a + b) + c : r[i] = IF i <= a + b THEN (h \o s)[i] ELSE u[i - (a + b)]
  BY <1>2, ConcatProperties
<1> HIDE DEF a, b, c
<1>4. ASSUME NEW i \in 1..a PROVE r[i] = h[i]
  BY <1>1, <1>2, <1>3
<1>5. ASSUME NEW i \in 1..b PROVE a + i \in 1..Len(r) /\ r[a + i] = s[i]
  <2>1. a + i \in 1..a + b /\ a + i \in 1..(a + b) + c /\ ~(a + i <= a) /\ (a + i) - a = i /\ a + i <= a + b
    BY <1>1
  <2> QED
    BY <1>2, <1>3, <2>1
<1>6. ASSUME NEW i \in 1..c PROVE a + b + i \in 1..Len(r) /\ r[a + b + i] = u[i]
  <2>1. a + b + i \in 1..(a + b) + c /\ ~(a + b + i <= a + b) /\ (a + b + i) - (a + b) = i
    BY <1>1
  <2> QED
    BY <1>3, <2>1
<1>7. SubSeq(r, a + 1, a + b) = s
  <2> DEFINE q == SubSeq(r, a + 1, a + b)
  <2>1. a + b <= Len(r)
    BY <1>1, <1>3
  <2>2. q \in Seq(Nat) /\ Len(q) = b /\ \A i \in 1..b : q[i] = r[a + i]
    BY <1>1, <1>3, <2>1, Middle
  <2> HIDE DEF q
  <2>3. q = s
    BY <1>5, <2>2, SameSeq DEF b
  <2> QED
    BY <2>3 DEF q
<1>8. SubSeq(r, a + b + 1, Len(r)) = u
  <2> DEFINE q == SubSeq(r, (a + b) + 1, (a + b) + c)
  <2>1. a + b \in Nat /\ (a + b) + c <= Len(r)
    BY <1>1, <1>3
  <2>2. q \in Seq(Nat) /\ Len(q) = c /\ \A i \in 1..c : q[i] = r[(a + b) + i]
    BY <1>1, <1>3, <2>1, Middle
  <2> HIDE DEF q
  <2>3. q = u
    BY <1>6, <2>2, SameSeq DEF c
  <2> QED
    BY <1>3, <2>3 DEF q
<1> QED
  BY <1>3, <1>4, <1>5, <1>6, <1>7, <1>8 DEF a, b, c, Assembled

\* One column.
HeadOf(f) ==
    <<f.id, KindTag[f.kind], IF f.required THEN 1 ELSE 0>>
    \o (IF f.kind = "decimal" THEN <<f.precision, f.scale>> ELSE <<>>) \o <<Len(f.name)>>

LEMMA HeadIs ==
    ASSUME NEW f \in ColumnsOf(KindNames), Describable(f), NEW n, n = IF f.kind = "decimal" THEN 6 ELSE 4
    PROVE  /\ HeadOf(f) \in Seq(Nat) /\ Len(HeadOf(f)) = n
           /\ HeadOf(f)[1] = f.id /\ HeadOf(f)[2] = KindTag[f.kind]
           /\ HeadOf(f)[3] = (IF f.required THEN 1 ELSE 0) /\ HeadOf(f)[n] = Len(f.name)
           /\ f.kind = "decimal" => HeadOf(f)[4] = f.precision /\ HeadOf(f)[5] = f.scale
           /\ EncodeField(f) = HeadOf(f) \o f.name
<1> DEFINE tag == KindTag[f.kind]
           req == IF f.required THEN 1 ELSE 0
           len == Len(f.name)
<1>1. f.id \in Nat /\ f.precision \in Nat /\ f.scale \in Nat /\ f.kind \in KindNames /\ f.name \in Seq(Nat)
  <2>1. f.id \in 1..MaxFieldId
    BY DEF Describable
  <2>2. MaxFieldId \in Nat
    BY DeclarationsAssumption
  <2>3. f.id \in Nat
    BY <2>1, <2>2
  <2> QED
    BY <2>3 DEF ColumnsOf
<1>2. tag \in Nat /\ req \in Nat /\ len \in Nat
  <2>1. tag \in 1..9
    BY <1>1, KindsAre
  <2> HIDE DEF tag
  <2>2. tag \in Nat
    BY <2>1
  <2>3. req \in Nat
    OBVIOUS
  <2>4. len \in Nat
    BY <1>1, LenProperties
  <2> QED
    BY <2>2, <2>3, <2>4
<1>3. EncodeField(f) = HeadOf(f) \o f.name
  BY DEF EncodeField, HeadOf
<1> HIDE DEF tag, req, len
<1>4. CASE f.kind = "decimal"
  <2> DEFINE h == <<f.id, tag, req>>
             s == <<f.precision, f.scale>>
             u == <<len>>
  <2>1. HeadOf(f) = (h \o s) \o u
    BY <1>4 DEF HeadOf, tag, req, len
  <2>2. h \in Seq(Nat) /\ Len(h) = 3 /\ h[1] = f.id /\ h[2] = tag /\ h[3] = req
    BY <1>1, <1>2
  <2>3. s \in Seq(Nat) /\ Len(s) = 2 /\ s[1] = f.precision /\ s[2] = f.scale
    BY <1>1
  <2>4. u \in Seq(Nat) /\ Len(u) = 1 /\ u[1] = len
    BY <1>2
  <2> HIDE DEF h, s, u
  <2>5. /\ HeadOf(f) \in Seq(Nat) /\ Len(HeadOf(f)) = 3 + 2 + 1
        /\ \A i \in 1..3 : HeadOf(f)[i] = h[i]
        /\ \A i \in 1..2 : HeadOf(f)[3 + i] = s[i]
        /\ \A i \in 1..1 : HeadOf(f)[3 + 2 + i] = u[i]
    <3> DEFINE r == HeadOf(f)
    <3>1. h \in Seq(Nat) /\ s \in Seq(Nat) /\ u \in Seq(Nat) /\ r = (h \o s) \o u
      BY <2>1, <2>2, <2>3, <2>4
    <3> HIDE DEF r
    <3>2. Assembled(r, h, s, u)
      BY <3>1, Pieces
    <3> QED
      BY <3>2, <2>2, <2>3, <2>4 DEF r, Assembled
  <2>6. /\ HeadOf(f)[1] = h[1] /\ HeadOf(f)[2] = h[2] /\ HeadOf(f)[3] = h[3]
        /\ HeadOf(f)[4] = s[1] /\ HeadOf(f)[5] = s[2] /\ HeadOf(f)[6] = u[1]
    BY <2>5
  <2> QED
    BY <1>3, <1>4, <2>2, <2>3, <2>4, <2>5, <2>6 DEF tag, req, len
<1>5. CASE f.kind # "decimal"
  <2> DEFINE h == <<f.id, tag, req>>
             u == <<len>>
  <2>1. HeadOf(f) = (h \o <<>>) \o u
    BY <1>5 DEF HeadOf, tag, req, len
  <2>2. h \in Seq(Nat) /\ Len(h) = 3 /\ h[1] = f.id /\ h[2] = tag /\ h[3] = req
    BY <1>1, <1>2
  <2>3. <<>> \in Seq(Nat) /\ Len(<<>>) = 0
    OBVIOUS
  <2>4. u \in Seq(Nat) /\ Len(u) = 1 /\ u[1] = len
    BY <1>2
  <2> HIDE DEF h, u
  <2>5. /\ HeadOf(f) \in Seq(Nat) /\ Len(HeadOf(f)) = 3 + 0 + 1
        /\ \A i \in 1..3 : HeadOf(f)[i] = h[i]
        /\ \A i \in 1..1 : HeadOf(f)[3 + 0 + i] = u[i]
    <3> DEFINE r == HeadOf(f)
               s == <<>>
    <3>1. h \in Seq(Nat) /\ s \in Seq(Nat) /\ u \in Seq(Nat) /\ r = (h \o s) \o u
      BY <2>1, <2>2, <2>3, <2>4
    <3>2. Len(s) = 0
      OBVIOUS
    <3> HIDE DEF r, s
    <3>3. Assembled(r, h, s, u)
      BY <3>1, Pieces
    <3> QED
      BY <3>2, <3>3, <2>2, <2>4 DEF r, Assembled
  <2>6. /\ HeadOf(f)[1] = h[1] /\ HeadOf(f)[2] = h[2] /\ HeadOf(f)[3] = h[3]
        /\ HeadOf(f)[4] = u[1]
    BY <2>5
  <2> QED
    BY <1>3, <1>5, <2>2, <2>4, <2>5, <2>6 DEF tag, req, len
<1> QED
  BY <1>4, <1>5

LEMMA DecodesBack ==
    ASSUME NEW f \in ColumnsOf(KindNames), Describable(f), NEW rest \in Seq(Nat), NEW fields,
           fields # <<>> => f.id > Last(fields).id
    PROVE  DecodeField([rest |-> EncodeField(f) \o rest, fields |-> fields, bad |-> FALSE])
              = [rest |-> rest, fields |-> Append(fields, f), bad |-> FALSE]
<1> DEFINE n == IF f.kind = "decimal" THEN 6 ELSE 4
           h == HeadOf(f)
           r == EncodeField(f) \o rest
           c == [rest |-> r, fields |-> fields, bad |-> FALSE]
           len == Len(f.name)
<1>1. /\ h \in Seq(Nat) /\ Len(h) = n
      /\ h[1] = f.id /\ h[2] = KindTag[f.kind]
      /\ h[3] = (IF f.required THEN 1 ELSE 0) /\ h[n] = len
      /\ f.kind = "decimal" => h[4] = f.precision /\ h[5] = f.scale
      /\ EncodeField(f) = h \o f.name
  BY HeadIs
<1>2. f.name \in Seq(Nat) /\ f.kind \in KindNames /\ f.required \in BOOLEAN /\ f.id \in 1..MaxFieldId
  BY DEF ColumnsOf, Describable
<1>3. len \in Nat /\ n \in {4, 6} /\ Len(rest) \in Nat
  BY <1>2, LenProperties
<1>4. /\ r \in Seq(Nat) /\ Len(r) = n + len + Len(rest)
      /\ \A i \in 1..n : r[i] = h[i]
      /\ SubSeq(r, n + 1, n + len) = f.name
      /\ SubSeq(r, n + len + 1, Len(r)) = rest
  <2>1. r = (h \o f.name) \o rest
    BY <1>1
  <2> HIDE DEF h, r, n
  <2>2. Assembled(r, h, f.name, rest)
    <3>1. h \in Seq(Nat) /\ f.name \in Seq(Nat)
      BY <1>1, <1>2
    <3> QED
      BY <2>1, <3>1, Pieces
  <2> QED
    BY <1>1, <2>2 DEF Assembled
<1>5. c.rest = r /\ c.fields = fields /\ ~c.bad
  <2> HIDE DEF r
  <2> QED
    OBVIOUS
<1>17. [c EXCEPT !.rest = rest, !.fields = Append(fields, f)]
           = [rest |-> rest, fields |-> Append(fields, f), bad |-> FALSE]
  <2> DEFINE no == FALSE
  <2> DEFINE more == Append(fields, f)
  <2> HIDE DEF r, no, more
  <2>1. [[rest |-> r, fields |-> fields, bad |-> no] EXCEPT !.rest = rest]
          = [rest |-> rest, fields |-> fields, bad |-> no]
    OBVIOUS
  <2>2. [[rest |-> rest, fields |-> fields, bad |-> no] EXCEPT !.fields = more]
          = [rest |-> rest, fields |-> more, bad |-> no]
    OBVIOUS
  <2> QED
    BY <2>1, <2>2 DEF no, more
<1> HIDE DEF h, r, c, len
<1>6. 1 \in 1..n /\ 2 \in 1..n /\ 3 \in 1..n /\ n \in 1..n /\ (f.kind = "decimal" => 4 \in 1..n /\ 5 \in 1..n)
  BY <1>3
<1>7. /\ r[1] = f.id /\ r[2] = KindTag[f.kind]
      /\ r[3] = (IF f.required THEN 1 ELSE 0) /\ r[n] = len
      /\ f.kind = "decimal" => r[4] = f.precision /\ r[5] = f.scale
  BY <1>1, <1>4, <1>6
<1>8. KindOf(r[2]) = f.kind /\ \E k \in DOMAIN KindTag : KindTag[k] = r[2]
  BY <1>2, <1>7, KindsAre
<1>9. Len(r) >= 3 /\ ~(Len(r) < n) /\ ~(Len(r) < n + len)
  BY <1>3, <1>4
<1>10. WellFormedHead(c)
  <2>1. r[3] \in {0, 1}
    BY <1>7
  <2> QED
    BY <1>2, <1>5, <1>7, <1>8, <1>9, <2>1 DEF WellFormedHead
<1>11. (r[3] = 1) = f.required
  <2>1. CASE f.required = TRUE
    BY <1>7, <2>1
  <2>2. CASE f.required = FALSE
    <3>1. r[3] = 0
      BY <1>7, <2>2
    <3>2. r[3] # 1
      BY <3>1
    <3> QED
      BY <2>2, <3>2, Zenon
  <2> QED
    BY <1>2, <2>1, <2>2
<1>12. f.kind # "decimal" => f.precision = 0 /\ f.scale = 0
  BY DEF Describable
<1>13. Field(r[1], SubSeq(r, n + 1, n + r[n]), f.kind, IF f.kind = "decimal" THEN r[4] ELSE 0,
             IF f.kind = "decimal" THEN r[5] ELSE 0, r[3] = 1) = f
  <2>1. SubSeq(r, n + 1, n + r[n]) = f.name
    BY <1>4, <1>7
  <2>2. (IF f.kind = "decimal" THEN r[4] ELSE 0) = f.precision
    BY <1>7, <1>12
  <2>3. (IF f.kind = "decimal" THEN r[5] ELSE 0) = f.scale
    BY <1>7, <1>12
  <2>4. f = [id |-> f.id, name |-> f.name, kind |-> f.kind, precision |-> f.precision,
             scale |-> f.scale, required |-> f.required]
    BY DEF ColumnsOf
  <2> QED
    BY <1>7, <1>11, <2>1, <2>2, <2>3, <2>4, Zenon DEF Field
<1>14. DecodeField(c) = [c EXCEPT !.rest = SubSeq(@, n + r[n] + 1, Len(@)),
                                  !.fields = Append(@, f)]
  <2>1. ~(c.bad \/ ~WellFormedHead(c))
    BY <1>5, <1>10
  <2>2. ~(Len(c.rest) < n \/ Len(c.rest) < n + c.rest[n])
    BY <1>5, <1>7, <1>9
  <2> DEFINE kind == KindOf(c.rest[2])
             m == IF kind = "decimal" THEN 6 ELSE 4
             g == Field(c.rest[1], SubSeq(c.rest, m + 1, m + c.rest[m]), kind,
                        IF kind = "decimal" THEN c.rest[4] ELSE 0,
                        IF kind = "decimal" THEN c.rest[5] ELSE 0,
                        c.rest[3] = 1)
  <2>3. DecodeField(c) = IF c.bad \/ ~WellFormedHead(c) THEN Damaged(c)
                         ELSE IF Len(c.rest) < m \/ Len(c.rest) < m + c.rest[m] THEN Damaged(c)
                         ELSE [c EXCEPT !.rest = SubSeq(@, m + c.rest[m] + 1, Len(@)),
                                        !.fields = Append(@, g)]
    BY Zenon DEF DecodeField
  <2>4. kind = f.kind /\ m = n
    BY <1>5, <1>8
  <2>5. g = f
    BY <1>5, <1>13, <2>4, Zenon
  <2> HIDE DEF m, g, kind, n
  <2> QED
    BY <1>5, <2>1, <2>2, <2>3, <2>4, <2>5
<1>15. SubSeq(c.rest, n + r[n] + 1, Len(c.rest)) = rest
  BY <1>4, <1>5, <1>7
<1>16. DecodeField(c) = [c EXCEPT !.rest = rest, !.fields = Append(fields, f)]
  <2> HIDE DEF n
  <2> QED
    BY <1>5, <1>14, <1>15
<1> QED
  BY <1>16, <1>17 DEF c, r

\* The columns' encodings, one after the other.
Strung(T, n, E) ==
    \E F \in [1..n -> Seq(T)] :
        F[1] = E[1] /\ FlattenSeq(E) = F[n] /\ \A i \in 2..n : F[i] = F[i - 1] \o E[i]

LEMMA Flattened ==
    ASSUME NEW T, NEW n \in Nat \ {0}, NEW E \in [1..n -> Seq(T)]
    PROVE  Strung(T, n, E)
<1> DEFINE Body(f) == [i \in 1..n |-> IF i = 1 THEN E[i] ELSE f[i - 1] \o E[i]]
           F == CHOOSE f : f = Body(f)
<1>1. \E f : f = Body(f)
  <2> DEFINE rule == [i \in 1..n - 1 |-> [x \in Seq(T) |-> x \o E[i + 1]]]
  <2>1. \A i \in 1..n - 1 : i + 1 \in 1..n /\ \A x \in Seq(T) : rule[i][x] = x \o E[i + 1] /\ x \o E[i + 1] \in Seq(T)
    BY ConcatProperties
  <2>2. rule \in Rules(n - 1, Seq(T)) /\ n - 1 \in Nat /\ E[1] \in Seq(T)
    BY <2>1 DEF Rules
  <2> HIDE DEF rule
  <2>3. PICK g : Obeys(g, n - 1, Seq(T), E[1], rule)
    BY <2>2, Recursive
  <2>4. g[0] = E[1] /\ \A i \in 1..n - 1 : g[i] = rule[i][g[i - 1]] /\ g[i - 1] \in Seq(T)
    BY <2>3 DEF Obeys
  <2> DEFINE f == [i \in 1..n |-> g[i - 1]]
  <2>5. ASSUME NEW i \in 1..n PROVE f[i] = IF i = 1 THEN E[i] ELSE f[i - 1] \o E[i]
    <3>1. CASE i = 1
      BY <2>4, <3>1
    <3>2. CASE i # 1
      <4>1. i - 1 \in 1..n - 1 /\ i - 1 \in 1..n /\ (i - 1) + 1 = i
        BY <3>2
      <4>2. f[i] = g[i - 1] /\ f[i - 1] = g[(i - 1) - 1]
        BY <4>1
      <4>3. g[i - 1] = g[(i - 1) - 1] \o E[(i - 1) + 1]
        BY <2>1, <2>4, <4>1
      <4> QED
        BY <3>2, <4>1, <4>2, <4>3
    <3> QED
      BY <3>1, <3>2
  <2>6. f = Body(f)
    BY <2>5
  <2> QED
    BY <2>6
<1>2. F = Body(F)
  BY <1>1
<1>3. Len(E) = n /\ DOMAIN E = 1..n
  OBVIOUS
<1>4. FlattenSeq(E) = F[n]
  BY <1>3 DEF FlattenSeq
<1> HIDE DEF F
<1>5. F[1] = E[1] /\ DOMAIN F = 1..n /\ \A i \in 2..n : F[i] = F[i - 1] \o E[i]
  <2>1. \A i \in 1..n : F[i] = Body(F)[i]
    BY <1>2
  <2>2. DOMAIN F = DOMAIN Body(F)
    BY <1>2
  <2>3. 1 \in 1..n /\ \A i \in 2..n : i \in 1..n /\ i # 1
    OBVIOUS
  <2> QED
    BY <2>1, <2>2, <2>3
<1> DEFINE Good == {i \in 0..n : i = 0 \/ F[i] \in Seq(T)}
<1>6. ASSUME NEW i \in 1..n, i - 1 \in Good PROVE i \in Good
  <2>1. E[i] \in Seq(T)
    OBVIOUS
  <2>2. CASE i = 1
    BY <1>5, <2>1, <2>2
  <2>3. CASE i # 1
    <3>1. i \in 2..n /\ i - 1 # 0 /\ i \in 0..n
      BY <2>3
    <3>2. F[i - 1] \in Seq(T)
      BY <1>6, <3>1
    <3>3. F[i] = F[i - 1] \o E[i]
      BY <1>5, <3>1
    <3>4. F[i - 1] \o E[i] \in Seq(T)
      <4> DEFINE a == F[i - 1]
                 b == E[i]
      <4>1. a \in Seq(T) /\ b \in Seq(T)
        BY <2>1, <3>2
      <4> HIDE DEF a, b
      <4>2. a \o b \in Seq(T)
        BY <4>1, ConcatProperties
      <4> QED
        BY <4>2 DEF a, b
    <3> QED
      BY <3>1, <3>3, <3>4
  <2> QED
    BY <2>2, <2>3
<1>7. \A i \in 0..n : i \in Good
  <2>1. 0 \in Good
    OBVIOUS
  <2> HIDE DEF Good
  <2> QED
    BY <1>6, <2>1, Climbing
<1>8. \A i \in 1..n : F[i] \in Seq(T)
  <2>1. \A i \in 1..n : i \in 0..n /\ i # 0
    OBVIOUS
  <2> QED
    BY <1>7, <2>1
<1>9. F \in [1..n -> Seq(T)]
  <2>1. F = [i \in 1..n |-> F[i]]
    BY <1>2
  <2> QED
    BY <1>8, <2>1
<1> QED
  BY <1>4, <1>5, <1>9 DEF Strung

LEMMA Associative ==
    ASSUME NEW a \in Seq(Nat), NEW b \in Seq(Nat), NEW c \in Seq(Nat)
    PROVE  (a \o b) \o c = a \o (b \o c)
BY ConcatAssociative

\* What is left of them after each column.
Cut(r, n, E) ==
    /\ r \in Seq(Nat) /\ Len(r) >= n
    /\ \E T \in [0..n -> Seq(Nat)] : T[0] = r /\ T[n] = <<>> /\ \A i \in 1..n : T[i - 1] = E[i] \o T[i]

LEMMA Remainders ==
    ASSUME NEW n \in Nat \ {0}, NEW E \in [1..n -> Seq(Nat)], NEW r, r = FlattenSeq(E),
           \A i \in 1..n : Len(E[i]) > 0
    PROVE  Cut(r, n, E)
<1>1. PICK F \in [1..n -> Seq(Nat)] : F[1] = E[1] /\ FlattenSeq(E) = F[n] /\ \A i \in 2..n : F[i] = F[i - 1] \o E[i]
  <2>1. Strung(Nat, n, E)
    BY Flattened
  <2> QED
    BY <2>1 DEF Strung
<1>2. r \in Seq(Nat) /\ r = F[n]
  BY <1>1
<1>3. Len(r) >= n
  <2> DEFINE Long == {i \in 0..n : i = 0 \/ Len(F[i]) >= i}
  <2>1. 0 \in Long
    OBVIOUS
  <2>2. ASSUME NEW i \in 1..n, i - 1 \in Long PROVE i \in Long
    <3>1. E[i] \in Seq(Nat) /\ Len(E[i]) \in Nat /\ Len(E[i]) > 0
      BY LenProperties
    <3>2. CASE i = 1
      BY <1>1, <3>1, <3>2
    <3>3. CASE i # 1
      <4>1. i \in 2..n /\ i - 1 \in 1..n /\ F[i - 1] \in Seq(Nat) /\ Len(F[i - 1]) >= i - 1
        BY <2>2, <3>3
      <4>2. Len(F[i]) = Len(F[i - 1]) + Len(E[i]) /\ Len(F[i - 1]) \in Nat
        BY <1>1, <3>1, <4>1, ConcatProperties, LenProperties
      <4> QED
        BY <3>1, <4>1, <4>2
    <3> QED
      BY <3>2, <3>3
  <2> HIDE DEF Long
  <2>3. \A i \in 0..n : i \in Long
    BY <2>1, <2>2, Climbing
  <2>4. n \in 0..n /\ n # 0
    OBVIOUS
  <2> QED
    BY <1>2, <2>3, <2>4 DEF Long
<1> DEFINE rule == [i \in 1..n |-> [x \in Seq(Nat) |-> E[n + 1 - i] \o x]]
<1>4. \A i \in 1..n : n + 1 - i \in 1..n /\ \A x \in Seq(Nat) : rule[i][x] = E[n + 1 - i] \o x /\ E[n + 1 - i] \o x \in Seq(Nat)
  BY ConcatProperties
<1>5. rule \in Rules(n, Seq(Nat)) /\ <<>> \in Seq(Nat)
  BY <1>4 DEF Rules
<1> HIDE DEF rule
<1>6. PICK G : Obeys(G, n, Seq(Nat), <<>>, rule)
  BY <1>5, Recursive
<1>7. G \in [0..n -> Seq(Nat)] /\ G[0] = <<>> /\ \A i \in 1..n : i - 1 \in 0..n /\ G[i] = E[n + 1 - i] \o G[i - 1]
  <2>1. G \in [0..n -> Seq(Nat)] /\ G[0] = <<>> /\ \A i \in 1..n : G[i] = rule[i][G[i - 1]]
    BY <1>6 DEF Obeys
  <2>2. \A i \in 1..n : i - 1 \in 0..n
    OBVIOUS
  <2> QED
    BY <1>4, <2>1, <2>2
<1> DEFINE T == [i \in 0..n |-> G[n - i]]
           Whole == {j \in 0..n : j = n \/ F[n - j] \o G[j] = r}
<1>8. T \in [0..n -> Seq(Nat)] /\ T[n] = <<>>
  <2>1. (\A i \in 0..n : n - i \in 0..n) /\ n \in 0..n /\ n - n = 0
    OBVIOUS
  <2>2. \A i \in 0..n : T[i] = G[n - i]
    OBVIOUS
  <2>3. \A i \in 0..n : G[n - i] \in Seq(Nat)
    BY <1>7, <2>1
  <2>4. T \in [0..n -> Seq(Nat)]
    BY <2>3
  <2>5. T[n] = G[n - n]
    BY <2>1, <2>2
  <2> QED
    BY <1>7, <2>1, <2>4, <2>5
<1>9. ASSUME NEW i \in 1..n PROVE T[i - 1] = E[i] \o T[i]
  <2>1. n - i \in 0..n /\ n + 1 - i \in 1..n /\ n - (i - 1) = n + 1 - i /\ i - 1 \in 0..n /\ i \in 0..n
    OBVIOUS
  <2> DEFINE k == n + 1 - i
  <2>2. k \in 1..n /\ n + 1 - k = i /\ k - 1 = n - i
    OBVIOUS
  <2>3. T[i - 1] = G[k] /\ T[i] = G[n - i]
    BY <2>1
  <2> HIDE DEF k
  <2>4. G[k] = E[n + 1 - k] \o G[k - 1]
    BY <1>7, <2>2
  <2> HIDE DEF T
  <2> QED
    BY <2>2, <2>3, <2>4
<1>10. \A j \in 0..n : j \in Whole
  <2>1. 0 \in Whole
    <3>1. 0 \in 0..n /\ n - 0 = n
      OBVIOUS
    <3>2. r \o <<>> = r
      BY <1>2, ConcatEmptySeq
    <3>3. F[n - 0] \o G[0] = r
      BY <1>2, <1>7, <3>1, <3>2
    <3> QED
      BY <3>1, <3>3
  <2>2. ASSUME NEW j \in 1..n, j - 1 \in Whole PROVE j \in Whole
    <3>0. j \in 0..n
      OBVIOUS
    <3>1. SUFFICES ASSUME j # n PROVE F[n - j] \o G[j] = r
      BY <3>0
    <3>2. n - j \in 1..n /\ n + 1 - j \in 2..n /\ (n + 1 - j) - 1 = n - j /\ j - 1 # n /\ n - (j - 1) = n + 1 - j
            /\ j - 1 \in 0..n
      BY <3>1
    <3>3. F[n + 1 - j] = F[n - j] \o E[n + 1 - j]
      BY <1>1, <3>2
    <3>4. F[n + 1 - j] \o G[j - 1] = r
      BY <2>2, <3>2
    <3>5. F[n - j] \in Seq(Nat) /\ E[n + 1 - j] \in Seq(Nat) /\ G[j - 1] \in Seq(Nat)
      <4>1. n + 1 - j \in 1..n
        OBVIOUS
      <4>2. F[n - j] \in Seq(Nat)
        BY <3>2
      <4>3. E[n + 1 - j] \in Seq(Nat)
        BY <4>1
      <4>4. G[j - 1] \in Seq(Nat)
        BY <1>7, <3>2
      <4> QED
        BY <4>2, <4>3, <4>4
    <3>6. (F[n - j] \o E[n + 1 - j]) \o G[j - 1] = F[n - j] \o (E[n + 1 - j] \o G[j - 1])
      <4> DEFINE a == F[n - j]
                 b == E[n + 1 - j]
                 c == G[j - 1]
      <4>1. a \in Seq(Nat) /\ b \in Seq(Nat) /\ c \in Seq(Nat)
        BY <3>5
      <4> HIDE DEF a, b, c
      <4>2. (a \o b) \o c = a \o (b \o c)
        BY <4>1, Associative
      <4> QED
        BY <4>2 DEF a, b, c
    <3>7. G[j] = E[n + 1 - j] \o G[j - 1]
      BY <1>7
    <3> QED
      BY <3>3, <3>4, <3>6, <3>7
  <2> HIDE DEF Whole
  <2> QED
    BY <2>1, <2>2, Climbing
<1>11. T[0] = r
  <2>1. n - 1 \in 0..n /\ n - 1 # n /\ n - (n - 1) = 1 /\ 0 \in 0..n /\ n - 0 = n /\ n \in 1..n /\ n + 1 - n = 1
    OBVIOUS
  <2>2. F[1] \o G[n - 1] = r
    <3>1. n - 1 \in Whole
      BY <1>10, <2>1
    <3> QED
      BY <2>1, <3>1
  <2>3. G[n] = E[1] \o G[n - 1]
    BY <1>7, <2>1
  <2> QED
    BY <1>1, <2>1, <2>2, <2>3
<1> HIDE DEF T
<1> QED
  BY <1>2, <1>3, <1>8, <1>9, <1>11 DEF Cut

\* One column more is read.
Reading(rest, fields) == [rest |-> rest, fields |-> fields, bad |-> FALSE]

LEMMA ReadsOn ==
    ASSUME NEW cols, Shapely(cols), NEW i \in 1..Len(cols), NEW rest \in Seq(Nat), NEW r,
           r = EncodeField(cols[i]) \o rest
    PROVE  DecodeField(Reading(r, SubSeq(cols, 1, i - 1))) = Reading(rest, SubSeq(cols, 1, i))
<1> DEFINE before == SubSeq(cols, 1, i - 1)
           f == cols[i]
<1>1. cols \in Seq(ColumnsOf(KindNames)) /\ f \in ColumnsOf(KindNames) /\ Describable(f) /\ f.id = i
  BY DEF Shapely, Ordered
<1>2. before \in Seq(ColumnsOf(KindNames)) /\ Len(before) = i - 1 /\ \A j \in 1..i - 1 : before[j] = cols[j]
  BY <1>1
<1>3. before # <<>> => f.id > Last(before).id
  <2>1. SUFFICES ASSUME before # <<>> PROVE f.id > Last(before).id
    OBVIOUS
  <2>2. i - 1 \in 1..i - 1 /\ i - 1 \in 1..Len(cols)
    BY <1>2, <2>1, EmptySeq
  <2>3. Last(before) = cols[i - 1]
    BY <1>2, <2>2 DEF Last
  <2>4. cols[i - 1].id = i - 1
    BY <2>2 DEF Shapely, Ordered
  <2> QED
    BY <1>1, <2>3, <2>4
<1>4. Append(before, f) = SubSeq(cols, 1, i)
  BY <1>1
<1> HIDE DEF before, f
<1>5. DecodeField([rest |-> EncodeField(f) \o rest, fields |-> before, bad |-> FALSE])
        = [rest |-> rest, fields |-> Append(before, f), bad |-> FALSE]
  BY <1>1, <1>3, DecodesBack
<1>6. r = EncodeField(f) \o rest
  BY DEF f
<1> QED
  BY <1>4, <1>5, <1>6 DEF Reading, before

\* And all of them.
LEMMA ReadsAll ==
    ASSUME NEW cols, Shapely(cols), NEW n, n = Len(cols), NEW b, NEW r,
           b = <<DescriptorVersion, n>> \o r, r \in Seq(Nat), Len(r) >= n,
           NEW T \in [0..n -> Seq(Nat)], T[0] = r, T[n] = <<>>,
           \A i \in 1..n : T[i - 1] = EncodeField(cols[i]) \o T[i]
    PROVE  decodeDescriptor(b) = Reading(<<>>, cols)
<1> DEFINE Body(f) == [i \in 0..n |-> IF i = 0 THEN Cursor(SubSeq(b, 3, Len(b))) ELSE DecodeField(f[i - 1])]
           F == CHOOSE f : f = Body(f)
           G == [i \in 0..n |-> Reading(T[i], SubSeq(cols, 1, i))]
<1>1. n \in Nat \ {0} /\ cols \in Seq(ColumnsOf(KindNames))
  BY LenProperties, EmptySeq DEF Shapely, Ordered
<1>2. b[1] = DescriptorVersion /\ b[2] = n /\ Len(b) = Len(r) + 2 /\ SubSeq(b, 3, Len(b)) = r
  BY <1>1 DEF DescriptorVersion
<1>3. decodeDescriptor(b) = F[n]
  <2>1. Len(b) >= 2 /\ n # 0 /\ ~(n > Len(b) - 2) /\ Len(r) \in Nat
    BY <1>1, <1>2, LenProperties
  <2> QED
    BY <1>2, <2>1 DEF decodeDescriptor
<1>4. G[0] = Cursor(SubSeq(b, 3, Len(b)))
  <2>1. 0 \in 0..n
    BY <1>1
  <2>2. SubSeq(cols, 1, 0) = <<>>
    BY <1>1
  <2> QED
    BY <1>2, <2>1, <2>2 DEF Reading, Cursor
<1>5. \A i \in 1..n : i \in 0..n /\ i # 0 /\ i - 1 \in 0..n
  BY <1>1
<1>6. ASSUME NEW i \in 1..n PROVE G[i] = DecodeField(G[i - 1])
  <2>1. G[i - 1] = Reading(T[i - 1], SubSeq(cols, 1, i - 1)) /\ G[i] = Reading(T[i], SubSeq(cols, 1, i))
    BY <1>5
  <2>2. T[i] \in Seq(Nat) /\ i \in 1..Len(cols) /\ T[i - 1] = EncodeField(cols[i]) \o T[i]
    BY <1>5
  <2> HIDE DEF G
  <2> DEFINE rest == T[i]
             left == T[i - 1]
  <2>3. rest \in Seq(Nat) /\ left = EncodeField(cols[i]) \o rest
    BY <2>2
  <2> HIDE DEF rest, left
  <2>4. DecodeField(Reading(left, SubSeq(cols, 1, i - 1))) = Reading(rest, SubSeq(cols, 1, i))
    BY <2>2, <2>3, ReadsOn
  <2> QED
    BY <2>1, <2>4 DEF rest, left
<1>7. G = Body(G)
  <2>1. ASSUME NEW i \in 0..n PROVE G[i] = Body(G)[i]
    <3>1. CASE i = 0
      BY <1>4, <3>1
    <3>2. CASE i # 0
      <4>1. i \in 1..n
        BY <1>1, <3>2
      <4> HIDE DEF G
      <4> QED
        BY <1>6, <3>2, <4>1
    <3> QED
      BY <3>1, <3>2
  <2> QED
    BY <2>1
<1> HIDE DEF G
<1>8. F = Body(F)
  <2>1. \E f : f = Body(f)
    BY <1>7
  <2> QED
    BY <2>1
<1> HIDE DEF F
<1> DEFINE Same == {i \in 0..n : F[i] = G[i]}
<1>9. n \in Same
  <2>1. 0 \in Same
    <3>1. 0 \in 0..n
      BY <1>1
    <3>2. F[0] = Cursor(SubSeq(b, 3, Len(b)))
      BY <1>8, <3>1
    <3> QED
      BY <1>4, <3>1, <3>2
  <2>2. ASSUME NEW i \in 1..n, i - 1 \in Same PROVE i \in Same
    <3>1. F[i] = DecodeField(F[i - 1])
      BY <1>5, <1>8
    <3> QED
      BY <1>5, <1>6, <2>2, <3>1
  <2> HIDE DEF Same
  <2>3. \A i \in 0..n : i \in Same
    BY <1>1, <2>1, <2>2, Climbing
  <2> QED
    BY <1>1, <2>3
<1>10. G[n] = Reading(<<>>, cols)
  <2>1. n \in 0..n /\ SubSeq(cols, 1, n) = cols
    BY <1>1
  <2> QED
    BY <2>1 DEF G
<1> QED
  BY <1>3, <1>9, <1>10

\* A descriptor is read as the shape that it was written of.
LEMMA DescriptorBack ==
    ASSUME NEW cols, Shapely(cols)
    PROVE  ParseDescriptor(encodeDescriptor(cols)) = Accepted(cols)
<1> DEFINE n == Len(cols)
           E == [i \in 1..n |-> EncodeField(cols[i])]
           r == FlattenSeq(E)
           b == encodeDescriptor(cols)
<1>1. n \in Nat \ {0} /\ DOMAIN cols = 1..n
  BY LenProperties, EmptySeq DEF Shapely, Ordered
<1>2. b = <<DescriptorVersion, n>> \o r
  BY <1>1 DEF encodeDescriptor
<1>3. ASSUME NEW i \in 1..n PROVE EncodeField(cols[i]) \in Seq(Nat) /\ Len(EncodeField(cols[i])) > 0
  <2> DEFINE f == cols[i]
             m == IF f.kind = "decimal" THEN 6 ELSE 4
  <2>1. f \in ColumnsOf(KindNames) /\ Describable(f)
    BY <1>1 DEF Shapely, Ordered
  <2> HIDE DEF f
  <2>2. HeadOf(f) \in Seq(Nat) /\ Len(HeadOf(f)) = m /\ EncodeField(f) = HeadOf(f) \o f.name
    BY <2>1, HeadIs
  <2>3. m \in Nat /\ m > 0
    OBVIOUS
  <2> HIDE DEF m
  <2>4. EncodeField(f) \in Seq(Nat) /\ Len(EncodeField(f)) > 0
    <3>1. f.name \in Seq(Nat)
      BY <2>1 DEF ColumnsOf
    <3> QED
      BY <2>2, <2>3, <3>1, ConcatProperties, LenProperties
  <2> QED
    BY <2>4 DEF f
<1>4. E \in [1..n -> Seq(Nat)] /\ \A i \in 1..n : E[i] = EncodeField(cols[i]) /\ Len(E[i]) > 0
  BY <1>3
<1>9. r = FlattenSeq(E)
  OBVIOUS
<1> HIDE DEF E, n, r, b
<1>5. Cut(r, n, E)
  BY <1>1, <1>4, <1>9, Remainders
<1>6. /\ r \in Seq(Nat) /\ Len(r) >= n
      /\ \E T \in [0..n -> Seq(Nat)] : T[0] = r /\ T[n] = <<>> /\ \A i \in 1..n : T[i - 1] = E[i] \o T[i]
  BY <1>5 DEF Cut
<1>10. PICK T \in [0..n -> Seq(Nat)] : T[0] = r /\ T[n] = <<>> /\ \A i \in 1..n : T[i - 1] = E[i] \o T[i]
  BY <1>6
<1>7. decodeDescriptor(b) = Reading(<<>>, cols)
  <2>1. n = Len(cols) /\ \A i \in 1..n : T[i - 1] = EncodeField(cols[i]) \o T[i]
    BY <1>4, <1>10 DEF n
  <2> QED
    BY <1>2, <1>6, <1>10, <2>1, ReadsAll
<1>8. newDescriptor(cols) = Accepted(cols)
  BY <1>1 DEF newDescriptor, Shapely, n
<1> QED
  BY <1>7, <1>8 DEF ParseDescriptor, Reading, Accepted, b

\* What a later process makes of the descriptor.
LEMMA DescribedBack ==
    ASSUME NEW t, Named(t), Shapely(t.shape),
           t = [namespace |-> t.namespace, table |-> t.table, shape |-> t.shape]
    PROVE  DeclareFromDescriptor(t, encodeDescriptor(t.shape)) = Accepted(t.shape)
<1>1. ParseDescriptor(encodeDescriptor(t.shape)) = Accepted(t.shape)
  BY DescriptorBack
<1>2. [t EXCEPT !.shape = t.shape] = t
  OBVIOUS
<1>3. DeclareFields(t) = Accepted(t.shape)
  BY FieldsDeclare DEF Named, Shapely
<1> QED
  BY <1>1, <1>2, <1>3 DEF DeclareFromDescriptor, Accepted

-----------------------------------------------------------------------------
(***************************************************************************)
(* The mirror's names.                                                     *)
(***************************************************************************)

\* What a name is put together from.
Spelling(name, a, b) ==
    /\ Len(name) = Len(a) + 2 + Len(b)
    /\ \A i \in 1..Len(a) : name[i] = a[i]
    /\ name[Len(a) + 1] = "_" /\ name[Len(a) + 2] = "_"
    /\ \A i \in 1..Len(b) : name[Len(a) + 2 + i] = b[i]

LEMMA Joined ==
    ASSUME NEW a \in Seq(NameChars), NEW b \in Seq(NameChars)
    PROVE  /\ a \o b \in Seq(NameChars) /\ Len(a \o b) = Len(a) + Len(b)
           /\ \A i \in 1..Len(a) : (a \o b)[i] = a[i]
           /\ \A i \in 1..Len(b) : (a \o b)[Len(a) + i] = b[i]
<1>1. a \o b \in Seq(NameChars) /\ Len(a \o b) = Len(a) + Len(b)
        /\ \A i \in 1..Len(a) + Len(b) : (a \o b)[i] = IF i <= Len(a) THEN a[i] ELSE b[i - Len(a)]
  BY ConcatProperties
<1>2. Len(a) \in Nat /\ Len(b) \in Nat
  BY LenProperties
<1>3. ASSUME NEW i \in 1..Len(a) PROVE (a \o b)[i] = a[i]
  <2>1. i \in 1..Len(a) + Len(b) /\ i <= Len(a)
    BY <1>2
  <2> QED
    BY <1>1, <2>1
<1>4. ASSUME NEW i \in 1..Len(b) PROVE (a \o b)[Len(a) + i] = b[i]
  <2>1. Len(a) + i \in 1..Len(a) + Len(b) /\ ~(Len(a) + i <= Len(a)) /\ Len(a) + i - Len(a) = i
    BY <1>2
  <2> QED
    BY <1>1, <2>1
<1> QED
  BY <1>1, <1>3, <1>4

LEMMA NameIs ==
    ASSUME NEW t, Named(t)
    PROVE  Spelling(TableName(t), t.namespace, t.table)
<1> DEFINE a == t.namespace
           b == t.table
           sep == Separator
           left == a \o sep
           name == left \o b
<1>1. a \in Seq(NameChars) /\ b \in Seq(NameChars)
  BY DEF Named
<1>2. "_" \in NameChars
  BY DeclarationsAssumption
<1>3. sep \in Seq(NameChars) /\ Len(sep) = 2 /\ sep[1] = "_" /\ sep[2] = "_"
  <2>1. \A x \in NameChars :
          <<x, x>> \in Seq(NameChars) /\ Len(<<x, x>>) = 2 /\ <<x, x>>[1] = x /\ <<x, x>>[2] = x
    OBVIOUS
  <2>2. sep = <<"_", "_">>
    BY DEF Separator
  <2> HIDE DEF sep
  <2> QED
    BY <1>2, <2>1, <2>2
<1>4. TableName(t) = name
  BY DEF TableName
<1> HIDE DEF a, b, sep
<1>5. Len(a) \in Nat /\ Len(b) \in Nat
  BY <1>1, LenProperties
<1>6. left \in Seq(NameChars) /\ Len(left) = Len(a) + 2
        /\ (\A i \in 1..Len(a) : left[i] = a[i]) /\ \A i \in 1..2 : left[Len(a) + i] = sep[i]
  <2>1. left \in Seq(NameChars) /\ Len(left) = Len(a) + Len(sep)
          /\ (\A i \in 1..Len(a) : left[i] = a[i]) /\ \A i \in 1..Len(sep) : left[Len(a) + i] = sep[i]
    BY <1>1, <1>3, Joined
  <2> QED
    BY <1>3, <2>1
<1> HIDE DEF left
<1>7. Len(name) = Len(left) + Len(b)
        /\ (\A i \in 1..Len(left) : name[i] = left[i]) /\ \A i \in 1..Len(b) : name[Len(left) + i] = b[i]
  BY <1>1, <1>6, Joined
<1> HIDE DEF name
<1>8. \A i \in 1..Len(a) : i \in 1..Len(left)
  BY <1>5, <1>6
<1>9. Len(a) + 1 \in 1..Len(left) /\ Len(a) + 2 \in 1..Len(left) /\ 1 \in 1..2 /\ 2 \in 1..2
  BY <1>5, <1>6
<1>10. name[Len(a) + 1] = "_" /\ name[Len(a) + 2] = "_"
  <2>1. left[Len(a) + 1] = sep[1] /\ left[Len(a) + 2] = sep[2]
    BY <1>6, <1>9
  <2>2. name[Len(a) + 1] = left[Len(a) + 1] /\ name[Len(a) + 2] = left[Len(a) + 2]
    BY <1>7, <1>9
  <2> QED
    BY <1>3, <2>1, <2>2
<1>11. \A i \in 1..Len(a) : name[i] = a[i]
  BY <1>6, <1>7, <1>8
<1>12. Spelling(name, a, b)
  <2>1. Len(left) = Len(a) + 2
    BY <1>6
  <2> QED
    BY <1>7, <1>10, <1>11, <2>1 DEF Spelling
<1> QED
  BY <1>4, <1>12 DEF a, b

\* A name is not cut later than another that it equals.
LEMMA CutAlike ==
    ASSUME NEW name, NEW a \in Seq(NameChars), NEW b \in Seq(NameChars), NEW c \in Seq(NameChars),
           NEW d \in Seq(NameChars), ValidateName(b), ~HasSeparator(c),
           Spelling(name, a, b), Spelling(name, c, d)
    PROVE  Len(c) <= Len(a)
<1>1. Len(a) \in Nat /\ Len(b) \in Nat /\ Len(c) \in Nat /\ Len(d) \in Nat
  BY LenProperties
<1> SUFFICES ASSUME Len(a) < Len(c) PROVE FALSE
  BY <1>1
<1>2. CASE Len(a) + 2 <= Len(c)
  <2>1. Len(a) + 1 \in 1..Len(c) - 1 /\ Len(a) + 1 \in 1..Len(c) /\ Len(a) + 2 \in 1..Len(c) /\ Len(a) + 1 + 1 = Len(a) + 2
    BY <1>1, <1>2
  <2>2. c[Len(a) + 1] = "_" /\ c[Len(a) + 2] = "_"
    BY <2>1 DEF Spelling
  <2> QED
    BY <2>1, <2>2 DEF HasSeparator
<1>3. CASE Len(c) = Len(a) + 1
  <2>1. 1 \in 1..Len(b) /\ b[1] \in LegalChars
    <3>1. Len(b) \in 1..MaxNameLength /\ \A i \in DOMAIN b : b[i] \in LegalChars \/ (b[i] = "_" /\ i > 1)
      BY DEF ValidateName
    <3>2. 1 \in 1..Len(b) /\ DOMAIN b = 1..Len(b) /\ ~(1 > 1)
      <4>1. DOMAIN b = 1..Len(b)
        BY LenProperties
      <4>2. Len(b) >= 1
        <5>1. MaxNameLength \in Nat
          BY DeclarationsAssumption
        <5>2. Len(b) \in 1..MaxNameLength /\ Len(b) \in Nat
          BY <1>1, <3>1
        <5> QED
          BY <5>1, <5>2
      <4> QED
        BY <1>1, <4>1, <4>2
    <3> QED
      BY <3>1, <3>2
  <2>2. name[Len(a) + 2 + 1] = b[1] /\ name[Len(c) + 2] = "_"
    BY <2>1 DEF Spelling
  <2>3. Len(a) + 2 + 1 = Len(c) + 2
    BY <1>1, <1>3
  <2>4. "_" \notin LegalChars
    BY DeclarationsAssumption
  <2> QED
    BY <2>1, <2>2, <2>3, <2>4
<1> QED
  BY <1>1, <1>2, <1>3

LEMMA NamesApart ==
    ASSUME NEW t, NEW u, Named(t), Named(u), Mirrorable(t), Mirrorable(u), Apart(t, u)
    PROVE  TableName(t) # TableName(u)
<1> SUFFICES ASSUME TableName(t) = TableName(u) PROVE FALSE
  OBVIOUS
<1> DEFINE name == TableName(t)
           a == t.namespace
           b == t.table
           c == u.namespace
           d == u.table
<1>1. /\ a \in Seq(NameChars) /\ b \in Seq(NameChars) /\ c \in Seq(NameChars) /\ d \in Seq(NameChars)
      /\ ValidateName(b) /\ ValidateName(d) /\ ~HasSeparator(a) /\ ~HasSeparator(c)
      /\ a # c \/ b # d
  BY DEF Named, Mirrorable, Apart
<1>2. Spelling(name, a, b) /\ Spelling(name, c, d)
  BY NameIs
<1> HIDE DEF name, a, b, c, d
<1>3. Len(c) <= Len(a) /\ Len(a) <= Len(c)
  BY <1>1, <1>2, CutAlike
<1>4. Len(a) \in Nat /\ Len(b) \in Nat /\ Len(c) \in Nat /\ Len(d) \in Nat
  BY <1>1, LenProperties
<1>5. Len(a) = Len(c) /\ Len(b) = Len(d)
  <2>1. Len(name) = Len(a) + 2 + Len(b) /\ Len(name) = Len(c) + 2 + Len(d)
    BY <1>2 DEF Spelling
  <2> QED
    BY <1>3, <1>4, <2>1
<1>6. a = c
  <2>1. \A i \in 1..Len(a) : a[i] = c[i]
    BY <1>2, <1>5 DEF Spelling
  <2> QED
    BY <1>1, <1>5, <2>1, SameSeq
<1>7. b = d
  <2>1. \A i \in 1..Len(b) : b[i] = d[i]
    BY <1>2, <1>5 DEF Spelling
  <2> QED
    BY <1>1, <1>5, <2>1, SameSeq
<1> QED
  BY <1>1, <1>6, <1>7

-----------------------------------------------------------------------------
(***************************************************************************)
(* What is declared, opened, kept and read back, in every state.           *)
(***************************************************************************)

\* A table as it is declared.
Whole(t) ==
    /\ Named(t) /\ Ordered(t.shape)
    /\ t = [namespace |-> t.namespace, table |-> t.table, shape |-> t.shape]

\* What the tables are that a source comes to.
AllDeclared ==
    /\ DOMAIN tables = 1..Len(tables) /\ Len(tables) \in Nat
    /\ \A i \in DOMAIN tables : Whole(tables[i])
    /\ source.door = "document" => \A i \in DOMAIN tables : Shapely(tables[i].shape)
    /\ source.door # "document" =>
          source.door = "struct" /\ StructFit(source.table) /\ Declare(source.table).why = "none"
            /\ tables = <<Declare(source.table).x>>
    /\ \A i, j \in DOMAIN tables : i # j => Apart(tables[i], tables[j])

\* The inductive invariant.  Nothing is opened of a table that is not declared,
\* or kept of one that is not opened; and each is what its step made of the one
\* before it.
Kept ==
    /\ source \in Sources
    /\ tables # <<>> => Outcome = Accepted(tables)
    /\ tables = <<>> => described = <<>>
    /\ source.door = "document" /\ tables # <<>> => refused = "none"
    /\ described # <<>> =>
          /\ described = [i \in DOMAIN tables |-> tables[i].shape]
          /\ \A i \in DOMAIN tables : Shapely(tables[i].shape)
    /\ stored # <<>> =>
          described # <<>> /\ stored = [i \in DOMAIN described |-> encodeDescriptor(described[i])]
    /\ reread # <<>> =>
          stored # <<>> /\ reread = [i \in DOMAIN stored |-> DeclareFromDescriptor(tables[i], stored[i])]

LEMMA DocumentDeclared ==
    ASSUME source \in Sources, source.door = "document", Outcome = Accepted(tables)
    PROVE  AllDeclared
<1> DEFINE doc == source.tables
           n == Len(doc)
<1>1. doc \in Seq(Stating(DocumentFields)) /\ n \in Nat /\ DOMAIN doc = 1..n
  BY SourcesAssumption, LenProperties
<1>2. ASSUME NEW i \in 1..n PROVE Fits(doc[i])
  <2> DEFINE t == doc[i]
             fields == t.fields
  <2>1. t \in Stating(DocumentFields) /\ fields \in Seq(DocumentFields)
    <3>1. t \in Stating(DocumentFields)
      BY <1>1
    <3> HIDE DEF t
    <3> QED
      BY <3>1 DEF Stating
  <2>2. t.namespace \in Seq(NameChars) /\ t.table \in Seq(NameChars)
    BY <2>1 DEF Stating
  <2>3. \A j \in DOMAIN fields :
            fields[j].fieldid <= MaxFieldId
              /\ (fields[j].type = "decimal" \/ (fields[j].precision = 0 /\ fields[j].scale = 0))
    BY <1>1, SourcesAssumption
  <2> HIDE DEF fields
  <2>4. DOMAIN fields = 1..Len(fields)
    BY <2>1, LenProperties
  <2>5. FieldsFit(fields)
    BY <2>1, <2>3, <2>4 DEF FieldsFit
  <2> QED
    BY <2>2, <2>5 DEF Fits, fields
<1>3. ParseSchemaDocument(doc) = Accepted(tables)
  BY DEF Outcome
<1>4. ParseSchemaDocument(doc).why = "none" /\ ParseSchemaDocument(doc).x = tables
  BY <1>3 DEF Accepted
<1> HIDE DEF n
<1>5. tables = [i \in 1..n |-> DocumentTable(doc, i).x]
        /\ \A i \in 1..n : tables[i] = DocumentTable(doc, i).x /\ DocumentTable(doc, i).why = "none"
  BY <1>1, <1>2, <1>4, DocumentIs DEF n
<1>6. ASSUME NEW i \in 1..n
      PROVE  /\ Whole(tables[i]) /\ Shapely(tables[i].shape)
             /\ tables[i].namespace = doc[i].namespace /\ tables[i].table = doc[i].table
             /\ \A j \in 1..i - 1 : Apart(doc[j], doc[i])
  <2> DEFINE t == tables[i]
  <2>1. t = DocumentTable(doc, i).x /\ DocumentTable(doc, i).why = "none"
    BY <1>5
  <2> HIDE DEF t, doc
  <2>2. /\ Named(t) /\ Shapely(t.shape)
        /\ t = [namespace |-> doc[i].namespace, table |-> doc[i].table, shape |-> t.shape]
        /\ \A j \in 1..i - 1 : Apart(doc[j], doc[i])
    BY <1>2, <2>1, DocumentTableIs
  <2>3. t.namespace = doc[i].namespace /\ t.table = doc[i].table
    BY <2>2
  <2>4. Whole(t)
    BY <2>2, <2>3 DEF Whole, Shapely
  <2> QED
    BY <2>2, <2>3, <2>4 DEF t
<1>7. ASSUME NEW i \in 1..n, NEW j \in 1..n, i # j PROVE Apart(tables[i], tables[j])
  <2>1. i \in 1..j - 1 \/ j \in 1..i - 1
    BY <1>1, <1>7
  <2>2. Apart(doc[i], doc[j]) \/ Apart(doc[j], doc[i])
    BY <1>6, <2>1
  <2> QED
    BY <1>6, <2>2 DEF Apart
<1>8. Len(tables) \in Nat /\ DOMAIN tables = 1..Len(tables)
  <2>1. DOMAIN tables = 1..n /\ Len(tables) = n
    BY <1>1, <1>5
  <2> QED
    BY <1>1, <2>1
<1> QED
  BY <1>5, <1>6, <1>7, <1>8 DEF AllDeclared

LEMMA StructDeclared ==
    ASSUME source \in Sources, source.door # "document", Outcome = Accepted(tables)
    PROVE  AllDeclared
<1> DEFINE t == source.table
           u == Declare(t).x
           parts == <<Declare(t)>>
<1>1. source.door = "struct" /\ t \in Stating(StructFields)
        /\ \A i, j \in DOMAIN t.fields : i # j => t.fields[i].name # t.fields[j].name
  BY SourcesAssumption
<1>2. StructFit(t)
  BY <1>1 DEF StructFit
<1>3. Every(parts) = Accepted(tables)
  BY DEF Outcome
<1>4. DOMAIN parts = 1..1 /\ parts[1] = Declare(t)
  OBVIOUS
<1> HIDE DEF parts
<1>5. \A i \in 1..1 : parts[i].why = "none"
  <2>1. Every(parts).why = "none"
    BY <1>3 DEF Accepted
  <2>2. 1 \in Nat
    OBVIOUS
  <2> QED
    BY <1>4, <2>1, <2>2, EveryIs
<1>6. Every(parts) = Accepted([i \in 1..1 |-> parts[i].x])
  BY <1>4, <1>5, EveryIs
<1>7. tables = [i \in 1..1 |-> parts[i].x]
  BY <1>3, <1>6 DEF Accepted
<1>8. Declare(t).why = "none" /\ 1 \in 1..1
  BY <1>4, <1>5
<1> HIDE DEF t
<1>9. DOMAIN tables = 1..1 /\ tables[1] = u /\ tables = <<u>> /\ Len(tables) = 1
  BY <1>4, <1>7, <1>8
<1>10. Whole(u)
  <2> HIDE DEF u
  <2>1. Named(u) /\ Ordered(u.shape) /\ u = [namespace |-> t.namespace, table |-> t.table, shape |-> u.shape]
    BY <1>2, <1>8, DeclareIs DEF u
  <2> QED
    BY <2>1 DEF Whole
<1> HIDE DEF u
<1>11. \A i \in DOMAIN tables : i = 1
  BY <1>9
<1>12. tables = <<Declare(source.table).x>> /\ StructFit(source.table) /\ Declare(source.table).why = "none"
  BY <1>2, <1>8, <1>9 DEF t, u
<1> QED
  BY <1>1, <1>9, <1>10, <1>11, <1>12 DEF AllDeclared

LEMMA TablesDeclared ==
    ASSUME source \in Sources, Outcome = Accepted(tables)
    PROVE  AllDeclared
BY DocumentDeclared, StructDeclared

\* What the writers of the tables are open with.
LEMMA OpenIs ==
    ASSUME AllDeclared, NEW open, open = Every([i \in DOMAIN tables |-> Open(tables[i])])
    PROVE  /\ source.door = "document" => open.why = "none"
           /\ open.x # <<>> =>
                 /\ open.x = [i \in DOMAIN tables |-> tables[i].shape]
                 /\ \A i \in DOMAIN tables : Shapely(tables[i].shape)
<1> DEFINE n == Len(tables)
           parts == [i \in DOMAIN tables |-> Open(tables[i])]
<1>1. n \in Nat /\ DOMAIN tables = 1..n
  BY DEF AllDeclared
<1>2. DOMAIN parts = 1..n /\ (\A i \in 1..n : parts[i] = Open(tables[i])) /\ open = Every(parts)
  BY <1>1
<1> HIDE DEF parts, n
<1>3. ASSUME NEW i \in 1..n
      PROVE  /\ Shapely(tables[i].shape) => Open(tables[i]) = Accepted(tables[i].shape)
             /\ Open(tables[i]).why = "none" => Shapely(tables[i].shape)
  <2> DEFINE t == tables[i]
  <2>1. Whole(t) /\ (source.door = "document" => Shapely(t.shape))
    BY <1>1 DEF AllDeclared
  <2> HIDE DEF t
  <2>2. CASE source.door = "document"
    <3>1. OpenDynamicWriter(t) = Accepted(t.shape)
      BY <2>1, <2>2, FieldsDeclare DEF Whole, Named
    <3>2. Open(t) = OpenDynamicWriter(t)
      BY <2>2 DEF Open
    <3> QED
      BY <2>1, <2>2, <3>1, <3>2 DEF t
  <2>3. CASE source.door # "document"
    <3>1. Open(t) = FromFields(t.shape)
      BY <2>3 DEF Open, OpenWriter
    <3>2. Ordered(t.shape)
      BY <2>1 DEF Whole
    <3>3. /\ Shapely(t.shape) => FromFields(t.shape) = Accepted(t.shape)
          /\ FromFields(t.shape).why = "none" => Shapely(t.shape)
      BY <3>2, ShapelyIs
    <3> QED
      BY <3>1, <3>3 DEF t
  <2> QED
    BY <2>2, <2>3
<1>4. ASSUME \A i \in 1..n : Shapely(tables[i].shape)
      PROVE  open = Accepted([i \in 1..n |-> tables[i].shape])
  <2>1. \A i \in 1..n : parts[i] = Accepted(tables[i].shape)
    BY <1>2, <1>3, <1>4
  <2>2. \A i \in 1..n : parts[i].why = "none" /\ parts[i].x = tables[i].shape
    <3> SUFFICES ASSUME NEW i \in 1..n PROVE parts[i].why = "none" /\ parts[i].x = tables[i].shape
      OBVIOUS
    <3>1. parts[i] = Accepted(tables[i].shape)
      BY <2>1
    <3> QED
      BY <3>1 DEF Accepted
  <2>3. open = Accepted([i \in 1..n |-> parts[i].x])
    BY <1>1, <1>2, <2>2, EveryIs
  <2> QED
    BY <2>2, <2>3
<1>5. source.door = "document" => open.why = "none"
  <2>1. SUFFICES ASSUME source.door = "document" PROVE open.why = "none"
    OBVIOUS
  <2>2. \A i \in 1..n : Shapely(tables[i].shape)
    BY <1>1, <2>1 DEF AllDeclared
  <2>3. open = Accepted([i \in 1..n |-> tables[i].shape])
    BY <1>4, <2>2
  <2> QED
    BY <2>3 DEF Accepted
<1>6. open.x # <<>> => \A i \in 1..n : Shapely(tables[i].shape)
  <2>1. SUFFICES ASSUME open.x # <<>> PROVE \A i \in 1..n : Shapely(tables[i].shape)
    OBVIOUS
  <2>2. open.why = "none"
    BY <1>2, <2>1 DEF Every, Accepted, RefusedAs
  <2>3. \A i \in 1..n : parts[i].why = "none"
    BY <1>1, <1>2, <2>2, EveryIs
  <2> QED
    BY <1>2, <1>3, <2>3
<1>7. open.x # <<>> => open.x = [i \in 1..n |-> tables[i].shape]
  <2>1. SUFFICES ASSUME open.x # <<>> PROVE open.x = [i \in 1..n |-> tables[i].shape]
    OBVIOUS
  <2> DEFINE shapes == [i \in 1..n |-> tables[i].shape]
  <2>2. open = Accepted(shapes)
    BY <1>4, <1>6, <2>1
  <2> HIDE DEF shapes
  <2>3. open.x = shapes
    BY <2>2 DEF Accepted
  <2> QED
    BY <2>3 DEF shapes
<1> QED
  BY <1>1, <1>5, <1>6, <1>7

LEMMA OutcomeIs ==
    Outcome.x # <<>> => Outcome = Accepted(Outcome.x)
<1>1. ASSUME NEW parts, Every(parts).x # <<>> PROVE Every(parts) = Accepted(Every(parts).x)
  BY <1>1 DEF Every, Accepted, RefusedAs
<1>2. CASE source.door = "document"
  <2>1. SUFFICES ASSUME Outcome.x # <<>> PROVE Outcome = Accepted(Outcome.x)
    OBVIOUS
  <2>2. Outcome = ParseSchemaDocument(source.tables)
    BY <1>2 DEF Outcome
  <2> DEFINE parts == [i \in DOMAIN source.tables |-> DocumentTable(source.tables, i)]
  <2>3. Outcome = Every(parts)
    BY <2>1, <2>2 DEF ParseSchemaDocument, RefusedAs
  <2> HIDE DEF parts
  <2> QED
    BY <1>1, <2>1, <2>3
<1>3. CASE source.door # "document"
  BY <1>1, <1>3 DEF Outcome
<1> QED
  BY <1>2, <1>3

\* The invariant holds at first, and each step keeps it.
THEOREM DeclarationsInductive == DeclarationsSpec => []Kept
<1>1. DeclarationsInit => Kept
  BY DEF DeclarationsInit, Undeclared, Kept
<1>2. Kept /\ [DeclarationsNext]_declaring => Kept'
  <2> SUFFICES ASSUME Kept, [DeclarationsNext]_declaring PROVE Kept'
    OBVIOUS
  <2>1. CASE DeclareTables
    <3>1. described = <<>> /\ stored = <<>> /\ reread = <<>>
      BY <2>1 DEF Kept, DeclareTables
    <3>2. source' = source /\ described' = <<>> /\ stored' = <<>> /\ reread' = <<>>
      BY <2>1, <3>1 DEF DeclareTables
    <3>3. tables' = Outcome.x /\ refused' = Outcome.why /\ Outcome' = Outcome
      BY <2>1, <3>2 DEF DeclareTables, Outcome
    <3>4. tables' # <<>> => Outcome' = Accepted(tables') /\ refused' = "none"
      <4>1. SUFFICES ASSUME tables' # <<>> PROVE Outcome' = Accepted(tables') /\ refused' = "none"
        OBVIOUS
      <4>2. Outcome = Accepted(tables')
        BY <3>3, <4>1, OutcomeIs
      <4>3. Outcome.why = "none"
        BY <4>2 DEF Accepted
      <4> QED
        BY <3>3, <4>2, <4>3
    <3> QED
      BY <3>2, <3>4 DEF Kept
  <2>2. CASE OpenWriters
    <3> DEFINE open == Every([i \in DOMAIN tables |-> Open(tables[i])])
    <3>1. tables # <<>> /\ described = <<>> /\ stored = <<>> /\ reread = <<>>
      BY <2>2 DEF Kept, OpenWriters
    <3>2. source' = source /\ tables' = tables /\ stored' = <<>> /\ reread' = <<>> /\ Outcome' = Outcome
      BY <2>2, <3>1 DEF OpenWriters, Outcome
    <3>3. refused' = open.why /\ described' = open.x
      BY <2>2 DEF OpenWriters
    <3>4. AllDeclared /\ Outcome = Accepted(tables)
      BY <3>1, TablesDeclared DEF Kept
    <3>5. open = Every([i \in DOMAIN tables |-> Open(tables[i])])
      OBVIOUS
    <3> HIDE DEF open
    <3>6. /\ source.door = "document" => open.why = "none"
          /\ open.x # <<>> =>
                /\ open.x = [i \in DOMAIN tables |-> tables[i].shape]
                /\ \A i \in DOMAIN tables : Shapely(tables[i].shape)
      BY <3>4, <3>5, OpenIs
    <3>7. source' \in Sources
      BY <3>2 DEF Kept
    <3> QED
      BY <3>1, <3>2, <3>3, <3>4, <3>6, <3>7 DEF Kept
  <2>3. CASE Stage
    <3>1. described # <<>> /\ stored = <<>> /\ reread = <<>>
      BY <2>3 DEF Kept, Stage
    <3>2. /\ source' = source /\ tables' = tables /\ refused' = refused /\ described' = described /\ reread' = <<>>
          /\ Outcome' = Outcome
      BY <2>3, <3>1 DEF Stage, Outcome
    <3>3. stored' = [i \in DOMAIN described' |-> encodeDescriptor(described'[i])]
      BY <2>3, <3>2 DEF Stage
    <3> QED
      BY <3>1, <3>2, <3>3 DEF Kept
  <2>4. CASE Reopen
    <3>1. /\ source' = source /\ tables' = tables /\ refused' = refused /\ described' = described /\ stored' = stored
          /\ Outcome' = Outcome /\ stored # <<>>
      BY <2>4 DEF Reopen, Outcome
    <3>2. reread' = [i \in DOMAIN stored' |-> DeclareFromDescriptor(tables'[i], stored'[i])]
      BY <2>4, <3>1 DEF Reopen
    <3> QED
      BY <3>1, <3>2 DEF Kept
  <2>5. CASE UNCHANGED declaring
    BY <2>5 DEF Kept, declaring, Outcome
  <2> QED
    BY <2>1, <2>2, <2>3, <2>4, <2>5 DEF DeclarationsNext
<1> QED
  BY <1>1, <1>2, PTL DEF DeclarationsSpec

\* However a table is declared, by a struct, by a document or by the descriptor
\* kept of it, it is declared alike (schemamap.Declare, ParseSchemaDocument,
\* DeclareFromDescriptor).
THEOREM DeclarationsAgree == DeclarationsSpec => []DeclaredAlike
<1>1. Kept => DeclaredAlike
  <2> SUFFICES ASSUME Kept PROVE DeclaredAlike
    OBVIOUS
  <2>1. tables # <<>> => AllDeclared
    BY TablesDeclared DEF Kept
  <2>2. ASSUME source.door = "document", tables # <<>>
        PROVE  refused = "none" /\ \A i \in DOMAIN tables : Declare(Structured(tables[i])) = Accepted(tables[i])
    <3>1. refused = "none"
      BY <2>2 DEF Kept
    <3>2. ASSUME NEW i \in DOMAIN tables PROVE Declare(Structured(tables[i])) = Accepted(tables[i])
      <4> DEFINE t == tables[i]
      <4>1. Whole(t) /\ Shapely(t.shape)
        BY <2>1, <2>2 DEF AllDeclared
      <4> HIDE DEF t
      <4>2. Declare(Structured(t)) = Accepted(t)
        BY <4>1, StructuredBack DEF Whole
      <4> QED
        BY <4>2 DEF t
    <3> QED
      BY <3>1, <3>2
  <2>3. ASSUME source.door = "struct", described # <<>>
        PROVE  ParseSchemaDocument(<<Stated(source.table)>>) = Accepted(tables)
    <3> DEFINE t == source.table
               u == Declare(t).x
    <3>1. AllDeclared /\ \A i \in DOMAIN tables : Shapely(tables[i].shape)
      BY <2>1, <2>3 DEF Kept
    <3>2. StructFit(t) /\ Declare(t).why = "none" /\ tables = <<u>>
      BY <2>3, <3>1 DEF AllDeclared
    <3> HIDE DEF u
    <3>3. 1 \in DOMAIN tables /\ tables[1] = u
      BY <3>2
    <3>4. Shapely(u.shape)
      BY <3>1, <3>3
    <3> HIDE DEF t
    <3>5. ParseSchemaDocument(<<Stated(t)>>) = Accepted(<<u>>)
      BY <3>2, <3>4, StatedBack DEF u
    <3> QED
      BY <3>2, <3>5 DEF t
  <2>4. ShapeSurvives
    <3> SUFFICES ASSUME NEW i \in DOMAIN reread PROVE reread[i] = Accepted(tables[i].shape)
      BY DEF ShapeSurvives
    <3>1. reread # <<>>
      OBVIOUS
    <3>2. /\ stored # <<>> /\ described # <<>> /\ tables # <<>>
          /\ reread = [k \in DOMAIN stored |-> DeclareFromDescriptor(tables[k], stored[k])]
          /\ stored = [k \in DOMAIN described |-> encodeDescriptor(described[k])]
          /\ described = [k \in DOMAIN tables |-> tables[k].shape]
          /\ \A k \in DOMAIN tables : Shapely(tables[k].shape)
      BY <3>1 DEF Kept
    <3>3. i \in DOMAIN stored /\ i \in DOMAIN described /\ i \in DOMAIN tables
      BY <3>2
    <3> DEFINE t == tables[i]
    <3>4. reread[i] = DeclareFromDescriptor(t, encodeDescriptor(t.shape)) /\ Shapely(t.shape)
      <4>1. reread[i] = DeclareFromDescriptor(tables[i], stored[i])
        BY <3>2, <3>3
      <4>2. stored[i] = encodeDescriptor(described[i])
        BY <3>2, <3>3
      <4>3. described[i] = tables[i].shape /\ Shapely(tables[i].shape)
        BY <3>2, <3>3
      <4> QED
        BY <4>1, <4>2, <4>3
    <3>5. Whole(t)
      BY <2>1, <3>2, <3>3 DEF AllDeclared
    <3> HIDE DEF t
    <3>6. DeclareFromDescriptor(t, encodeDescriptor(t.shape)) = Accepted(t.shape)
      BY <3>4, <3>5, DescribedBack DEF Whole
    <3> QED
      BY <3>4, <3>6 DEF t
  <2> QED
    BY <2>2, <2>3, <2>4 DEF DeclaredAlike, DoorsDeclareAlike
<1> QED
  BY <1>1, DeclarationsInductive, PTL

\* No two tables come to share a table of the mirror (chmirror's TableName).
THEOREM MirrorNamesDiffer == DeclarationsSpec => []MirrorTablesApart
<1>1. Kept => MirrorTablesApart
  <2> SUFFICES ASSUME Kept, NEW i \in DOMAIN tables, NEW j \in DOMAIN tables, i # j,
                      Mirrorable(tables[i]), Mirrorable(tables[j])
               PROVE  TableName(tables[i]) # TableName(tables[j])
    BY DEF MirrorTablesApart
  <2>1. tables # <<>>
    OBVIOUS
  <2>2. AllDeclared
    BY <2>1, TablesDeclared DEF Kept
  <2>3. Named(tables[i]) /\ Named(tables[j]) /\ Apart(tables[i], tables[j])
    BY <2>2 DEF AllDeclared, Whole
  <2> QED
    BY <2>3, NamesApart
<1> QED
  BY <1>1, DeclarationsInductive, PTL

-----------------------------------------------------------------------------
(***************************************************************************)
(* A stream, cut.  The buffer is a window on the input, whatever the reads  *)
(* and the growth have made of it; what lies before the window is records   *)
(* and white space, of which the newlines are counted; what the scanner has *)
(* decided of the record in the window is so of the input.                  *)
(***************************************************************************)

FrameSet == [first : Nat, last : Nat, line : Nat]

\* The buffer is a window on the input.
Windowed ==
    /\ input \in Seq(STRING)
    /\ fed \in 0..Len(input) /\ size \in 0..Ceiling
    /\ start \in Nat /\ end \in Nat /\ start <= end /\ end <= size /\ Held <= fed
    /\ eof \in BOOLEAN /\ (eof => fed = Len(input))

\* What lies before the next byte has been accounted for.
Passed ==
    /\ lines \in Nat /\ frames \in Seq(FrameSet)
    /\ \A i \in DOMAIN frames : FramedAt(i) /\ frames[i].first <= First /\ frames[i].last < First
    /\ Sought(Len(frames)) \in 1..First
    /\ \A q \in Sought(Len(frames))..First - 1 : input[q] \in Spaces
    /\ NewlinesBefore(First) \subseteq 1..First - 1
    /\ lines = Cardinality(NewlinesBefore(First))

Underway ==
    /\ phase \in {"next", "json", "cbor", "stopped"}
    /\ phase = "json" => Held > 0 /\ input[First] = "brace"
    /\ phase = "cbor" => Held > 0 /\ input[First] \in Heads
    /\ phase # "stopped" => refusal = None
    /\ phase = "stopped" /\ refusal.kind # "read" => EndedAt(Mark(Len(frames)))

\* The invariant FramedAsWritten follows from.
Scanned == Windowed /\ Passed /\ Underway

LEMMA CeilingIs == Ceiling \in Nat /\ Ceiling > 2 /\ Ceiling > Limit + 1
<1>1. Limit \in Nat /\ Slack \in Nat /\ Slack >= 2
  BY FramingAssumption
<1>2. Limit # 0
  BY FramingAssumption
<1> QED
  BY <1>1, <1>2 DEF Ceiling

LEMMA PositionIs ==
    ASSUME Windowed
    PROVE  /\ Held \in Nat /\ Held <= size /\ Held <= Ceiling /\ First \in Nat /\ First >= 1
           /\ First + Held = fed + 1 /\ First <= Len(input) + 1 /\ Len(input) \in Nat
BY CeilingIs DEF Windowed, Held, First

LEMMA FirstOfIs ==
    ASSUME NEW S, NEW m \in S, S \subseteq Nat, \A r \in S : m <= r
    PROVE  FirstOf(S) = m
<1>1. \A q \in S : (\A r \in S : q <= r) => q = m
  BY SMT
<1> QED
  BY <1>1 DEF FirstOf

\* The bytes of the buffer are those of the input.
LEMMA Byte ==
    ASSUME Windowed, NEW i \in 1..Held
    PROVE  At(i) = input[First + i - 1] /\ First + i - 1 \in First..fed /\ First + i - 1 \in 1..Len(input)
BY PositionIs DEF At, Windowed

LEMMA Buffered ==
    ASSUME Windowed, NEW q \in First..fed
    PROVE  q - First + 1 \in 1..Held /\ At(q - First + 1) = input[q]
BY PositionIs DEF At, Windowed

-----------------------------------------------------------------------------
\* A step that keeps the frames there are, and adds one at most from First on.
Grows ==
    /\ input' = input /\ frames \in Seq(FrameSet) /\ frames' \in Seq(FrameSet)
    /\ Len(frames) <= Len(frames')
    /\ \A i \in 1..Len(frames) : frames'[i] = frames[i]
    /\ \A i \in Len(frames) + 1..Len(frames') : frames'[i].first >= First

LEMMA SameNewlines ==
    ASSUME Grows, First \in Nat, NEW p \in Nat, p <= First
    PROVE  NewlinesBefore(p)' = NewlinesBefore(p)
<1>1. DOMAIN frames = 1..Len(frames) /\ DOMAIN frames' = 1..Len(frames') /\ Len(frames) \in Nat /\ Len(frames') \in Nat
  BY DEF Grows
<1>2. ASSUME NEW q \in 1..p - 1
      PROVE  (\A i \in DOMAIN frames : q \notin frames[i].first..frames[i].last)
             <=> (\A i \in DOMAIN frames' : q \notin frames'[i].first..frames'[i].last)
  <2>1. ASSUME NEW i \in Len(frames) + 1..Len(frames') PROVE q \notin frames'[i].first..frames'[i].last
    <3>1. frames'[i] \in FrameSet
      BY <1>1 DEF Grows
    <3>2. frames'[i].first \in Nat /\ frames'[i].first >= First
      BY <3>1 DEF Grows, FrameSet
    <3>3. frames'[i].first > q
      BY <3>2
    <3> QED
      BY <3>3, <3>2
  <2> QED
    BY <2>1, <1>1 DEF Grows
<1> QED
  BY <1>2 DEF NewlinesBefore, Grows

LEMMA SameRefusals ==
    ASSUME Grows, First \in Nat, NEW p \in Nat, p <= First
    PROVE  LineOf(p)' = LineOf(p) /\ Refusals(p)' = Refusals(p) /\ LastOf(p)' = LastOf(p) /\ NextOf(p)' = NextOf(p)
<1>1. LineOf(p)' = LineOf(p)
  BY SameNewlines DEF LineOf
<1>2. input' = input
  BY DEF Grows
<1>3. LineFeed(p)' = LineFeed(p)
  BY <1>2 DEF LineFeed, FirstOf
<1>4. TextEnd(p)' = TextEnd(p) /\ ItemEnd(p)' = ItemEnd(p)
  BY <1>2, <1>3 DEF TextEnd, ItemEnd
<1>5. \A n : Broken(p, n)' = Broken(p, n)
  BY <1>2 DEF Broken
<1>6. \A n : ItemRefusals(p, n)' = ItemRefusals(p, n)
  BY <1>1, <1>2, <1>4, <1>5 DEF ItemRefusals
<1>7. Refusals(p)' = Refusals(p)
  BY <1>1, <1>2, <1>4, <1>6 DEF Refusals
<1> QED
  BY <1>1, <1>2, <1>3, <1>4, <1>7 DEF LastOf, NextOf

LEMMA SameMarks ==
    ASSUME Grows, First \in Nat, NEW i \in 0..Len(frames),
           \A j \in DOMAIN frames : frames[j].first <= First
    PROVE  Sought(i)' = Sought(i) /\ Mark(i)' = Mark(i)
<1>1. input' = input
  BY DEF Grows
<1>2. Sought(i)' = Sought(i)
  <2>1. CASE i = 0
    BY <2>1 DEF Sought
  <2>2. CASE i # 0
    <3>1. i \in 1..Len(frames) /\ i \in DOMAIN frames /\ frames'[i] = frames[i]
      BY <2>2 DEF Grows
    <3>2. frames[i] \in FrameSet
      BY <3>1 DEF Grows
    <3>3. frames[i].first \in Nat /\ frames[i].first <= First
      BY <3>1, <3>2 DEF FrameSet
    <3>4. NextOf(frames[i].first)' = NextOf(frames[i].first)
      <4>1. PICK p \in Nat : p = frames[i].first
        BY <3>3
      <4>2. NextOf(p)' = NextOf(p)
        BY <4>1, <3>3, SameRefusals
      <4>3. NextOf(frames[i].first)' = NextOf(p)'
        BY <4>1, <3>1 DEF NextOf, LineFeed, FirstOf, ItemEnd
      <4> QED
        BY <4>1, <4>2, <4>3
    <3> QED
      BY <3>4, <2>2 DEF Sought
  <2> QED
    BY <2>1, <2>2
<1> QED
  BY <1>1, <1>2 DEF Mark, FirstOf

\* A record that has been framed stays framed.
LEMMA StillFramed ==
    ASSUME Grows, First \in Nat, NEW i \in DOMAIN frames, FramedAt(i),
           \A j \in DOMAIN frames : frames[j].first <= First
    PROVE  FramedAt(i)'
<1>1. i \in 1..Len(frames) /\ i - 1 \in 0..Len(frames) /\ frames'[i] = frames[i] /\ input' = input
  BY DEF Grows
<1>2. Mark(i - 1)' = Mark(i - 1)
  BY <1>1, SameMarks
<1>3. frames[i].first = Mark(i - 1) /\ frames[i].first \in Nat
  <2>1. frames[i] \in FrameSet
    BY DEF Grows
  <2>2. frames[i].first \in Nat
    BY <2>1 DEF FrameSet
  <2>3. PICK b, c : frames[i] = [first |-> Mark(i - 1), last |-> b, line |-> c]
    BY Zenon DEF FramedAt
  <2>4. frames[i].first = Mark(i - 1)
    BY <2>3
  <2> QED
    BY <2>2, <2>4
<1> DEFINE p == frames[i].first
<1>4. p \in Nat /\ p <= First /\ p = Mark(i - 1)
  BY <1>3
<1> HIDE DEF p
<1>5. LineOf(p)' = LineOf(p) /\ Refusals(p)' = Refusals(p) /\ LastOf(p)' = LastOf(p)
  <2>1. PICK q \in Nat : q = p
    BY <1>4
  <2>2. p' = p
    BY <1>1 DEF p
  <2>3. LineOf(q)' = LineOf(q) /\ Refusals(q)' = Refusals(q) /\ LastOf(q)' = LastOf(q)
    BY <2>1, <1>4, SameRefusals
  <2>4. LineOf(p)' = LineOf(q)' /\ Refusals(p)' = Refusals(q)' /\ LastOf(p)' = LastOf(q)'
    <3>1. p' = q
      BY <2>1, <2>2
    <3> QED
      BY <3>1 DEF LineOf, NewlinesBefore, Refusals, ItemRefusals, Broken, LastOf, TextEnd, LineFeed, FirstOf, ItemEnd
  <2> QED
    BY <2>1, <2>3, <2>4
<1>6. p' = p
  BY <1>1 DEF p
<1>7. Mark(i - 1)' = p'
  BY <1>2, <1>4, <1>6
<1> QED
  BY <1>1, <1>4, <1>5, <1>6, <1>7 DEF FramedAt

-----------------------------------------------------------------------------
(***************************************************************************)
(* Where the next record begins, and what is passed.                       *)
(***************************************************************************)
LEMMA Reached ==
    ASSUME Windowed, Passed, First <= Len(input), input[First] \notin Spaces
    PROVE  Mark(Len(frames)) = First
<1> DEFINE S == {q \in Sought(Len(frames))..Len(input) : input[q] \notin Spaces}
<1>1. Sought(Len(frames)) \in Nat /\ Sought(Len(frames)) <= First /\ First \in Nat /\ Len(input) \in Nat
  BY PositionIs DEF Passed
<1>2. First \in S /\ S \subseteq Nat
  BY <1>1
<1>3. ASSUME NEW r \in S PROVE First <= r
  <2>1. r \in Nat /\ r >= Sought(Len(frames)) /\ input[r] \notin Spaces
    BY <1>1
  <2>2. ~(r \in Sought(Len(frames))..First - 1)
    BY <2>1 DEF Passed
  <2> QED
    BY <1>1, <2>1, <2>2
<1> HIDE DEF S
<1>4. FirstOf(S) = First
  BY <1>2, <1>3, FirstOfIs
<1> QED
  BY <1>4 DEF Mark, S

LEMMA ReachedEnd ==
    ASSUME Windowed, Passed, First = Len(input) + 1
    PROVE  Mark(Len(frames)) = Len(input) + 1
<1>1. {q \in Sought(Len(frames))..Len(input) : input[q] \notin Spaces} = {}
  <2>1. \A q \in Sought(Len(frames))..First - 1 : input[q] \in Spaces
    BY DEF Passed
  <2>2. First - 1 = Len(input)
    BY PositionIs
  <2> QED
    BY <2>1, <2>2
<1> QED
  BY <1>1 DEF Mark, FirstOf

LEMMA OnLine ==
    ASSUME Passed
    PROVE  LineOf(First) = lines + 1
BY DEF Passed, LineOf

\* A read, a refusal or a decision leaves the next byte where it is.
LEMMA Stays ==
    ASSUME Windowed, Passed, UNCHANGED <<input, frames, lines>>, First' = First
    PROVE  Passed'
<1>1. Grows
  BY DEF Grows, Passed
<1>2. First \in Nat /\ Len(frames) \in Nat /\ Len(frames) \in 0..Len(frames)
  BY PositionIs DEF Passed
<1>3. \A j \in DOMAIN frames : frames[j].first <= First
  BY DEF Passed
<1>4. Sought(Len(frames))' = Sought(Len(frames))
  <2>1. PICK n \in 0..Len(frames) : n = Len(frames)
    BY <1>2
  <2>2. Sought(n)' = Sought(n)
    BY <1>1, <1>2, <1>3, SameMarks
  <2>3. Sought(Len(frames))' = Sought(n)'
    BY <2>1 DEF Sought, NextOf, LineFeed, FirstOf, ItemEnd
  <2> QED
    BY <2>1, <2>2, <2>3
<1>5. NewlinesBefore(First)' = NewlinesBefore(First)
  BY DEF NewlinesBefore
<1>6. \A i \in DOMAIN frames : FramedAt(i)'
  <2> TAKE i \in DOMAIN frames
  <2>1. FramedAt(i)
    BY DEF Passed
  <2> QED
    BY <2>1, <1>1, <1>2, <1>3, StillFramed
<1>7. \A i \in DOMAIN frames' : FramedAt(i)' /\ frames'[i].first <= First' /\ frames'[i].last < First'
  BY <1>6 DEF Passed
<1>8. Sought(Len(frames))' \in 1..First' /\ \A q \in Sought(Len(frames))'..First' - 1 : input'[q] \in Spaces
  BY <1>4 DEF Passed
<1>9. lines' \in Nat /\ frames' \in Seq(FrameSet) /\ NewlinesBefore(First)' \subseteq 1..First' - 1
      /\ lines' = Cardinality(NewlinesBefore(First)')
  BY <1>5 DEF Passed
<1> QED
  BY <1>7, <1>8, <1>9 DEF Passed

\* The newlines passed are those that no record holds.
LEMMA Gained ==
    ASSUME Windowed, Passed, input' = input, NEW n \in Nat, NEW skipped \in Nat, n >= 1, n <= skipped, NEW p \in Nat, p = First + skipped, NEW line,
           frames' = Append(frames, [first |-> First, last |-> First + n - 1, line |-> line]), line \in Nat
    PROVE  /\ Grows
           /\ NewlinesBefore(p)' = NewlinesBefore(First) \union {q \in First + n..p - 1 : input[q] = "nl"}
<1> DEFINE f == [first |-> First, last |-> First + n - 1, line |-> line]
<1>1. First \in Nat /\ First >= 1 /\ frames \in Seq(FrameSet) /\ Len(frames) \in Nat
  BY PositionIs DEF Passed
<1>2. f \in FrameSet
  BY <1>1 DEF FrameSet
<1>3. /\ frames' \in Seq(FrameSet) /\ Len(frames') = Len(frames) + 1
      /\ \A i \in 1..Len(frames) : frames'[i] = frames[i]
      /\ frames'[Len(frames) + 1] = f
  BY <1>1, <1>2
<1>4. f.first = First /\ f.last = First + n - 1
  OBVIOUS
<1> HIDE DEF f
<1>5. \A i \in Len(frames) + 1..Len(frames') : i = Len(frames) + 1
  BY <1>1, <1>3
<1>6. Grows
  BY <1>1, <1>3, <1>4, <1>5 DEF Grows
<1>7. DOMAIN frames' = 1..Len(frames) + 1 /\ DOMAIN frames = 1..Len(frames)
  BY <1>1, <1>3
<1>8. ASSUME NEW q \in Nat
      PROVE  (\A i \in DOMAIN frames' : q \notin frames'[i].first..frames'[i].last)
             <=> (\A i \in DOMAIN frames : q \notin frames[i].first..frames[i].last) /\ q \notin First..First + n - 1
  <2>1. \A i \in DOMAIN frames' : i \in DOMAIN frames \/ i = Len(frames) + 1
    BY <1>1, <1>7
  <2>2. Len(frames) + 1 \in DOMAIN frames' /\ DOMAIN frames \subseteq DOMAIN frames'
    BY <1>1, <1>7
  <2>3. \A i \in DOMAIN frames : frames'[i] = frames[i]
    BY <1>3, <1>7
  <2> HIDE <1>7
  <2> QED
    BY <2>1, <2>2, <2>3, <1>3, <1>4
<1>9. ASSUME NEW q \in Nat, q >= First
      PROVE  \A i \in DOMAIN frames : q \notin frames[i].first..frames[i].last
  <2> TAKE i \in DOMAIN frames
  <2>1. frames[i].last \in Nat /\ frames[i].first \in Nat /\ frames[i].last < First
    <3>1. frames[i] \in FrameSet
      BY <1>1
    <3> QED
      BY <3>1 DEF FrameSet, Passed
  <2> QED
    BY <2>1, <1>9, <1>1
<1> DEFINE Out(q) == \A i \in DOMAIN frames : q \notin frames[i].first..frames[i].last
<1>10. NewlinesBefore(First) = {q \in 1..First - 1 : input[q] = "nl" /\ Out(q)}
  BY DEF NewlinesBefore
<1>11. NewlinesBefore(p)' = {q \in 1..p - 1 : input[q] = "nl" /\ Out(q) /\ q \notin First..First + n - 1}
  <2>1. NewlinesBefore(p)' =
          {q \in 1..p - 1 :
              input'[q] = "nl" /\ \A i \in DOMAIN frames' : q \notin frames'[i].first..frames'[i].last}
    BY DEF NewlinesBefore
  <2>2. \A q \in 1..p - 1 : q \in Nat
    OBVIOUS
  <2> QED
    BY <2>1, <2>2, <1>8
<1> HIDE DEF Out
<1>12. ASSUME NEW q \in Nat, q >= First PROVE Out(q)
  BY <1>9, <1>12 DEF Out
<1> QED
  BY <1>1, <1>6, <1>10, <1>11, <1>12

LEMMA SoughtNext ==
    ASSUME NEW c \in Nat \ {0}, NEW h \in Nat, Len(frames') = c, frames'[c].first = h
    PROVE  Sought(Len(frames))' = NextOf(h)'
<1>1. Sought(Len(frames))' = NextOf(frames[c].first)'
  BY DEF Sought, NextOf, LineFeed, FirstOf, ItemEnd
<1>2. NextOf(frames[c].first)' = NextOf(h)'
  BY DEF NextOf, LineFeed, FirstOf, ItemEnd
<1> QED
  BY <1>1, <1>2

\* A record handed out is the one that begins at the next byte.
LineFor(p) == IF input[p] = "brace" THEN LineOf(p) ELSE 0
PassedOver(n, p) == NewlinesBefore(First) \union {q \in First + n..p - 1 : input[q] = "nl"}

LEMMA Handed ==
    ASSUME Windowed, Passed, First <= Len(input), input[First] \notin Spaces, Refusals(First) = {}, input' = input,
           NEW n \in Nat, NEW skipped \in Nat, n >= 1, n <= skipped, NEW p \in Nat, p = First + skipped, First' = p,
           LastOf(First) = First + n - 1, NextOf(First) = p,
           NEW line \in Nat, line = LineFor(First),
           frames' = Append(frames, [first |-> First, last |-> First + n - 1, line |-> line]),
           lines' \in Nat, lines' = Cardinality(PassedOver(n, p))
    PROVE  Passed'
<1>1. /\ Grows
      /\ NewlinesBefore(p)' = PassedOver(n, p)
  <2>1. /\ Grows
        /\ NewlinesBefore(p)' = NewlinesBefore(First) \union {q \in First + n..p - 1 : input[q] = "nl"}
    BY Gained
  <2> QED
    BY <2>1 DEF PassedOver
<1>2. First \in Nat /\ First >= 1 /\ Len(frames) \in Nat /\ Len(frames) \in 0..Len(frames)
  BY PositionIs DEF Passed
<1>3. \A j \in DOMAIN frames : frames[j].first <= First
  BY DEF Passed
<1>4. PICK c \in Nat : c = Len(frames) + 1
  BY <1>2
<1>5. PICK h \in Nat : h = First
  BY <1>2
<1> DEFINE f == [first |-> h, last |-> h + n - 1, line |-> line]
<1>6. /\ frames' \in Seq(FrameSet) /\ Len(frames') = c /\ frames'[c] = f
      /\ DOMAIN frames' = 1..c /\ DOMAIN frames = 1..c - 1
      /\ \A i \in DOMAIN frames : frames'[i] = frames[i]
  <2>1. f \in FrameSet
    BY <1>2, <1>5 DEF FrameSet
  <2>2. frames \in Seq(FrameSet) /\ frames' = Append(frames, f)
    BY <1>5 DEF Passed
  <2> HIDE DEF f
  <2> QED
    BY <2>1, <2>2, <1>4
<1>7. Mark(c - 1)' = h
  <2>1. Mark(Len(frames)) = First
    BY Reached
  <2>2. PICK m \in 0..Len(frames) : m = Len(frames)
    BY <1>2
  <2>3. Mark(m)' = Mark(m)
    BY <1>1, <1>2, <1>3, SameMarks
  <2>4. m = c - 1
    BY <2>2, <1>4, <1>2
  <2> QED
    BY <2>1, <2>2, <2>3, <2>4, <1>5
<1>8. LineOf(h)' = LineOf(First) /\ Refusals(h)' = {} /\ LastOf(h)' = h + n - 1 /\ NextOf(h)' = p
  <2>1. LineOf(h)' = LineOf(h) /\ Refusals(h)' = Refusals(h) /\ LastOf(h)' = LastOf(h) /\ NextOf(h)' = NextOf(h)
    BY <1>1, <1>2, <1>5, SameRefusals
  <2> QED
    BY <2>1, <1>5
<1>9. FramedAt(c)'
  <2>1. line = IF input'[h] = "brace" THEN LineOf(h)' ELSE 0
    BY <1>5, <1>8 DEF LineFor
  <2>2. h <= Len(input')
    BY <1>5
  <2>3. frames'[c] = [first |-> h, last |-> LastOf(h)', line |-> IF input'[h] = "brace" THEN LineOf(h)' ELSE 0]
    BY <1>6, <1>8, <2>1
  <2> QED
    BY <1>7, <1>8, <2>2, <2>3 DEF FramedAt
<1>10. \A i \in DOMAIN frames : FramedAt(i)'
  <2> TAKE i \in DOMAIN frames
  <2>1. FramedAt(i)
    BY DEF Passed
  <2> QED
    BY <2>1, <1>1, <1>2, <1>3, StillFramed
<1>11. \A i \in DOMAIN frames' : FramedAt(i)' /\ frames'[i].first <= First' /\ frames'[i].last < First'
  <2> TAKE i \in DOMAIN frames'
  <2>1. CASE i \in DOMAIN frames
    <3>1. frames[i] \in FrameSet
      BY <2>1 DEF Passed
    <3>2. frames[i].first \in Nat /\ frames[i].last \in Nat /\ frames[i].first <= First /\ frames[i].last < First
      BY <3>1, <2>1 DEF FrameSet, Passed
    <3>3. frames'[i] = frames[i] /\ FramedAt(i)'
      BY <2>1, <1>6, <1>10
    <3>4. First' \in Nat /\ First <= First'
      BY <1>2
    <3> QED
      BY <3>2, <3>3, <3>4, <1>2
  <2>2. CASE i = c
    <3>1. frames'[i].first = h /\ frames'[i].last = h + n - 1
      BY <2>2, <1>6
    <3> QED
      BY <3>1, <2>2, <1>5, <1>9
  <2>3. i \in DOMAIN frames \/ i = c
    BY <1>6
  <2> QED
    BY <2>1, <2>2, <2>3
<1>12. Sought(Len(frames))' = p
  <2>1. c \in Nat \ {0} /\ Len(frames') = c /\ frames'[c].first = h
    BY <1>4, <1>2, <1>6
  <2>2. Sought(Len(frames))' = NextOf(h)'
    BY <2>1, <1>5, SoughtNext
  <2> QED
    BY <2>2, <1>8
<1>13. NewlinesBefore(First)' = NewlinesBefore(p)'
  BY DEF NewlinesBefore
<1>14. NewlinesBefore(p)' \subseteq 1..p - 1
  BY DEF NewlinesBefore
<1>15. lines' \in Nat /\ lines' = Cardinality(NewlinesBefore(First)')
       /\ NewlinesBefore(First)' \subseteq 1..First' - 1
  BY <1>1, <1>13, <1>14
<1>16. Sought(Len(frames))' \in 1..First' /\ \A q \in Sought(Len(frames))'..First' - 1 : input'[q] \in Spaces
  BY <1>12, <1>2
<1> QED
  BY <1>6, <1>11, <1>15, <1>16 DEF Passed

-----------------------------------------------------------------------------
(***************************************************************************)
(* Reads and refusals.                                                     *)
(***************************************************************************)
LEMMA RoomIs ==
    ASSUME Windowed, NEW r, r = RoomMade
    PROVE  /\ r.size \in 0..Ceiling /\ r.start \in Nat /\ r.start + Held <= r.size
<1>1. /\ size \in Nat /\ start \in Nat /\ end \in Nat /\ Held = end - start /\ start <= end /\ end <= size
      /\ size <= Ceiling /\ Ceiling \in Nat /\ Slack \in Nat
  BY CeilingIs, FramingAssumption DEF Windowed, Held
<1>2. CASE size = 0
  BY <1>1, <1>2 DEF RoomMade, Least
<1>3. CASE size # 0 /\ end < size
  BY <1>1, <1>3 DEF RoomMade, Least
<1>4. CASE size # 0 /\ ~(end < size) /\ start > 0
  BY <1>1, <1>4 DEF RoomMade, Least
<1>5. CASE size # 0 /\ ~(end < size) /\ ~(start > 0)
  BY <1>1, <1>5 DEF RoomMade, Least
<1> QED
  BY <1>2, <1>3, <1>4, <1>5

LEMMA Filled ==
    ASSUME Windowed, Fill
    PROVE  Windowed' /\ First' = First /\ Held' \in Nat /\ Held' >= Held /\ UNCHANGED <<input, lines, phase, frames, refusal>>
<1>1. PICK r : r = RoomMade
  OBVIOUS
<1>2. r.size \in 0..Ceiling /\ r.start \in Nat /\ r.start + Held <= r.size
  BY <1>1, RoomIs
<1>3. PICK n \in 0..Least(r.size - r.start - Held, Len(input) - fed) :
        \E ended \in BOOLEAN :
            /\ ended => fed + n = Len(input)
            /\ fed' = fed + n /\ size' = r.size
            /\ start' = r.start /\ end' = r.start + Held + n
            /\ eof' = ended
            /\ UNCHANGED <<input, lines, phase, frames, refusal>>
  BY <1>1 DEF Fill
<1>4. /\ Held \in Nat /\ Held <= fed /\ fed \in 0..Len(input) /\ Len(input) \in Nat /\ Ceiling \in Nat
      /\ input \in Seq(STRING)
  BY PositionIs, CeilingIs DEF Windowed
<1>5. n \in Nat /\ n <= r.size - r.start - Held /\ n <= Len(input) - fed
  BY <1>2, <1>4 DEF Least
<1>6. /\ fed' = fed + n /\ size' = r.size /\ start' = r.start /\ end' = r.start + Held + n
      /\ eof' \in BOOLEAN /\ (eof' => fed' = Len(input)) /\ input' = input
      /\ UNCHANGED <<lines, phase, frames, refusal>>
  BY <1>3
<1>7. Held' = Held + n
  BY <1>2, <1>4, <1>5, <1>6 DEF Held
<1>8. First' = First
  BY <1>4, <1>5, <1>6, <1>7 DEF First
<1>9. Ceiling' = Ceiling
  BY DEF Ceiling
<1>10. Windowed'
  <2>1. fed' \in 0..Len(input') /\ size' \in 0..Ceiling'
    BY <1>2, <1>4, <1>5, <1>6, <1>9
  <2>2. start' \in Nat /\ end' \in Nat /\ start' <= end' /\ end' <= size' /\ Held' <= fed'
    <3>1. PICK held \in Nat : held = Held /\ held <= fed /\ fed \in Nat
      BY <1>4
    <3>2. PICK s, z \in Nat : s = r.start /\ z = r.size
      BY <1>2
    <3>3. s + held <= z /\ n <= z - s - held
      BY <1>2, <1>5, <3>1, <3>2
    <3>4. start' = s /\ end' = s + held + n /\ size' = z /\ fed' = fed + n /\ Held' = held + n
      BY <1>6, <1>7, <3>1, <3>2
    <3>5. n \in Nat
      BY <1>5
    <3>6. s + held + n <= z
      BY <3>3, <3>5
    <3>7. s <= s + held + n /\ s + held + n \in Nat
      BY <3>5
    <3>8. held + n <= fed + n
      BY <3>1, <3>5
    <3> QED
      BY <3>4, <3>6, <3>7, <3>8
  <2> QED
    BY <2>1, <2>2, <1>4, <1>6 DEF Windowed
<1> QED
  BY <1>4, <1>5, <1>6, <1>7, <1>8, <1>10

\* A step that touches neither the buffer nor the frames.
LEMMA Untouched ==
    ASSUME Windowed, Passed, UNCHANGED <<input, fed, size, start, end, eof, lines, frames>>
    PROVE  Windowed' /\ Passed' /\ First' = First /\ Held' = Held
<1>1. First' = First /\ Held' = Held
  BY DEF First, Held
<1>2. Windowed'
  BY <1>1 DEF Windowed, Ceiling
<1> QED
  BY <1>1, <1>2, Stays

LEMMA EndedThere ==
    ASSUME NEW h, Mark(Len(frames))' = h, EndedAt(h)'
    PROVE  EndedAt(Mark(Len(frames)))'
BY DEF EndedAt, Refusals, ItemRefusals, Broken, LineOf, NewlinesBefore, TextEnd, LineFeed, FirstOf, ItemEnd

LEMMA Refused ==
    ASSUME Windowed, Passed, First <= Len(input), input[First] \notin Spaces, NEW kind, NEW line,
           Answer(kind, line) \in Refusals(First), Refuse(kind, line)
    PROVE  Scanned'
<1>1. /\ UNCHANGED <<input, fed, size, start, end, eof, lines, frames>>
      /\ phase' = "stopped" /\ refusal' = Stop(kind, Number, line)
  BY DEF Refuse
<1>2. Windowed' /\ Passed'
  BY <1>1, Untouched
<1>3. Grows /\ First \in Nat /\ Len(frames) \in Nat /\ Len(frames) \in 0..Len(frames)
  BY <1>1, PositionIs DEF Grows, Passed
<1>4. PICK h \in Nat : h = First
  BY <1>3
<1>5. Refusals(h)' = Refusals(h)
  BY <1>3, <1>4, SameRefusals
<1>6. Mark(Len(frames))' = h
  <2>1. Mark(Len(frames)) = h
    BY <1>4, Reached
  <2>2. Mark(Len(frames))' = Mark(Len(frames))
    BY <1>1 DEF Mark, Sought, FirstOf, NextOf, LineFeed, ItemEnd
  <2> QED
    BY <2>1, <2>2
<1>7. EndedAt(h)'
  <2>1. Answer(kind, line) \in Refusals(h)' /\ ~(h > Len(input'))
    BY <1>1, <1>4, <1>5, PositionIs
  <2>2. refusal' = Stop(Answer(kind, line).kind, Number', Answer(kind, line).line)
    BY <1>1 DEF Answer, Number
  <2> QED
    BY <2>1, <2>2 DEF EndedAt
<1>8. EndedAt(Mark(Len(frames)))'
  BY <1>6, <1>7, EndedThere
<1>9. Underway'
  BY <1>1, <1>8 DEF Underway
<1> QED
  BY <1>2, <1>9 DEF Scanned

\* Bytes are asked for when there are too few; a full buffer refuses the record.
LEMMA Fetched ==
    ASSUME Scanned, phase # "stopped", More,
           BufferFull => /\ First <= Len(input) /\ input[First] \notin Spaces
                         /\ Answer("toolarge", lines + 1) \in Refusals(First)
    PROVE  Scanned'
<1> USE DEF Scanned
<1>1. CASE BufferFull
  <2>1. Refuse("toolarge", lines + 1)
    BY <1>1 DEF More
  <2> QED
    BY <1>1, <2>1, Refused
<1>2. CASE Fill
  <2>1. Windowed' /\ First' = First /\ Held' \in Nat /\ Held' >= Held /\ UNCHANGED <<input, lines, phase, frames, refusal>>
    BY <1>2, Filled
  <2>2. Passed'
    BY <2>1, Stays
  <2>3. Held > 0 => Held' > 0
    BY <2>1, PositionIs
  <2>4. Underway'
    BY <2>1, <2>3 DEF Underway
  <2> QED
    BY <2>1, <2>2, <2>4
<1>3. CASE ReadFails
  <2>1. /\ UNCHANGED <<input, fed, size, start, end, eof, lines, frames>>
        /\ phase' = "stopped" /\ refusal'.kind = "read"
    BY <1>3 DEF ReadFails, Stop
  <2>2. Windowed' /\ Passed'
    BY <2>1, Untouched
  <2> QED
    BY <2>1, <2>2 DEF Underway
<1> QED
  BY <1>1, <1>2, <1>3 DEF More

\* A full buffer is full of the record it holds.
LEMMA Full ==
    ASSUME Windowed, BufferFull
    PROVE  Held = Ceiling
BY CeilingIs DEF Windowed, BufferFull, Held

LEMMA NeedBytesStep ==
    ASSUME Scanned, NeedBytes
    PROVE  Scanned'
<1>1. phase = "next" /\ Held = 0 /\ More
  BY DEF NeedBytes
<1>2. ~BufferFull
  BY <1>1, Full, CeilingIs DEF Scanned
<1> QED
  BY <1>1, <1>2, Fetched

LEMMA EndOfInputStep ==
    ASSUME Scanned, EndOfInput
    PROVE  Scanned'
<1>1. /\ phase = "next" /\ Held = 0 /\ eof /\ phase' = "stopped" /\ refusal' = Stop("end", 0, 0)
      /\ UNCHANGED <<input, fed, size, start, end, eof, lines, frames>>
  BY DEF EndOfInput
<1>2. Windowed' /\ Passed'
  BY <1>1, Untouched DEF Scanned
<1>3. First = Len(input) + 1 /\ Len(input) \in Nat
  <2>1. fed = Len(input) /\ Windowed
    BY <1>1 DEF Scanned, Windowed
  <2> QED
    BY <1>1, <2>1, PositionIs
<1>4. PICK h \in Nat : h = Len(input) + 1
  BY <1>3
<1>5. Mark(Len(frames))' = h
  <2>1. Mark(Len(frames)) = h
    BY <1>3, <1>4, ReachedEnd DEF Scanned
  <2>2. Mark(Len(frames))' = Mark(Len(frames))
    BY <1>1 DEF Mark, Sought, FirstOf, NextOf, LineFeed, ItemEnd
  <2> QED
    BY <2>1, <2>2
<1>6. EndedAt(h)'
  BY <1>1, <1>3, <1>4 DEF EndedAt
<1>7. EndedAt(Mark(Len(frames)))'
  BY <1>5, <1>6, EndedThere
<1> QED
  BY <1>1, <1>2, <1>7 DEF Scanned, Underway

LEMMA DispatchStep ==
    ASSUME Scanned, Dispatch
    PROVE  Scanned'
<1>1. phase = "next" /\ Held > 0 /\ At(1) \notin Spaces
  BY DEF Dispatch
<1>2. At(1) = input[First] /\ First \in 1..Len(input) /\ Held \in Nat /\ First \in Nat /\ Len(input) \in Nat
  <2>1. 1 \in 1..Held /\ First + 1 - 1 = First
    BY <1>1, PositionIs DEF Scanned
  <2> QED
    BY <2>1, Byte, PositionIs DEF Scanned
<1>3. CASE At(1) = "brace" \/ At(1) \in Heads
  <2>1. /\ phase' = IF At(1) = "brace" THEN "json" ELSE "cbor"
        /\ UNCHANGED <<input, fed, size, start, end, eof, lines, frames, refusal>>
    BY <1>3 DEF Dispatch
  <2>2. Windowed' /\ Passed' /\ First' = First /\ Held' = Held
    BY <2>1, Untouched DEF Scanned
  <2>3. Underway'
    BY <1>1, <1>2, <1>3, <2>1, <2>2 DEF Underway, Scanned
  <2> QED
    BY <2>2, <2>3 DEF Scanned
<1>4. CASE ~(At(1) = "brace" \/ At(1) \in Heads)
  <2> DEFINE line == IF At(1) = "indefinite" THEN 0 ELSE lines + 1
  <2>1. Refuse("grammar", line)
    BY <1>4 DEF Dispatch
  <2>2. LineOf(First) = lines + 1
    BY OnLine DEF Scanned
  <2>3. Refusals(First) = {Answer("grammar", line)}
    BY <1>2, <1>4, <2>2 DEF Refusals
  <2> HIDE DEF line
  <2>4. Answer("grammar", line) \in Refusals(First)
    BY <2>3
  <2> QED
    BY <1>1, <1>2, <2>1, <2>4, Refused DEF Scanned
<1> QED
  BY <1>3, <1>4

-----------------------------------------------------------------------------
(***************************************************************************)
(* Bytes consumed.                                                         *)
(***************************************************************************)
LEMMA Consumed ==
    ASSUME Windowed, NEW n \in 0..Held, Consume(n), UNCHANGED <<input, fed, size, end, eof>>
    PROVE  Windowed' /\ First' = First + n /\ First + n <= Len(input) + 1 /\ First + n \in Nat
<1>1. Held \in Nat /\ Held = end - start /\ start \in Nat /\ end \in Nat /\ fed \in Nat /\ Held <= fed /\ First \in Nat
      /\ First + Held = fed + 1 /\ First = fed - Held + 1 /\ fed <= Len(input) /\ Len(input) \in Nat
  BY PositionIs DEF Windowed, Held, First
<1>2. start' = start + n
  BY DEF Consume
<1>3. Held' = Held - n
  BY <1>1, <1>2 DEF Held
<1>4. First' = First + n
  BY <1>1, <1>3 DEF First
<1>5. start' \in Nat /\ start' <= end' /\ Held' <= fed'
  BY <1>1, <1>2, <1>3
<1>6. Windowed'
  BY <1>2, <1>3, <1>5 DEF Windowed, Ceiling
<1> QED
  BY <1>1, <1>4, <1>6

LEMMA NoneNewlines == IsFiniteSet({}) /\ Cardinality({}) = 0
BY FS_EmptySet

\* A newline that is passed is one more.
LEMMA OneMore ==
    ASSUME Passed, First \in Nat
    PROVE  /\ First \notin NewlinesBefore(First)
           /\ \A q \in Nat : q >= First => Cardinality(NewlinesBefore(First) \union {q}) = lines + 1
<1>1. NewlinesBefore(First) \subseteq 1..First - 1
  BY DEF Passed
<1>2. IsFiniteSet(1..First - 1)
  BY FS_Interval
<1>3. IsFiniteSet(NewlinesBefore(First))
  BY <1>1, <1>2, FS_Subset
<1>4. ASSUME NEW q \in Nat, q >= First PROVE q \notin NewlinesBefore(First)
  BY <1>1, <1>4
<1>5. lines = Cardinality(NewlinesBefore(First)) /\ lines \in Nat
  BY DEF Passed
<1>6. ASSUME NEW q \in Nat, q >= First PROVE Cardinality(NewlinesBefore(First) \union {q}) = lines + 1
  BY <1>3, <1>4, <1>5, <1>6, FS_AddElement
<1> QED
  BY <1>4, <1>6

LEMMA SkipSpaceStep ==
    ASSUME Scanned, SkipSpace
    PROVE  Scanned'
<1> USE DEF Scanned
<1>1. /\ phase = "next" /\ Held > 0 /\ At(1) \in Spaces /\ Consume(1)
      /\ lines' = IF At(1) = "nl" THEN lines + 1 ELSE lines
      /\ UNCHANGED <<input, fed, size, end, eof, phase, frames, refusal>>
  BY DEF SkipSpace
<1>2. At(1) = input[First] /\ First \in Nat /\ Held \in Nat /\ 1 \in 0..Held /\ First <= Len(input) /\ First >= 1
  <2>1. 1 \in 1..Held /\ First + 1 - 1 = First
    BY <1>1, PositionIs
  <2> QED
    BY <2>1, Byte, PositionIs
<1>3. PICK p \in Nat : p = First + 1
  BY <1>2
<1>4. Windowed' /\ First' = p
  BY <1>1, <1>2, <1>3, Consumed
<1>5. Grows
  BY <1>1 DEF Grows, Passed
<1>6. \A j \in DOMAIN frames : frames[j] \in FrameSet /\ frames[j].first <= First /\ frames[j].last < First
  BY DEF Passed
<1>7. NewlinesBefore(p)' = NewlinesBefore(p)
  BY <1>1 DEF NewlinesBefore
<1>8. NewlinesBefore(p) = NewlinesBefore(First) \union {q \in {First} : input[q] = "nl"}
  <2>1. ASSUME NEW i \in DOMAIN frames PROVE First \notin frames[i].first..frames[i].last
    <3>1. frames[i].last \in Nat /\ frames[i].last < First
      BY <1>6 DEF FrameSet
    <3>2. frames[i].first \in Nat
      BY <1>6 DEF FrameSet
    <3> QED
      BY <3>1, <3>2, <1>2
  <2>2. \A q : q \in 1..p - 1 <=> q \in 1..First - 1 \/ q = First
    BY <1>2, <1>3
  <2> QED
    BY <2>1, <2>2 DEF NewlinesBefore
<1>9. lines' \in Nat /\ lines' = Cardinality(NewlinesBefore(p))
  <2>1. CASE At(1) = "nl"
    <3>1. NewlinesBefore(p) = NewlinesBefore(First) \union {First}
      BY <2>1, <1>2, <1>8
    <3> QED
      BY <3>1, <2>1, <1>1, <1>2, OneMore DEF Passed
  <2>2. CASE At(1) # "nl"
    <3>1. NewlinesBefore(p) = NewlinesBefore(First)
      BY <2>2, <1>2, <1>8
    <3> QED
      BY <3>1, <2>2, <1>1 DEF Passed
  <2> QED
    BY <2>1, <2>2
<1>10. NewlinesBefore(First)' = NewlinesBefore(p)
  <2>1. NewlinesBefore(First)' = NewlinesBefore(p)'
    BY <1>4 DEF NewlinesBefore
  <2> QED
    BY <2>1, <1>7
<1>11. NewlinesBefore(p) \subseteq 1..p - 1
  BY DEF NewlinesBefore
<1>12. \A i \in DOMAIN frames : FramedAt(i)'
  <2> TAKE i \in DOMAIN frames
  <2>1. FramedAt(i)
    BY DEF Passed
  <2> QED
    BY <2>1, <1>2, <1>5, <1>6, StillFramed
<1>13. \A i \in DOMAIN frames' : FramedAt(i)' /\ frames'[i].first <= First' /\ frames'[i].last < First'
  <2> TAKE i \in DOMAIN frames'
  <2>1. i \in DOMAIN frames /\ frames'[i] = frames[i]
    BY <1>1
  <2>2. frames[i].first \in Nat /\ frames[i].last \in Nat /\ frames[i].first <= First /\ frames[i].last < First
    BY <2>1, <1>6 DEF FrameSet
  <2> QED
    BY <2>1, <2>2, <1>2, <1>3, <1>4, <1>12
<1>14. Sought(Len(frames))' = Sought(Len(frames))
  BY <1>1 DEF Sought, NextOf, LineFeed, FirstOf, ItemEnd
<1>15. Sought(Len(frames)) \in 1..p /\ \A q \in Sought(Len(frames))..p - 1 : input[q] \in Spaces
  <2>1. Sought(Len(frames)) \in 1..First /\ \A q \in Sought(Len(frames))..First - 1 : input[q] \in Spaces
    BY DEF Passed
  <2>2. input[First] \in Spaces
    BY <1>1, <1>2
  <2>3. \A q \in Sought(Len(frames))..p - 1 : q \in Sought(Len(frames))..First - 1 \/ q = First
    BY <2>1, <1>2, <1>3
  <2> QED
    BY <2>1, <2>2, <2>3, <1>2, <1>3
<1>16. frames' \in Seq(FrameSet)
  BY <1>1 DEF Passed
<1>17. Passed'
  BY <1>1, <1>4, <1>9, <1>10, <1>11, <1>13, <1>14, <1>15, <1>16 DEF Passed
<1>18. Underway'
  BY <1>1 DEF Underway
<1> QED
  BY <1>4, <1>17, <1>18

-----------------------------------------------------------------------------
(***************************************************************************)
(* A line, with its newline in the buffer or without.                      *)
(***************************************************************************)
LEMMA LineFeedIs ==
    ASSUME Windowed, Held > 0, Newlines # {}
    PROVE  /\ LineEnd \in 1..Held /\ At(LineEnd) = "nl" /\ \A j \in 1..Held : At(j) = "nl" => LineEnd <= j
           /\ LineFeed(First) = First + LineEnd - 1
<1>1. Held \in Nat /\ First \in Nat /\ First >= 1 /\ fed \in Nat /\ First + Held = fed + 1 /\ fed <= Len(input) /\ Len(input) \in Nat
  BY PositionIs DEF Windowed
<1>2. Newlines \subseteq Nat
  BY <1>1 DEF Newlines
<1>3. PICK m \in Newlines : \A j \in Newlines : m <= j
  BY <1>2, LeastOf
<1>4. LineEnd \in Newlines /\ \A j \in Newlines : LineEnd <= j
  BY <1>3 DEF LineEnd
<1>5. LineEnd \in 1..Held /\ At(LineEnd) = "nl" /\ \A j \in 1..Held : At(j) = "nl" => LineEnd <= j
  BY <1>4 DEF Newlines
<1> DEFINE S == {q \in First..Len(input) : input[q] = "nl"}
           f == First + LineEnd - 1
<1>6. f \in First..fed /\ f \in Nat /\ f <= Len(input)
  BY <1>1, <1>5
<1>7. input[f] = "nl"
  BY <1>5, Byte
<1>8. f \in S /\ S \subseteq Nat
  BY <1>1, <1>6, <1>7
<1>9. ASSUME NEW r \in S PROVE f <= r
  <2>1. r \in Nat /\ r >= First /\ input[r] = "nl"
    BY <1>1
  <2>2. CASE r > fed
    BY <2>1, <2>2, <1>1, <1>6
  <2>3. CASE r <= fed
    <3>1. r \in First..fed
      BY <2>1, <2>3, <1>1
    <3>2. r - First + 1 \in 1..Held /\ At(r - First + 1) = "nl"
      BY <3>1, <2>1, Buffered
    <3>3. LineEnd <= r - First + 1
      BY <3>2, <1>5
    <3> QED
      BY <3>3, <2>1, <1>1, <1>5
  <2> QED
    BY <2>1, <2>2, <2>3, <1>1
<1> HIDE DEF S, f
<1>10. FirstOf(S) = f
  BY <1>8, <1>9, FirstOfIs
<1> QED
  BY <1>5, <1>10 DEF LineFeed, S, f

LEMMA NoLineFeed ==
    ASSUME Windowed, Newlines = {}
    PROVE  /\ LineFeed(First) \in Nat /\ LineFeed(First) >= First + Held
           /\ eof => LineFeed(First) = Len(input) + 1
           /\ \A q \in First..fed : input[q] # "nl"
<1>1. Held \in Nat /\ First \in Nat /\ First >= 1 /\ fed \in Nat /\ First + Held = fed + 1 /\ fed <= Len(input) /\ Len(input) \in Nat
  BY PositionIs DEF Windowed
<1>2. ASSUME NEW q \in First..fed PROVE input[q] # "nl"
  <2>1. q - First + 1 \in 1..Held /\ At(q - First + 1) = input[q]
    BY Buffered
  <2> QED
    BY <2>1 DEF Newlines
<1> DEFINE S == {q \in First..Len(input) : input[q] = "nl"}
<1>3. S \subseteq Nat /\ \A q \in S : q >= First + Held
  <2>1. \A q \in S : q \in Nat /\ q >= First /\ ~(q \in First..fed)
    BY <1>1, <1>2
  <2> QED
    BY <2>1, <1>1
<1>4. LineFeed(First) = FirstOf(S)
  BY DEF LineFeed
<1>5. eof => S = {}
  <2>1. eof => fed = Len(input)
    BY DEF Windowed
  <2> QED
    BY <2>1, <1>2
<1> HIDE DEF S
<1>6. CASE S = {}
  BY <1>1, <1>2, <1>4, <1>6 DEF FirstOf
<1>7. CASE S # {}
  <2>1. PICK m \in S : \A r \in S : m <= r
    BY <1>3, <1>7, LeastOf
  <2>2. FirstOf(S) = m
    BY <2>1, <1>3, FirstOfIs
  <2> QED
    BY <2>1, <2>2, <1>2, <1>3, <1>4, <1>5, <1>7
<1> QED
  BY <1>6, <1>7

\* A line that ends in the buffer.
LEMMA LineCut ==
    ASSUME Windowed, Held > 0, input[First] = "brace", Newlines # {}
    PROVE  /\ LineLen \in Nat /\ LineLen >= 1 /\ LineLen < LineEnd /\ TextEnd(First) = First + LineLen - 1
           /\ LineEnd \in Nat /\ LineEnd <= Held
           /\ \A q \in First + LineLen..First + LineEnd - 1 : input[q] = "nl" <=> q = First + LineEnd - 1
<1>1. Held \in Nat /\ First \in Nat /\ First >= 1 /\ fed \in Nat /\ First + Held = fed + 1 /\ fed <= Len(input) /\ Len(input) \in Nat
  BY PositionIs DEF Windowed
<1>2. /\ LineEnd \in 1..Held /\ At(LineEnd) = "nl" /\ \A j \in 1..Held : At(j) = "nl" => LineEnd <= j
      /\ LineFeed(First) = First + LineEnd - 1
  BY LineFeedIs
<1>3. At(1) = "brace"
  <2>1. 1 \in 1..Held /\ First + 1 - 1 = First
    BY <1>1
  <2> QED
    BY <2>1, Byte
<1>4. LineEnd >= 2 /\ LineEnd - 1 \in 1..Held
  BY <1>1, <1>2, <1>3
<1>5. At(LineEnd - 1) = input[First + LineEnd - 1 - 1]
  <2>1. At(LineEnd - 1) = input[First + (LineEnd - 1) - 1]
    BY <1>4, Byte
  <2> QED
    BY <2>1, <1>1, <1>4
<1>6. LineLen \in Nat /\ LineLen >= 1 /\ LineLen < LineEnd
  <2>1. CASE At(LineEnd - 1) = "cr"
    <3>1. LineEnd - 1 # 1
      BY <2>1, <1>3
    <3> QED
      BY <3>1, <2>1, <1>2, <1>4 DEF LineLen
  <2>2. CASE At(LineEnd - 1) # "cr"
    BY <2>2, <1>2, <1>4 DEF LineLen
  <2> QED
    BY <2>1, <2>2
<1>7. TextEnd(First) = First + LineLen - 1
  <2>1. LineFeed(First) <= Len(input) /\ LineFeed(First) - 1 = First + LineEnd - 1 - 1
    BY <1>1, <1>2
  <2>2. CASE At(LineEnd - 1) = "cr"
    BY <2>1, <2>2, <1>1, <1>2, <1>5 DEF TextEnd, LineLen
  <2>3. CASE At(LineEnd - 1) # "cr"
    BY <2>1, <2>3, <1>1, <1>2, <1>5 DEF TextEnd, LineLen
  <2> QED
    BY <2>2, <2>3
<1>8. ASSUME NEW q \in First + LineLen..First + LineEnd - 1 PROVE input[q] = "nl" <=> q = First + LineEnd - 1
  <2>1. q \in First..fed /\ q \in Nat
    BY <1>1, <1>2, <1>6
  <2>2. q - First + 1 \in 1..Held /\ At(q - First + 1) = input[q]
    BY <2>1, Buffered
  <2>3. q - First + 1 <= LineEnd
    BY <2>1, <1>1, <1>2, <1>6
  <2>4. input[q] = "nl" => q - First + 1 >= LineEnd
    BY <2>2, <1>2
  <2>5. q = First + LineEnd - 1 <=> q - First + 1 = LineEnd
    BY <2>1, <1>1, <1>2
  <2> QED
    BY <2>2, <2>3, <2>4, <2>5, <1>2
<1> QED
  BY <1>2, <1>6, <1>7, <1>8

LEMMA JSONRecordStep ==
    ASSUME Scanned, JSONRecord
    PROVE  Scanned'
<1> USE DEF Scanned
<1>1. phase = "json" /\ Held > 0 /\ input[First] = "brace"
  BY DEF JSONRecord, Underway
<1>2. Held \in Nat /\ First \in Nat /\ First >= 1 /\ fed \in Nat /\ First + Held = fed + 1 /\ fed <= Len(input) /\ Len(input) \in Nat
  BY PositionIs DEF Windowed
<1>3. First <= Len(input) /\ input[First] \notin Spaces
  BY <1>1, <1>2 DEF Spaces
<1>4. LineOf(First) = lines + 1 /\ lines \in Nat
  BY OnLine DEF Passed
<1>5. input[First] = "brace" => LastOf(First) = TextEnd(First) /\ NextOf(First) = Least(LineFeed(First), Len(input)) + 1
  BY DEF LastOf, NextOf
<1>6. Refusals(First) = {a \in {Answer("toolarge", lines + 1)} : TextEnd(First) - First + 1 > Limit}
  BY <1>1, <1>4 DEF Refusals
<1>7. LineFor(First) = lines + 1
  BY <1>1, <1>4 DEF LineFor
<1>8. CASE Newlines # {}
  <2>1. /\ LineLen \in Nat /\ LineLen >= 1 /\ LineLen < LineEnd /\ TextEnd(First) = First + LineLen - 1
        /\ LineEnd \in Nat /\ LineEnd <= Held
        /\ \A q \in First + LineLen..First + LineEnd - 1 : input[q] = "nl" <=> q = First + LineEnd - 1
    BY <1>1, <1>8, LineCut
  <2>2. LineFeed(First) = First + LineEnd - 1
    BY <1>1, <1>8, LineFeedIs
  <2>3. TextEnd(First) - First + 1 = LineLen
    BY <2>1, <1>2
  <2>4. CASE LineLen > Limit
    <3>1. Refuse("toolarge", lines + 1)
      BY <2>4, <1>8 DEF JSONRecord
    <3>2. Answer("toolarge", lines + 1) \in Refusals(First)
      BY <2>3, <2>4, <1>6
    <3> QED
      BY <3>1, <3>2, <1>3, Refused
  <2>5. CASE ~(LineLen > Limit)
    <3>1. Deliver(LineLen, LineEnd, lines + 1) /\ lines' = lines + 1
      BY <2>5, <1>8 DEF JSONRecord
    <3>2. PICK p \in Nat : p = First + LineEnd
      BY <1>2, <2>1
    <3>3. /\ Consume(LineEnd) /\ UNCHANGED <<input, fed, size, end, eof, refusal>> /\ phase' = "next"
          /\ frames' = Append(frames, [first |-> First, last |-> First + LineLen - 1, line |-> lines + 1])
      BY <3>1 DEF Deliver
    <3>4. Windowed' /\ First' = p
      <4>1. LineEnd \in 0..Held
        BY <2>1, <1>2
      <4> QED
        BY <4>1, <3>2, <3>3, Consumed
    <3>5. Refusals(First) = {}
      BY <2>3, <2>5, <1>6
    <3>6. NextOf(First) = p
      BY <1>1, <1>2, <1>5, <2>1, <2>2, <3>2 DEF Least
    <3>7. LastOf(First) = First + LineLen - 1
      BY <1>1, <1>5, <2>1
    <3>8. PassedOver(LineLen, p) = NewlinesBefore(First) \union {First + LineEnd - 1}
      BY <1>2, <2>1, <3>2 DEF PassedOver
    <3>9. lines' \in Nat /\ lines' = Cardinality(PassedOver(LineLen, p))
      <4>1. First + LineEnd - 1 \in Nat /\ First + LineEnd - 1 >= First
        BY <1>2, <2>1
      <4> QED
        BY <4>1, <3>1, <3>8, <1>2, <1>4, OneMore
    <3>10. lines + 1 \in Nat /\ LineLen <= LineEnd
      BY <1>4, <2>1
    <3>11. Passed'
      BY <1>3, <1>7, <2>1, <3>2, <3>3, <3>4, <3>5, <3>6, <3>7, <3>9, <3>10, Handed
    <3> QED
      BY <3>3, <3>4, <3>11, <1>1 DEF Underway
  <2> QED
    BY <2>4, <2>5
<1>9. CASE Newlines = {} /\ eof
  <2>1. LineFeed(First) = Len(input) + 1 /\ fed = Len(input) /\ \A q \in First..fed : input[q] # "nl"
    BY <1>9, NoLineFeed DEF Windowed
  <2>2. TextEnd(First) = First + Held - 1
    BY <2>1, <1>2 DEF TextEnd
  <2>3. TextEnd(First) - First + 1 = Held
    BY <2>2, <1>2
  <2>4. CASE Held > Limit
    <3>1. Refuse("toolarge", lines + 1)
      BY <2>4, <1>9 DEF JSONRecord
    <3>2. Answer("toolarge", lines + 1) \in Refusals(First)
      BY <2>3, <2>4, <1>6
    <3> QED
      BY <3>1, <3>2, <1>3, Refused
  <2>5. CASE ~(Held > Limit)
    <3>1. Deliver(Held, Held, lines + 1) /\ lines' = lines
      BY <2>5, <1>9 DEF JSONRecord
    <3>2. PICK p \in Nat : p = First + Held
      BY <1>2
    <3>3. /\ Consume(Held) /\ UNCHANGED <<input, fed, size, end, eof, refusal>> /\ phase' = "next"
          /\ frames' = Append(frames, [first |-> First, last |-> First + Held - 1, line |-> lines + 1])
      BY <3>1 DEF Deliver
    <3>4. Windowed' /\ First' = p
      <4>1. Held \in 0..Held
        BY <1>2
      <4> QED
        BY <4>1, <3>2, <3>3, Consumed
    <3>5. Refusals(First) = {}
      BY <2>3, <2>5, <1>6
    <3>6. NextOf(First) = p
      BY <1>1, <1>2, <1>5, <2>1, <3>2 DEF Least
    <3>7. LastOf(First) = First + Held - 1
      BY <1>1, <1>5, <2>2
    <3>8. PassedOver(Held, p) = NewlinesBefore(First)
      BY <1>2, <3>2 DEF PassedOver
    <3>9. lines' \in Nat /\ lines' = Cardinality(PassedOver(Held, p))
      BY <3>1, <3>8 DEF Passed
    <3>10. lines + 1 \in Nat /\ Held >= 1 /\ Held <= Held
      BY <1>1, <1>2, <1>4
    <3>11. Passed'
      BY <1>2, <1>3, <1>7, <3>2, <3>3, <3>4, <3>5, <3>6, <3>7, <3>9, <3>10, Handed
    <3> QED
      BY <3>3, <3>4, <3>11, <1>1 DEF Underway
  <2> QED
    BY <2>4, <2>5
<1>10. CASE Newlines = {} /\ ~eof
  <2>1. More
    BY <1>10 DEF JSONRecord
  <2>2. ASSUME BufferFull PROVE Answer("toolarge", lines + 1) \in Refusals(First)
    <3>1. Held = Ceiling
      BY <2>2, Full
    <3>2. LineFeed(First) \in Nat /\ LineFeed(First) >= First + Held
      BY <1>10, NoLineFeed
    <3>3. TextEnd(First) \in Nat /\ TextEnd(First) >= LineFeed(First) - 2
      BY <1>1, <1>2, <3>2 DEF TextEnd
    <3>4. TextEnd(First) - First + 1 > Limit
      <4>1. Limit \in Nat
        BY FramingAssumption
      <4> QED
        BY <4>1, <3>1, <3>2, <3>3, <1>2, CeilingIs
    <3> QED
      BY <3>4, <1>6
  <2> QED
    BY <2>1, <2>2, <1>1, <1>3, Fetched
<1> QED
  BY <1>8, <1>9, <1>10

-----------------------------------------------------------------------------
(***************************************************************************)
(* An item, as long as its head says.                                      *)
(***************************************************************************)
LEMMA BrokenIs ==
    ASSUME Windowed, Held > 0, NEW n \in Nat, n >= 1
    PROVE  /\ n <= Held => (Broken(First, n) <=> \E i \in 2..n : At(i) = "indefinite")
           /\ fed = Len(input) /\ n >= Held =>
                (Broken(First, n) <=> \E i \in 2..Held : At(i) = "indefinite")
           /\ n >= Held /\ (\E i \in 2..Held : At(i) = "indefinite") => Broken(First, n)
<1>1. Held \in Nat /\ First \in Nat /\ First >= 1 /\ fed \in Nat /\ First + Held = fed + 1 /\ fed <= Len(input) /\ Len(input) \in Nat
  BY PositionIs DEF Windowed
<1>2. ASSUME NEW i \in 2..Held, i <= n
      PROVE  At(i) = input[First + i - 1] /\ First + i - 1 \in First + 1..Least(First + n - 1, Len(input))
  <2>1. At(i) = input[First + i - 1]
    BY <1>1, Byte
  <2>2. First + i - 1 <= First + n - 1 /\ First + i - 1 <= Len(input) /\ First + i - 1 >= First + 1
    BY <1>1, <1>2
  <2> QED
    BY <2>1, <2>2, <1>1 DEF Least
<1>3. ASSUME NEW q \in First + 1..Least(First + n - 1, Len(input)), q <= fed
      PROVE  q - First + 1 \in 2..Held /\ q - First + 1 <= n /\ At(q - First + 1) = input[q]
  <2>1. q \in Nat /\ q <= First + n - 1 /\ q >= First + 1
    BY <1>1 DEF Least
  <2>2. q \in First..fed
    BY <2>1, <1>1, <1>3
  <2>3. At(q - First + 1) = input[q]
    BY <2>2, Buffered
  <2> QED
    BY <2>1, <2>3, <1>1, <1>3
<1>4. ASSUME NEW i \in 2..Held, i <= n, At(i) = "indefinite" PROVE Broken(First, n)
  BY <1>2, <1>4 DEF Broken
<1>5. ASSUME n <= Held \/ fed = Len(input), NEW q \in First + 1..Least(First + n - 1, Len(input))
      PROVE  q <= fed
  BY <1>1, <1>5 DEF Least
<1>6. ASSUME n <= Held \/ fed = Len(input), Broken(First, n)
      PROVE  \E i \in 2..Held : i <= n /\ At(i) = "indefinite"
  <2>1. PICK q \in First + 1..Least(First + n - 1, Len(input)) : input[q] = "indefinite"
    BY <1>6 DEF Broken
  <2>2. q <= fed
    BY <1>5, <1>6
  <2>3. q - First + 1 \in 2..Held /\ q - First + 1 <= n /\ At(q - First + 1) = "indefinite"
    BY <2>1, <2>2, <1>3
  <2> QED
    BY <2>3
<1>7. \A i \in 2..Held : i \in Nat
  OBVIOUS
<1>8. n <= Held => (Broken(First, n) <=> \E i \in 2..n : At(i) = "indefinite")
  <2>1. n <= Held => \A i : i \in 2..n <=> i \in 2..Held /\ i <= n
    BY <1>1
  <2> QED
    BY <2>1, <1>4, <1>6
<1>9. n >= Held => \A i \in 2..Held : i <= n
  BY <1>1
<1> QED
  BY <1>4, <1>6, <1>8, <1>9

LEMMA CBORRecordStep ==
    ASSUME Scanned, CBORRecord
    PROVE  Scanned'
<1> USE DEF Scanned
<1>1. phase = "cbor" /\ Held > 0 /\ input[First] \in Heads
  BY DEF CBORRecord, Underway
<1>2. Held \in Nat /\ First \in Nat /\ First >= 1 /\ fed \in Nat /\ First + Held = fed + 1 /\ fed <= Len(input) /\ Len(input) \in Nat
      /\ Held <= Ceiling
  BY PositionIs DEF Windowed
<1>3. First <= Len(input) /\ input[First] \notin Spaces /\ input[First] # "brace"
  BY <1>1, <1>2, FramingAssumption DEF Spaces
<1>4. LineOf(First) = lines + 1 /\ lines \in Nat
  BY OnLine DEF Passed
<1>5. At(1) = input[First]
  <2>1. 1 \in 1..Held /\ First + 1 - 1 = First
    BY <1>1, <1>2
  <2> QED
    BY <2>1, Byte
<1>6. PICK item \in Nat : item = ItemLen[input[First]] /\ item >= 1
  <2>1. ItemLen[input[First]] \in Nat \ {0}
    BY <1>1, FramingAssumption
  <2> QED
    BY <2>1
<1>7. Refusals(First) = ItemRefusals(First, item) /\ ItemEnd(First) = First + item - 1
  BY <1>1, <1>3, <1>6 DEF Refusals, ItemEnd
<1>8. LastOf(First) = ItemEnd(First) /\ NextOf(First) = ItemEnd(First) + 1 /\ LineFor(First) = 0
  BY <1>3 DEF LastOf, NextOf, LineFor
<1>9. Ceiling \in Nat /\ Limit \in Nat /\ Limit < Ceiling /\ Ceiling >= 1
  BY CeilingIs, FramingAssumption
<1>10. (Complete <=> Held >= item) /\ (Malformed <=> \E i \in 2..Least(Held, item) : At(i) = "indefinite")
  BY <1>5, <1>6 DEF Complete, Malformed
<1>11. /\ Complete => (Malformed <=> Broken(First, item)) /\ Least(item, Ceiling) = item
       /\ ~Complete => /\ Malformed => Broken(First, Least(item, Ceiling))
                       /\ fed = Len(input) => (Malformed <=> Broken(First, Least(item, Ceiling)))
                       /\ Held = Ceiling => (Malformed <=> Broken(First, Least(item, Ceiling)))
  <2> DEFINE m == Least(item, Ceiling)
  <2>1. m \in Nat /\ m >= 1 /\ (Held >= item => m = item) /\ (~(Held >= item) => m >= Held)
        /\ (~(Held >= item) /\ Held = Ceiling => m = Held)
    BY <1>2, <1>6, <1>9 DEF Least
  <2>2. (Held >= item => Least(Held, item) = item) /\ (~(Held >= item) => Least(Held, item) = Held)
    BY <1>2, <1>6 DEF Least
  <2> HIDE DEF m
  <2>3. /\ m <= Held => (Broken(First, m) <=> \E i \in 2..m : At(i) = "indefinite")
        /\ fed = Len(input) /\ m >= Held => (Broken(First, m) <=> \E i \in 2..Held : At(i) = "indefinite")
        /\ m >= Held /\ (\E i \in 2..Held : At(i) = "indefinite") => Broken(First, m)
    BY <2>1, <1>1, BrokenIs
  <2>4. Complete => (Malformed <=> Broken(First, item)) /\ m = item
    <3> SUFFICES ASSUME Complete PROVE (Malformed <=> Broken(First, item)) /\ m = item
      OBVIOUS
    <3>1. Held >= item /\ m = item /\ m <= Held /\ Least(Held, item) = m
      BY <1>10, <2>1, <2>2
    <3> QED
      BY <3>1, <2>3, <1>10
  <2>5. ASSUME ~Complete
        PROVE  /\ Malformed => Broken(First, m)
               /\ fed = Len(input) => (Malformed <=> Broken(First, m))
               /\ Held = Ceiling => (Malformed <=> Broken(First, m))
    <3>1. ~(Held >= item) /\ m >= Held /\ Least(Held, item) = Held
      BY <2>5, <1>10, <2>1, <2>2
    <3>2. Malformed <=> \E i \in 2..Held : At(i) = "indefinite"
      BY <3>1, <1>10
    <3>3. Held = Ceiling => m = Held /\ m <= Held
      BY <3>1, <2>1, <1>2
    <3> QED
      BY <3>1, <3>2, <3>3, <2>3
  <2> QED
    BY <2>4, <2>5 DEF m
<1>12. CASE Malformed \/ (~Complete /\ eof)
  <2>1. Refuse("grammar", 0)
    BY <1>12 DEF CBORRecord
  <2>2. Answer("grammar", 0) \in ItemRefusals(First, item)
    <3>1. CASE Broken(First, Least(item, Ceiling))
      BY <3>1 DEF ItemRefusals
    <3>2. CASE ~Broken(First, Least(item, Ceiling))
      <4>1. ~Complete /\ ~Malformed /\ eof
        BY <3>2, <1>11, <1>12
      <4>2. fed = Len(input) /\ Held < item
        BY <4>1, <1>2, <1>6, <1>10 DEF Windowed
      <4>3. ItemEnd(First) > Len(input) /\ Len(input) - First < Ceiling
        BY <4>2, <1>2, <1>6, <1>7, <1>9
      <4> QED
        BY <4>3, <3>2 DEF ItemRefusals
    <3> QED
      BY <3>1, <3>2
  <2> QED
    BY <2>1, <2>2, <1>3, <1>7, Refused
<1>13. CASE ~Malformed /\ ~Complete /\ ~eof
  <2>1. More
    BY <1>13 DEF CBORRecord
  <2>2. ASSUME BufferFull PROVE Answer("toolarge", lines + 1) \in ItemRefusals(First, item)
    <3>1. Held = Ceiling
      BY <2>2, Full
    <3>2. ~Broken(First, Least(item, Ceiling))
      BY <3>1, <1>11, <1>13
    <3>3. item > Ceiling /\ Len(input) - First >= Ceiling - 1
      BY <3>1, <1>2, <1>6, <1>9, <1>10, <1>13
    <3> QED
      BY <3>2, <3>3, <1>4 DEF ItemRefusals
  <2> QED
    BY <2>1, <2>2, <1>1, <1>3, <1>7, Fetched
<1>14. CASE ~Malformed /\ Complete
  <2>1. Held >= item /\ ~Broken(First, Least(item, Ceiling)) /\ ~(item > Ceiling)
    BY <1>2, <1>6, <1>9, <1>10, <1>11, <1>14
  <2>2. ~(ItemEnd(First) > Len(input))
    BY <2>1, <1>2, <1>6, <1>7
  <2>3. ItemRefusals(First, item) = {a \in {Answer("toolarge", 0)} : item > Limit}
    BY <2>1, <2>2 DEF ItemRefusals
  <2>4. CASE item > Limit
    <3>1. Refuse("toolarge", 0)
      BY <2>4, <1>5, <1>6, <1>14 DEF CBORRecord
    <3>2. Answer("toolarge", 0) \in Refusals(First)
      BY <2>3, <2>4, <1>7
    <3> QED
      BY <3>1, <3>2, <1>3, Refused
  <2>5. CASE ~(item > Limit)
    <3>1. Deliver(item, item, 0) /\ lines' = lines
      BY <2>5, <1>5, <1>6, <1>14 DEF CBORRecord
    <3>2. PICK p \in Nat : p = First + item
      BY <1>2
    <3>3. /\ Consume(item) /\ UNCHANGED <<input, fed, size, end, eof, refusal>> /\ phase' = "next"
          /\ frames' = Append(frames, [first |-> First, last |-> First + item - 1, line |-> 0])
      BY <3>1 DEF Deliver
    <3>4. Windowed' /\ First' = p
      <4>1. item \in 0..Held
        BY <2>1, <1>2
      <4> QED
        BY <4>1, <3>2, <3>3, Consumed
    <3>5. Refusals(First) = {}
      BY <2>3, <2>5, <1>7
    <3>6. NextOf(First) = p /\ LastOf(First) = First + item - 1
      BY <1>2, <1>7, <1>8, <3>2
    <3>7. PassedOver(item, p) = NewlinesBefore(First)
      BY <1>2, <3>2 DEF PassedOver
    <3>8. lines' \in Nat /\ lines' = Cardinality(PassedOver(item, p))
      BY <3>1, <3>7 DEF Passed
    <3>9. Passed'
      <4>1. item >= 1 /\ item <= item /\ 0 \in Nat /\ 0 = LineFor(First) /\ input' = input
        BY <1>6, <1>8, <3>3
      <4> QED
        BY <4>1, <1>3, <3>2, <3>3, <3>4, <3>5, <3>6, <3>8, Handed
    <3> QED
      BY <3>3, <3>4, <3>9, <1>1 DEF Underway
  <2> QED
    BY <2>4, <2>5
<1> QED
  BY <1>12, <1>13, <1>14

-----------------------------------------------------------------------------
(***************************************************************************)
(* The scanner.                                                            *)
(***************************************************************************)
LEMMA ScanBegins ==
    ASSUME FramingInit
    PROVE  Scanned
<1>1. PICK stream \in Inputs : FramingIdle(stream)
  BY DEF FramingInit
<1>2. /\ input \in Seq(STRING) /\ fed = 0 /\ size = 0 /\ start = 0 /\ end = 0
      /\ eof = FALSE /\ lines = 0 /\ phase = "next" /\ frames = <<>> /\ refusal = None
  BY <1>1, FramingAssumption DEF FramingIdle
<1>3. Len(input) \in Nat
  BY <1>2
<1>4. Held = 0
  BY <1>2 DEF Held
<1>5. First = 1
  BY <1>2, <1>4 DEF First
<1>6. Windowed
  <2>1. ~eof /\ eof \in BOOLEAN
    BY <1>2
  <2>2. fed \in 0..Len(input) /\ size \in 0..Ceiling /\ start \in Nat /\ end \in Nat
        /\ start <= end /\ end <= size /\ Held <= fed
    BY <1>2, <1>3, <1>4, CeilingIs
  <2> QED
    BY <2>1, <2>2, <1>2 DEF Windowed
<1>7. frames \in Seq(FrameSet) /\ Len(frames) = 0 /\ DOMAIN frames = {}
  BY <1>2
<1>8. Sought(Len(frames)) = 1
  BY <1>7 DEF Sought
<1>9. NewlinesBefore(First) = {}
  BY <1>5 DEF NewlinesBefore
<1>10. lines = Cardinality(NewlinesBefore(First)) /\ lines \in Nat
  BY <1>2, <1>9, FS_EmptySet
<1>11. Passed
  <2>1. Sought(Len(frames)) \in 1..First /\ \A q \in Sought(Len(frames))..First - 1 : input[q] \in Spaces
    BY <1>5, <1>8
  <2>2. NewlinesBefore(First) \subseteq 1..First - 1
    BY <1>9
  <2>3. \A i \in DOMAIN frames : FramedAt(i) /\ frames[i].first <= First /\ frames[i].last < First
    BY <1>7
  <2> QED
    BY <1>7, <1>10, <2>1, <2>2, <2>3 DEF Passed
<1>12. Underway
  BY <1>2 DEF Underway
<1> QED
  BY <1>6, <1>11, <1>12 DEF Scanned

LEMMA ScanStands ==
    ASSUME Scanned, UNCHANGED scan
    PROVE  Scanned'
<1>1. UNCHANGED <<input, fed, size, start, end, eof, lines, phase, frames, refusal>>
  BY DEF scan
<1>2. Windowed' /\ Passed' /\ First' = First /\ Held' = Held
  BY <1>1, Untouched DEF Scanned
<1>3. Underway'
  <2>1. EndedAt(Mark(Len(frames)))' <=> EndedAt(Mark(Len(frames)))
    BY <1>1 DEF EndedAt, Mark, Sought, NextOf, Refusals, ItemRefusals, Broken, LineOf, NewlinesBefore, TextEnd,
                LineFeed, FirstOf, ItemEnd, Number
  <2> QED
    BY <1>1, <1>2, <2>1 DEF Underway, Scanned
<1> QED
  BY <1>2, <1>3 DEF Scanned

LEMMA AsWritten ==
    ASSUME Scanned
    PROVE  FramedAsWritten
<1>1. size <= Ceiling
  BY CeilingIs DEF Scanned, Windowed
<1>2. \A i \in DOMAIN frames : FramedAt(i)
  BY DEF Scanned, Passed
<1>3. refusal.kind \notin {"none", "read"} => EndedAt(Mark(Len(frames)))
  <2>1. phase # "stopped" => refusal.kind = "none"
    BY DEF Scanned, Underway, None
  <2> QED
    BY <2>1 DEF Scanned, Underway
<1> QED
  BY <1>1, <1>2, <1>3 DEF FramedAsWritten

\* The invariant holds at first, and each step of the scanner keeps it.
THEOREM ScanInductive == FramingSpec => []Scanned
<1>1. ASSUME Scanned, [FramingNext]_scan PROVE Scanned'
  <2>1. CASE FramingNext
    BY <1>1, <2>1, SkipSpaceStep, EndOfInputStep, NeedBytesStep, DispatchStep, JSONRecordStep, CBORRecordStep
       DEF FramingNext
  <2>2. CASE UNCHANGED scan
    BY <1>1, <2>2, ScanStands
  <2> QED
    BY <1>1, <2>1, <2>2
<1> QED
  BY <1>1, ScanBegins, PTL DEF FramingSpec

\* Whatever the reads, the records handed out, the refusal and its line are those
\* of the bytes, and the buffer stays within the limit and its slack
\* (recordScanner.next, jsonRecord, cborRecord, fill).
THEOREM StreamFramedAsWritten == FramingSpec => []FramedAsWritten
BY ScanInductive, AsWritten, PTL

-----------------------------------------------------------------------------
(***************************************************************************)
(* Powers of two, and words.                                               *)
(***************************************************************************)

LEMMA Doubling ==
    ASSUME NEW n \in Nat
    PROVE  TwoTo(0) = 1 /\ TwoTo(n) \in Nat \ {0} /\ TwoTo(n + 1) = 2 * TwoTo(n)
<1> DEFINE Body(f, k) == [i \in 0..k |-> IF i = 0 THEN 1 ELSE 2 * f[i - 1]]
           P == Nat \ {0}
           rule(k) == [i \in 1..k |-> [x \in P |-> 2 * x]]
           F(k) == CHOOSE f : f = Body(f, k)
<1>1. ASSUME NEW k \in Nat
      PROVE  /\ F(k) \in [0..k -> P] /\ F(k)[0] = 1 /\ \A i \in 1..k : F(k)[i] = 2 * F(k)[i - 1]
             /\ TwoTo(k) = F(k)[k]
  <2>1. rule(k) \in Rules(k, P) /\ 1 \in P
    BY DEF Rules
  <2>2. \A i \in 1..k : \A x \in P : rule(k)[i][x] = 2 * x
    OBVIOUS
  <2> HIDE DEF rule
  <2>3. PICK f : Obeys(f, k, P, 1, rule(k))
    BY <2>1, Recursive
  <2>4. f \in [0..k -> P] /\ f[0] = 1 /\ \A i \in 1..k : f[i] = 2 * f[i - 1]
    <3>1. f \in [0..k -> P] /\ f[0] = 1 /\ \A i \in 1..k : f[i] = rule(k)[i][f[i - 1]]
      BY <2>3 DEF Obeys
    <3>2. \A i \in 1..k : i - 1 \in 0..k /\ f[i - 1] \in P
      BY <3>1
    <3> QED
      BY <2>2, <3>1, <3>2
  <2>5. f = Body(f, k)
    <3>1. \A i \in 0..k : f[i] = IF i = 0 THEN 1 ELSE 2 * f[i - 1]
      <4>1. \A i \in 0..k : i = 0 \/ i \in 1..k
        OBVIOUS
      <4> QED
        BY <2>4, <4>1
    <3> QED
      BY <2>4, <3>1
  <2>6. F(k) = Body(F(k), k)
    BY <2>5
  <2>7. TwoTo(k) = F(k)[k]
    BY DEF TwoTo
  <2> HIDE DEF F
  <2>8. DOMAIN F(k) = 0..k /\ F(k)[0] = 1 /\ \A i \in 1..k : F(k)[i] = 2 * F(k)[i - 1]
    <3>1. DOMAIN F(k) = 0..k
      BY <2>6
    <3>2. 0 \in 0..k /\ \A i \in 1..k : i \in 0..k /\ i # 0
      OBVIOUS
    <3>3. \A i \in 0..k : F(k)[i] = IF i = 0 THEN 1 ELSE 2 * F(k)[i - 1]
      BY <2>6
    <3> QED
      BY <3>1, <3>2, <3>3
  <2> DEFINE Same == {i \in 0..k : F(k)[i] = f[i]}
  <2>9. 0 \in Same
    BY <2>4, <2>8
  <2>10. ASSUME NEW i \in 1..k, i - 1 \in Same PROVE i \in Same
    <3>1. i \in 0..k
      OBVIOUS
    <3> QED
      BY <2>4, <2>8, <2>10, <3>1
  <2> HIDE DEF Same
  <2>11. \A i \in 0..k : i \in Same
    BY <2>9, <2>10, Climbing
  <2>12. \A i \in 0..k : F(k)[i] = f[i]
    BY <2>11 DEF Same
  <2>13. F(k) = [i \in 0..k |-> F(k)[i]]
    BY <2>6, <2>8
  <2>14. F(k) \in [0..k -> P]
    BY <2>4, <2>12, <2>13
  <2> QED
    BY <2>7, <2>8, <2>14
<1> HIDE DEF F, P
<1>2. n + 1 \in Nat /\ 0 \in Nat
  OBVIOUS
<1>3. TwoTo(0) = 1
  BY <1>1, <1>2
<1>4. TwoTo(n) \in Nat \ {0}
  <2>1. n \in 0..n
    OBVIOUS
  <2> QED
    BY <1>1, <2>1 DEF P
<1>5. F(n + 1)[n] = F(n)[n]
  <2> DEFINE Same == {i \in 0..n : F(n + 1)[i] = F(n)[i]}
  <2>1. 0 \in Same
    BY <1>1, <1>2
  <2>2. ASSUME NEW i \in 1..n, i - 1 \in Same PROVE i \in Same
    <3>1. i \in 1..n + 1 /\ i \in 0..n
      OBVIOUS
    <3>2. F(n + 1)[i] = 2 * F(n + 1)[i - 1] /\ F(n)[i] = 2 * F(n)[i - 1]
      BY <1>1, <1>2, <3>1
    <3> QED
      BY <2>2, <3>1, <3>2
  <2> HIDE DEF Same
  <2>3. \A i \in 0..n : i \in Same
    BY <2>1, <2>2, Climbing
  <2>4. n \in Same
    BY <2>3
  <2> QED
    BY <2>4 DEF Same
<1>6. F(n + 1)[n + 1] = 2 * F(n + 1)[n]
  <2>1. n + 1 \in 1..n + 1 /\ n + 1 - 1 = n
    OBVIOUS
  <2> QED
    BY <1>1, <1>2, <2>1
<1> QED
  BY <1>1, <1>2, <1>3, <1>4, <1>5, <1>6

\* A product of powers is the power of the sum, and every number is less than
\* its own power.
LEMMA PowersAdd ==
    ASSUME NEW a \in Nat, NEW b \in Nat
    PROVE  TwoTo(a + b) = TwoTo(a) * TwoTo(b)
<1> DEFINE S == {k \in 0..b : TwoTo(a + k) = TwoTo(a) * TwoTo(k)}
<1>1. 0 \in S
  <2>1. TwoTo(0) = 1 /\ TwoTo(a) \in Nat /\ a + 0 = a
    BY Doubling
  <2> QED
    BY <2>1
<1>2. ASSUME NEW k \in 1..b, k - 1 \in S PROVE k \in S
  <2> DEFINE j == k - 1
  <2>1. j \in Nat /\ a + j \in Nat /\ j + 1 = k /\ (a + j) + 1 = a + k
    OBVIOUS
  <2>2. TwoTo(j + 1) = 2 * TwoTo(j) /\ TwoTo((a + j) + 1) = 2 * TwoTo(a + j)
    BY <2>1, Doubling
  <2>3. TwoTo(a + j) = TwoTo(a) * TwoTo(j)
    BY <1>2
  <2>4. TwoTo(a) \in Nat /\ TwoTo(j) \in Nat
    BY <2>1, Doubling
  <2> HIDE DEF j
  <2> DEFINE x == TwoTo(a)
             y == TwoTo(j)
  <2>5. TwoTo(k) = 2 * y /\ TwoTo(a + k) = 2 * (x * y) /\ x \in Nat /\ y \in Nat
    BY <2>1, <2>2, <2>3, <2>4
  <2> HIDE DEF x, y
  <2>6. 2 * (x * y) = x * (2 * y)
    BY <2>5
  <2>7. TwoTo(a + k) = TwoTo(a) * TwoTo(k)
    BY <2>5, <2>6 DEF x
  <2> QED
    BY <2>7
<1> HIDE DEF S
<1>3. \A k \in 0..b : k \in S
  BY <1>1, <1>2, Climbing
<1>4. b \in S
  BY <1>3
<1> QED
  BY <1>4 DEF S

LEMMA PowersGrow ==
    ASSUME NEW a \in Nat, NEW b \in Nat
    PROVE  TwoTo(a) <= TwoTo(a + b) /\ a < TwoTo(a)
<1>1. TwoTo(a) <= TwoTo(a + b)
  <2>1. TwoTo(a) \in Nat \ {0} /\ TwoTo(b) \in Nat \ {0} /\ TwoTo(a + b) = TwoTo(a) * TwoTo(b)
    BY Doubling, PowersAdd
  <2> QED
    BY <2>1
<1> DEFINE S == {k \in 0..a : k < TwoTo(k)}
<1>2. 0 \in S
  BY Doubling
<1>3. ASSUME NEW k \in 1..a, k - 1 \in S PROVE k \in S
  <2>1. k - 1 \in Nat /\ (k - 1) + 1 = k
    OBVIOUS
  <2>2. TwoTo((k - 1) + 1) = 2 * TwoTo(k - 1) /\ TwoTo(k - 1) \in Nat
    BY <2>1, Doubling
  <2>3. k - 1 < TwoTo(k - 1)
    BY <1>3
  <2>4. TwoTo(k) = 2 * TwoTo(k - 1)
    BY <2>1, <2>2
  <2>5. k < TwoTo(k)
    BY <2>2, <2>3, <2>4
  <2> QED
    BY <2>5
<1> HIDE DEF S
<1>4. \A k \in 0..a : k \in S
  BY <1>2, <1>3, Climbing
<1>5. a \in S
  BY <1>4
<1> QED
  BY <1>1, <1>5 DEF S

\* Division and remainder are found by their parts.
LEMMA Divided ==
    ASSUME NEW n \in Int, NEW m \in Nat \ {0}
    PROVE  (n * m) \div m = n
OBVIOUS

LEMMA RemainderIs ==
    ASSUME NEW n \in Int, NEW m \in Nat \ {0}
    PROVE  /\ n \in 0..m - 1 => n % m = n
           /\ n + m \in 0..m - 1 => n % m = n + m
OBVIOUS

\* What is within a word is read back from its bits.
LEMMA BitsBack ==
    ASSUME NEW bits \in Nat \ {0}, NEW n \in Int, InBits(n, bits)
    PROVE  FromBits(Bits(n, bits), bits) = n
<1> DEFINE h == TwoTo(bits - 1)
           m == TwoTo(bits)
<1>1. h \in Nat \ {0} /\ m = 2 * h
  <2>1. bits - 1 \in Nat /\ (bits - 1) + 1 = bits
    OBVIOUS
  <2>2. TwoTo((bits - 1) + 1) = 2 * TwoTo(bits - 1) /\ TwoTo(bits - 1) \in Nat \ {0}
    BY <2>1, Doubling
  <2> QED
    BY <2>1, <2>2
<1>2. -h <= n /\ n < h /\ FromBits(Bits(n, bits), bits) = IF n % m >= h THEN (n % m) - m ELSE n % m
  BY DEF InBits, FromBits, Bits
<1> HIDE DEF h, m
<1>3. m \in Nat \ {0}
  BY <1>1
<1>4. CASE n >= 0
  <2>1. n \in 0..m - 1
    BY <1>1, <1>2, <1>4
  <2>2. n % m = n
    BY <1>3, <2>1, RemainderIs
  <2> QED
    BY <1>1, <1>2, <2>2
<1>5. CASE n < 0
  <2>1. n + m \in 0..m - 1
    BY <1>1, <1>2, <1>5
  <2>2. n % m = n + m
    BY <1>3, <2>1, RemainderIs
  <2> QED
    BY <1>1, <1>2, <1>5, <2>2
<1> QED
  BY <1>4, <1>5

\* An int and a long are read back, and so is a decimal from 128 bits.
LEMMA WordKept ==
    ASSUME NEW n \in Int, InBits(n, WordBits)
    PROVE  /\ Wrapped(n) = n
           /\ (IF n < 0 THEN -1 ELSE 0) * TwoTo(WordBits) + Bits(n, WordBits) = n
<1>1. WordBits \in Nat \ {0}
  BY RecordsAssumption
<1>2. Wrapped(n) = n
  BY <1>1, BitsBack DEF Wrapped
<1> DEFINE h == TwoTo(WordBits - 1)
           m == TwoTo(WordBits)
<1>3. h \in Nat \ {0} /\ m = 2 * h
  <2>1. WordBits - 1 \in Nat /\ (WordBits - 1) + 1 = WordBits
    BY <1>1
  <2>2. TwoTo((WordBits - 1) + 1) = 2 * TwoTo(WordBits - 1) /\ TwoTo(WordBits - 1) \in Nat \ {0}
    BY <2>1, Doubling
  <2> QED
    BY <2>1, <2>2
<1>4. -h <= n /\ n < h /\ Bits(n, WordBits) = n % m
  BY DEF InBits, Bits
<1> HIDE DEF h, m
<1>5. (IF n < 0 THEN -1 ELSE 0) * m + (n % m) = n
  <2>1. m \in Nat \ {0}
    BY <1>3
  <2>2. CASE n >= 0
    <3>1. n % m = n
      BY <1>3, <1>4, <2>1, <2>2, RemainderIs
    <3> QED
      BY <2>1, <2>2, <3>1
  <2>3. CASE n < 0
    <3>1. n + m \in 0..m - 1
      BY <1>3, <1>4, <2>3
    <3>2. n % m = n + m
      BY <2>1, <3>1, RemainderIs
    <3> QED
      BY <2>1, <2>3, <3>2
  <2> QED
    BY <2>2, <2>3
<1> QED
  BY <1>2, <1>4, <1>5 DEF m

\* A number is rounded at some power of two, to a number.
LEMMA RoundedIs ==
    ASSUME NEW u \in Int, NEW bits \in Nat \ {0}
    PROVE  Rounded(u, bits) \in Int
<1> DEFINE m == Abs(u)
           C(k) == m < TwoTo(k + bits) /\ (k = 0 \/ m >= TwoTo(k + bits - 1))
           A == {k \in Nat : m < TwoTo(k + bits)}
           c == CHOOSE k \in 0..m : C(k)
           step == TwoTo(c)
           low == (m \div step) * step
           up == \/ 2 * (m - low) > step
                 \/ 2 * (m - low) = step /\ (m \div step) % 2 = 1
<1>1. m \in Nat
  BY DEF Abs
<1>2. Rounded(u, bits) = Signed(u, IF up THEN low + step ELSE low)
  BY DEF Rounded
<1> HIDE DEF m
<1>3. m \in A
  <2>1. m < TwoTo(m) /\ TwoTo(m) <= TwoTo(m + bits) /\ TwoTo(m) \in Nat /\ TwoTo(m + bits) \in Nat
    <3>1. bits \in Nat /\ m + bits \in Nat
      BY <1>1
    <3>2. m < TwoTo(m) /\ TwoTo(m) <= TwoTo(m + bits)
      BY <1>1, <3>1, PowersGrow
    <3> QED
      BY <1>1, <3>1, <3>2, Doubling
  <2> QED
    BY <1>1, <2>1
<1>4. PICK k \in A : \A y \in A : k <= y
  <2>1. A \subseteq Nat /\ A # {}
    BY <1>3
  <2> QED
    BY <2>1, LeastOf
<1>5. k \in 0..m /\ C(k)
  <2>1. k \in Nat /\ m < TwoTo(k + bits) /\ k <= m
    BY <1>1, <1>3, <1>4
  <2>2. ASSUME k # 0 PROVE m >= TwoTo(k + bits - 1)
    <3>1. k - 1 \in Nat /\ ~(k <= k - 1) /\ (k - 1) + bits = k + bits - 1
      BY <2>1, <2>2
    <3>2. k - 1 \notin A
      BY <1>4, <3>1
    <3>3. ~(m < TwoTo(k + bits - 1))
      BY <3>1, <3>2
    <3>4. TwoTo(k + bits - 1) \in Nat
      <4>1. k + bits - 1 \in Nat
        BY <2>1
      <4> QED
        BY <4>1, Doubling
    <3> QED
      BY <1>1, <3>3, <3>4
  <2> QED
    BY <1>1, <2>1, <2>2
<1> HIDE DEF A, C
<1>6. c \in 0..m
  BY <1>5
<1> HIDE DEF c
<1>7. step \in Nat \ {0}
  <2>1. c \in Nat
    BY <1>1, <1>6
  <2> QED
    BY <2>1, Doubling
<1> HIDE DEF step
<1>8. m \div step \in Int
  BY <1>1, <1>7
<1>9. low \in Int
  BY <1>7, <1>8
<1> HIDE DEF low, up
<1>10. (IF up THEN low + step ELSE low) \in Int
  BY <1>7, <1>9
<1> QED
  BY <1>2, <1>10 DEF Signed

\* What a numeral is worth.
LEMMA UnitIs ==
    /\ Unit \in Nat \ {0}
    /\ \A t \in Numerals : /\ UnitsOf(t) \in Int /\ DoubleOf(t) \in Int
                           /\ t.n \in Int /\ t.exp \in BOOLEAN /\ t.frac \in Nat /\ MaxFrac - t.frac \in Nat
                           /\ ParsesAsInt(t) => UnitsOf(t) = t.n * Unit
    /\ TwoTo(MantissaBits) \in Nat /\ TwoTo(MantissaBits) < TwoTo(WordBits - 1)
    /\ TwoTo(WordBits - 1) \in Nat
<1>1. MaxFrac \in Nat /\ MantissaBits \in Nat \ {0} /\ WordBits \in Nat \ {0} /\ MantissaBits < WordBits - 1
  BY RecordsAssumption
<1>2. Unit \in Nat \ {0}
  BY <1>1, Doubling DEF Unit
<1>3. ASSUME NEW t \in Numerals
      PROVE  /\ UnitsOf(t) \in Int /\ DoubleOf(t) \in Int
             /\ t.n \in Int /\ t.exp \in BOOLEAN /\ t.frac \in Nat /\ MaxFrac - t.frac \in Nat
             /\ ParsesAsInt(t) => UnitsOf(t) = t.n * Unit
  <2>1. t.n \in Int /\ t.exp \in BOOLEAN /\ t.frac \in 0..MaxFrac
    BY DEF Numerals
  <2>2. t.frac \in Nat /\ MaxFrac - t.frac \in Nat
    BY <1>1, <2>1
  <2>3. TwoTo(MaxFrac - t.frac) \in Nat
    BY <2>2, Doubling
  <2>4. UnitsOf(t) \in Int
    BY <2>1, <2>3 DEF UnitsOf
  <2>5. DoubleOf(t) \in Int
    BY <1>1, <2>4, RoundedIs DEF DoubleOf
  <2>6. ASSUME ParsesAsInt(t) PROVE UnitsOf(t) = t.n * Unit
    <3>1. MaxFrac - t.frac = MaxFrac
      BY <1>1, <2>6 DEF ParsesAsInt
    <3> QED
      BY <3>1 DEF UnitsOf, Unit
  <2> QED
    BY <2>1, <2>2, <2>4, <2>5, <2>6
<1>4. /\ TwoTo(MantissaBits) \in Nat /\ TwoTo(MantissaBits) < TwoTo(WordBits - 1)
      /\ TwoTo(WordBits - 1) \in Nat
  <2> DEFINE d == (WordBits - 1) - (MantissaBits + 1)
  <2>1. d \in Nat /\ (MantissaBits + 1) + d = WordBits - 1 /\ MantissaBits + 1 \in Nat /\ WordBits - 1 \in Nat
    BY <1>1
  <2>2. TwoTo(MantissaBits + 1) <= TwoTo((MantissaBits + 1) + d)
    BY <2>1, PowersGrow
  <2>3. /\ TwoTo(MantissaBits + 1) = 2 * TwoTo(MantissaBits) /\ TwoTo(MantissaBits) \in Nat \ {0}
        /\ TwoTo(WordBits - 1) \in Nat
    BY <1>1, <2>1, Doubling
  <2> QED
    BY <2>1, <2>2, <2>3
<1> QED
  BY <1>2, <1>3, <1>4

-----------------------------------------------------------------------------
(***************************************************************************)
(* The doors.                                                              *)
(***************************************************************************)

\* What a door hands on, and what is in the range of a column.
Raw(r) ==
    /\ r.go = "Number" => r.t \in Numerals
    /\ r.go \in {"string", "bytes"} => r.v \in DOMAIN Contents
    /\ r.go = "float64" => r.v \in Int
Words == {"int", "long", "decimal", "timestamptz"}
Ranged(kind, v) ==
    /\ kind \in Words => v \in Int /\ InBits(v, Width(kind))
    /\ kind \in {"string", "binary"} => v \in DOMAIN Contents
Wired(w) == w.t \in Numerals /\ Sendable(w)
From(door, w) == IF door = "json" THEN FromJSON(w) ELSE FromCBOR(w)

LEMMA Outcomes ==
    /\ \A x : Got(x).why = "none" /\ Got(x).x = x
    /\ \A x, y : Got(x) = Got(y) => x = y
    /\ \A k : No(k).why = k
BY DEF Got, No

LEMMA FromIs ==
    ASSUME NEW door, NEW w, Wired(w), FromDoor(door, w), From(door, w).why = "none"
    PROVE  From(door, w) = Got(From(door, w).x) /\ Raw(From(door, w).x)
<1>1. w.t.n \in Int /\ (w.is \in {"string", "bytes"} => w.t.n \in DOMAIN Contents) /\ w.t \in Numerals
  BY UnitIs DEF Wired, Sendable
<1>2. ASSUME NEW x, From(door, w) = Got(x), Raw(x)
      PROVE  From(door, w) = Got(From(door, w).x) /\ Raw(From(door, w).x)
  BY <1>2, Outcomes, Zenon
<1>3. \A go, v : go \notin {"Number", "string", "bytes", "float64"} => Raw(Plain(go, v))
  BY DEF Raw, Plain
<1>4. \A v : (v \in Int => Raw(Plain("float64", v))) /\ (v \in DOMAIN Contents => Raw(Plain("string", v)) /\ Raw(Plain("bytes", v)))
  BY DEF Raw, Plain
<1>5. \A t \in Numerals : Raw(Digits(t))
  BY DEF Raw, Digits
<1>6. CASE door = "json"
  <2>1. From(door, w) = FromJSON(w) /\ w.is \in JSONTypes
    BY <1>6 DEF From, FromDoor
  <2>2. CASE w.is = "number"
    <3>1. From(door, w) = Got(Digits(w.t))
      BY <2>1, <2>2 DEF FromJSON
    <3> QED
      BY <1>1, <1>2, <1>5, <3>1
  <2>3. CASE w.is = "string"
    <3>1. w.t.n \in DOMAIN Contents
      BY <1>1, <2>3
    <3>2. Contents[w.t.n].replaced \in DOMAIN Contents
      BY <3>1, ContentsAssumption
    <3>3. From(door, w) = Got(Plain("string", Contents[w.t.n].replaced))
      BY <2>1, <2>3 DEF FromJSON
    <3> QED
      BY <1>2, <1>4, <3>2, <3>3
  <2>4. CASE w.is = "null"
    <3>1. From(door, w) = Got(Plain("nil", 0))
      BY <2>1, <2>4 DEF FromJSON
    <3> QED
      BY <1>2, <1>3, <3>1
  <2>5. CASE w.is \in {"bool", "array"}
    <3>1. From(door, w) = Got(Plain(w.is, w.t.n))
      BY <2>1, <2>5 DEF FromJSON
    <3> QED
      BY <1>2, <1>3, <2>5, <3>1
  <2> QED
    BY <2>1, <2>2, <2>3, <2>4, <2>5 DEF JSONTypes
<1>7. CASE door # "json"
  <2>1. From(door, w) = FromCBOR(w) /\ w.is \in CBORTypes
    BY <1>7 DEF From, FromDoor
  <2>2. CASE w.is = "integer"
    <3>1. Numeral(w.t.n, 0, FALSE) \in Numerals
      BY <1>1, RecordsAssumption DEF Numeral, Numerals
    <3>2. From(door, w) = CBORInteger(w.t.n)
      BY <2>1, <2>2 DEF FromCBOR
    <3>3. CBORInteger(w.t.n) # No("type")
      BY <3>2, Outcomes
    <3>4. From(door, w) = Got(Digits(Numeral(w.t.n, 0, FALSE)))
      BY <3>2, <3>3, Zenon DEF CBORInteger
    <3> QED
      BY <1>2, <1>5, <3>1, <3>4
  <2>3. CASE w.is = "null"
    <3>1. From(door, w) = Got(Plain("nil", 0))
      BY <2>1, <2>3 DEF FromCBOR
    <3> QED
      BY <1>2, <1>3, <3>1
  <2>4. CASE w.is = "string"
    <3>1. From(door, w) = Got(Plain("string", w.t.n))
      <4>1. From(door, w) = IF Contents[w.t.n].utf8 THEN Got(Plain("string", w.t.n)) ELSE No("malformed")
        BY <2>1, <2>4 DEF FromCBOR
      <4>2. No("malformed").why # "none"
        BY Outcomes
      <4> QED
        BY <4>1, <4>2, Zenon
    <3> QED
      BY <1>1, <1>2, <1>4, <2>4, <3>1
  <2>5. CASE w.is \in {"bool", "float64", "bytes"}
    <3>1. From(door, w) = Got(Plain(w.is, w.t.n))
      BY <2>1, <2>5 DEF FromCBOR
    <3>2. Raw(Plain(w.is, w.t.n))
      BY <1>1, <1>3, <1>4, <2>5
    <3> QED
      BY <1>2, <3>1, <3>2
  <2>6. CASE w.is \in {"array", "tag", "undefined"}
    <3>1. From(door, w) = No("type")
      BY <2>1, <2>6 DEF FromCBOR
    <3> QED
      BY <3>1, Outcomes
  <2> QED
    BY <2>1, <2>2, <2>3, <2>4, <2>5, <2>6 DEF CBORTypes
<1> QED
  BY <1>6, <1>7

\* A coercion to a number of so many units, a decimal's and an instant's.
AWord(n) == n \in Int /\ InBits(n, WordBits)

LEMMA IntegralIs ==
    ASSUME NEW u \in Int, IntegralFloat(u).why = "none"
    PROVE  IntegralFloat(u) = Got(u \div Unit) /\ AWord(u \div Unit)
<1>1. IntegralFloat(u) = Got(u \div Unit) /\ ~(Abs(u) > TwoTo(MantissaBits) * Unit)
  BY DEF IntegralFloat, No
<1> DEFINE m == TwoTo(MantissaBits)
           h == TwoTo(WordBits - 1)
           q == u \div Unit
<1>2. Unit \in Nat \ {0} /\ m \in Nat /\ h \in Nat /\ m < h
  BY UnitIs
<1>3. -(m * Unit) <= u /\ u <= m * Unit
  BY <1>1, <1>2 DEF Abs
<1> HIDE DEF m, h
<1>4. q \in Int /\ q * Unit <= u /\ u < q * Unit + Unit
  BY <1>2
<1> HIDE DEF q
<1>5. q <= m
  <2> SUFFICES ASSUME q >= m + 1 PROVE FALSE
    BY <1>2, <1>4
  <2>1. q * Unit >= (m + 1) * Unit
    BY <1>2, <1>4
  <2> QED
    BY <1>2, <1>3, <1>4, <2>1
<1>6. -m <= q
  <2> SUFFICES ASSUME q + 1 <= -m PROVE FALSE
    BY <1>2, <1>4
  <2>1. (q + 1) * Unit <= (-m) * Unit
    BY <1>2, <1>4
  <2>2. (-m) * Unit = -(m * Unit) /\ (q + 1) * Unit = q * Unit + Unit
    BY <1>2, <1>4
  <2> QED
    BY <1>2, <1>3, <1>4, <2>1, <2>2
<1>7. AWord(q)
  BY <1>2, <1>4, <1>5, <1>6 DEF AWord, InBits, h
<1> QED
  BY <1>1, <1>7 DEF q

LEMMA IntegerIs ==
    ASSUME NEW r, Raw(r), Integer(r).why = "none"
    PROVE  Integer(r) = Got(Integer(r).x) /\ AWord(Integer(r).x)
<1>1. CASE r.go = "float64"
  <2>1. r.v \in Int /\ Integer(r) = IntegralFloat(r.v)
    BY <1>1 DEF Raw, Integer
  <2>2. IntegralFloat(r.v) = Got(r.v \div Unit) /\ AWord(r.v \div Unit)
    BY <2>1, IntegralIs
  <2> QED
    BY <2>1, <2>2 DEF Got
<1>2. CASE r.go # "float64"
  <2>1. r.go = "Number" /\ r.t \in Numerals
    BY <1>2 DEF Integer, No, Raw
  <2>2. CASE ParsesAsInt(r.t)
    <3>1. Integer(r) = IF InBits(r.t.n, WordBits) THEN Got(r.t.n) ELSE No("range")
      BY <1>2, <2>1, <2>2 DEF Integer
    <3>2. r.t.n \in Int /\ InBits(r.t.n, WordBits) /\ Integer(r) = Got(r.t.n)
      BY <2>1, <3>1, UnitIs DEF No
    <3> QED
      BY <3>2 DEF Got, AWord
  <2>3. CASE ~ParsesAsInt(r.t)
    <3>1. Integer(r) = IntegralFloat(DoubleOf(r.t))
      BY <1>2, <2>1, <2>3 DEF Integer, No
    <3>2. DoubleOf(r.t) \in Int
      BY <2>1, UnitIs
    <3>3. IntegralFloat(DoubleOf(r.t)) = Got(DoubleOf(r.t) \div Unit) /\ AWord(DoubleOf(r.t) \div Unit)
      BY <3>1, <3>2, IntegralIs
    <3> QED
      BY <3>1, <3>3 DEF Got
  <2> QED
    BY <2>2, <2>3
<1> QED
  BY <1>1, <1>2

LEMMA ScaledIs ==
    ASSUME NEW t \in Numerals, NEW scale \in Nat, Scaled(t, scale).why = "none"
    PROVE  /\ Scaled(t, scale) = Got((UnitsOf(t) * TwoTo(scale)) \div Unit)
           /\ AWord((UnitsOf(t) * TwoTo(scale)) \div Unit)
<1> DEFINE f == t.frac
           a == TwoTo(MaxFrac - f)
           b == TwoTo(scale - f)
           c == TwoTo(f)
           n == t.n
<1>1. /\ f \in Nat /\ MaxFrac - f \in Nat /\ scale - f \in Nat /\ n \in Int /\ f <= scale
      /\ Scaled(t, scale) = IF Abs(n * b) < TwoTo(WordBits - 1) THEN Got(n * b) ELSE No("range")
  <2>1. ~(t.exp \/ t.frac > scale) /\ f \in Nat /\ MaxFrac - f \in Nat /\ n \in Int
    BY UnitIs DEF Scaled, No
  <2> QED
    BY <2>1 DEF Scaled
<1>2. a \in Nat \ {0} /\ b \in Nat \ {0} /\ c \in Nat \ {0}
  BY <1>1, Doubling
<1>3. a * c = Unit
  <2>1. (MaxFrac - f) + f = MaxFrac
    BY <1>1, RecordsAssumption
  <2> QED
    BY <1>1, <2>1, PowersAdd DEF Unit
<1>4. b * c = TwoTo(scale)
  <2>1. (scale - f) + f = scale
    BY <1>1
  <2> QED
    BY <1>1, <2>1, PowersAdd
<1>5. UnitsOf(t) = n * a
  BY DEF UnitsOf
<1>6. Scaled(t, scale) = Got(n * b) /\ Abs(n * b) < TwoTo(WordBits - 1)
  BY <1>1 DEF No
<1> HIDE DEF f, a, b, c, n
<1>7. UnitsOf(t) * TwoTo(scale) = (n * b) * Unit
  <2>1. (n * a) * (b * c) = (n * b) * (a * c)
    BY <1>1, <1>2
  <2> QED
    BY <1>3, <1>4, <1>5, <2>1
<1>8. n * b \in Int /\ Unit \in Nat \ {0} /\ TwoTo(WordBits - 1) \in Nat
  BY <1>1, <1>2, UnitIs
<1>9. (UnitsOf(t) * TwoTo(scale)) \div Unit = n * b
  BY <1>7, <1>8, Divided
<1>10. AWord(n * b)
  BY <1>6, <1>8 DEF AWord, InBits, Abs
<1> QED
  BY <1>6, <1>9, <1>10

\* What a coercion reads before it looks at the column's width.
ReadAs(column, raw) ==
    LET k == column.kind IN
    CASE k \in {"int", "long"} -> Integer(raw)
      [] k \in {"float", "double"} -> Float(raw)
      [] k = "decimal" -> Decimal(raw, column.scale)
      [] k = "timestamptz" -> Timestamp(raw)
      [] k = "binary" -> Binary(raw)
      [] OTHER -> Exactly(GoType(k), raw)

LEMMA ColumnIs ==
    ASSUME NEW column \in Column
    PROVE  column.kind \in Kinds /\ column.scale \in Nat /\ column.precision \in Nat /\ column.required \in BOOLEAN
BY DEF Column

LEMMA DecimalIs ==
    ASSUME NEW raw, Raw(raw), NEW scale \in Nat, Decimal(raw, scale).why = "none"
    PROVE  \E t \in Numerals :
               /\ \/ raw.go = "Number" /\ t = raw.t
                  \/ raw.go = "string" /\ Contents[raw.v].number /\ t = Contents[raw.v].t
               /\ Decimal(raw, scale) = Scaled(t, scale)
<1>1. CASE raw.go = "Number"
  <2>1. raw.t \in Numerals /\ Decimal(raw, scale) = Scaled(raw.t, scale)
    BY <1>1 DEF Raw, Decimal
  <2> QED
    BY <1>1, <2>1
<1>2. CASE raw.go = "string"
  <2>1. Decimal(raw, scale) = IF Contents[raw.v].number THEN Scaled(Contents[raw.v].t, scale) ELSE No("malformed")
    BY <1>2 DEF Decimal
  <2>2. Contents[raw.v].number
    BY <2>1, Outcomes
  <2>3. Contents[raw.v].t \in Numerals
    BY <1>2, <2>2, ContentsAssumption DEF Raw
  <2> QED
    BY <1>2, <2>1, <2>2, <2>3
<1>3. CASE raw.go \notin {"Number", "string"}
  <2>1. Decimal(raw, scale) = No("type")
    BY <1>3 DEF Decimal
  <2> QED
    BY <2>1, Outcomes
<1> QED
  BY <1>1, <1>2, <1>3

LEMMA TimestampIs ==
    ASSUME NEW raw, Raw(raw), Timestamp(raw).why = "none"
    PROVE  \/ raw.go # "string" /\ Timestamp(raw) = Integer(raw)
           \/ /\ raw.go = "string" /\ Contents[raw.v].instant /\ Timestamp(raw) = Got(Contents[raw.v].millis)
              /\ AWord(Contents[raw.v].millis)
<1>1. CASE raw.go # "string"
  BY <1>1 DEF Timestamp
<1>2. CASE raw.go = "string"
  <2>1. Contents[raw.v].instant /\ ~Contents[raw.v].finer
    BY <1>2, Outcomes, Zenon DEF Timestamp
  <2>2. Timestamp(raw) = Got(Contents[raw.v].millis)
    BY <1>2, <2>1 DEF Timestamp
  <2>3. AWord(Contents[raw.v].millis)
    BY <1>2, <2>1, ContentsAssumption DEF Raw, AWord
  <2> QED
    BY <1>2, <2>1, <2>2, <2>3
<1> QED
  BY <1>1, <1>2

LEMMA ExactlyIs ==
    ASSUME NEW go, NEW raw, Exactly(go, raw).why = "none"
    PROVE  raw.go = go /\ Exactly(go, raw) = Got(raw.v)
<1>1. Exactly(go, raw) = IF raw.go = go THEN Got(raw.v) ELSE No("type")
  BY DEF Exactly
<1>2. No("type").why # "none"
  BY Outcomes
<1> QED
  BY <1>1, <1>2, Zenon

LEMMA BinaryIs ==
    ASSUME NEW raw, Raw(raw), Binary(raw).why = "none"
    PROVE  \/ /\ raw.go = "string" /\ Contents[raw.v].base64 \in DOMAIN Contents
              /\ Contents[raw.v].base64 # 0 /\ Binary(raw) = Got(Contents[raw.v].base64)
           \/ raw.go = "bytes" /\ raw.v \in DOMAIN Contents /\ Binary(raw) = Got(raw.v)
<1>1. CASE raw.go = "string"
  <2>1. Contents[raw.v].base64 # 0 /\ Binary(raw) = Got(Contents[raw.v].base64)
    BY <1>1, Outcomes, Zenon DEF Binary
  <2>2. Contents[raw.v].base64 \in DOMAIN Contents
    BY <1>1, <2>1, ContentsAssumption DEF Raw
  <2> QED
    BY <1>1, <2>1, <2>2
<1>2. CASE raw.go # "string"
  <2>1. Binary(raw) = Exactly("bytes", raw)
    BY <1>2 DEF Binary
  <2>2. raw.go = "bytes" /\ Binary(raw) = Got(raw.v)
    BY <2>1, ExactlyIs
  <2> QED
    BY <2>2 DEF Raw
<1> QED
  BY <1>1, <1>2

LEMMA FloatIs ==
    ASSUME NEW raw, Float(raw).why = "none"
    PROVE  Float(raw) = Got(Float(raw).x)
<1>1. \A x : Float(raw) = Got(x) => Float(raw) = Got(Float(raw).x)
  BY Outcomes, Zenon
<1>2. CASE raw.go = "float64"
  BY <1>1, <1>2 DEF Float
<1>3. CASE raw.go # "float64"
  <2>1. raw.go = "Number" /\ Finite(DoubleOf(raw.t))
    BY <1>3, Outcomes, Zenon DEF Float
  <2>2. Float(raw) = Got(DoubleOf(raw.t))
    BY <1>3, <2>1 DEF Float
  <2> QED
    BY <1>1, <2>2
<1> QED
  BY <1>2, <1>3

\* A coercion reads a number that is whole, or contents.
LEMMA ReadingIs ==
    ASSUME NEW column \in Column, NEW raw, Raw(raw), ReadAs(column, raw).why = "none"
    PROVE  \E v : /\ ReadAs(column, raw) = Got(v)
                  /\ column.kind \in Words => AWord(v)
                  /\ column.kind \in {"string", "binary"} => v \in DOMAIN Contents
<1> DEFINE k == column.kind
           r == ReadAs(column, raw)
<1>1. k \in Kinds /\ column.scale \in Nat
  BY ColumnIs
<1>2. CASE k \in {"int", "long"}
  <2>1. r = Integer(raw)
    BY <1>2 DEF ReadAs
  <2>2. r = Got(Integer(raw).x) /\ AWord(Integer(raw).x)
    BY <2>1, IntegerIs
  <2> QED
    BY <1>2, <2>2
<1>3. CASE k \in {"float", "double"}
  <2>1. r = Float(raw)
    BY <1>3 DEF ReadAs
  <2>2. r = Got(Float(raw).x)
    BY <2>1, FloatIs
  <2> QED
    BY <1>3, <2>2 DEF Words
<1>4. CASE k = "decimal"
  <2>1. r = Decimal(raw, column.scale)
    BY <1>4 DEF ReadAs
  <2>2. PICK t \in Numerals : r = Scaled(t, column.scale)
    BY <1>1, <2>1, DecimalIs
  <2>3. \E v : r = Got(v) /\ AWord(v)
    BY <1>1, <2>2, ScaledIs
  <2> QED
    BY <1>4, <2>3
<1>5. CASE k = "timestamptz"
  <2>1. r = Timestamp(raw)
    BY <1>5 DEF ReadAs
  <2>2. CASE raw.go # "string"
    <3>1. r = Integer(raw)
      BY <2>1, <2>2, TimestampIs
    <3>2. r = Got(Integer(raw).x) /\ AWord(Integer(raw).x)
      BY <3>1, IntegerIs
    <3> QED
      BY <1>5, <3>2
  <2>3. CASE raw.go = "string"
    <3>1. r = Got(Contents[raw.v].millis) /\ AWord(Contents[raw.v].millis)
      BY <2>1, <2>3, TimestampIs
    <3> QED
      BY <1>5, <3>1
  <2> QED
    BY <2>2, <2>3
<1>6. CASE k = "binary"
  <2>1. r = Binary(raw)
    BY <1>6 DEF ReadAs
  <2>2. \E v : r = Got(v) /\ v \in DOMAIN Contents
    BY <2>1, BinaryIs
  <2> QED
    BY <1>6, <2>2 DEF Words
<1>7. CASE k \in {"boolean", "string"}
  <2>1. r = Exactly(GoType(k), raw)
    BY <1>7 DEF ReadAs
  <2>2. raw.go = GoType(k) /\ r = Got(raw.v)
    BY <2>1, ExactlyIs
  <2>3. CASE k = "string"
    BY <2>2, <2>3 DEF GoType, Raw, Words
  <2>4. CASE k = "boolean"
    BY <2>2, <2>4 DEF Words
  <2> QED
    BY <1>7, <2>3, <2>4
<1> QED
  BY <1>1, <1>2, <1>3, <1>4, <1>5, <1>6, <1>7 DEF Kinds

LEMMA CoercedIs ==
    ASSUME NEW column \in Column, NEW raw, Raw(raw), Coerced(column, raw).why = "none"
    PROVE  \E v : /\ Coerced(column, raw) = Got(Go(GoType(column.kind), v))
                  /\ Ranged(column.kind, v)
                  /\ column.kind # "float" => ReadAs(column, raw) = Got(v)
<1> DEFINE k == column.kind
           r == ReadAs(column, raw)
           Fitted(n) == IF k = "int" /\ ~InBits(n, IntBits) THEN No("range")
                      ELSE Got(Go(GoType(k), IF k = "float" THEN Narrowed(n) ELSE n))
<1>1. Coerced(column, raw) = IF r.why # "none" THEN r ELSE Fitted(r.x)
  BY DEF Coerced, ReadAs, Then
<1> HIDE DEF Fitted
<1>2. r.why = "none" /\ Coerced(column, raw) = Fitted(r.x)
  BY <1>1, Zenon
<1>3. PICK n : r = Got(n) /\ (k \in Words => AWord(n)) /\ (k \in {"string", "binary"} => n \in DOMAIN Contents)
  BY <1>2, ReadingIs
<1>4. Coerced(column, raw) = Fitted(n)
  BY <1>2, <1>3, Outcomes, Zenon
<1>5. k = "int" => InBits(n, IntBits)
  BY <1>4, Outcomes, Zenon DEF Fitted
<1> DEFINE v == IF k = "float" THEN Narrowed(n) ELSE n
<1>6. Coerced(column, raw) = Got(Go(GoType(k), v))
  BY <1>4, <1>5, Zenon DEF Fitted
<1>7. Ranged(k, v)
  BY <1>3, <1>5 DEF Ranged, Words, AWord, Width
<1>8. k # "float" => r = Got(v)
  BY <1>3
<1> QED
  BY <1>6, <1>7, <1>8

-----------------------------------------------------------------------------
(***************************************************************************)
(* What is written, and what a file holds of it.                           *)
(***************************************************************************)

\* A column of a file holds what it was adapted from.
HeldAs(kind, v) == Go(Stored(kind), IF kind = "timestamptz" THEN Wrapped(v * ClockScale) ELSE v)

LEMMA AdaptedIs ==
    ASSUME NEW kind \in Kinds, NEW v, Ranged(kind, v)
    PROVE  Adapted(Go(GoType(kind), v), Stored(kind)) = Got(HeldAs(kind, v))
<1> DEFINE x == Go(GoType(kind), v)
<1>1. x # Nil /\ x.go = GoType(kind) /\ x.v = v
  BY DEF Go, Nil, GoType
<1> HIDE DEF x
<1>2. CASE kind = "timestamptz"
  <2>1. Stored(kind) = "micros" /\ x.go = "int64"
    BY <1>1, <1>2 DEF Stored, GoType
  <2>2. Adapted(x, "micros") = Got(Go("micros", Wrapped(x.v * ClockScale)))
    BY <1>1, <2>1 DEF Adapted
  <2> QED
    BY <1>1, <1>2, <2>1, <2>2 DEF HeldAs, x
<1>3. CASE kind = "decimal"
  <2>1. Stored(kind) = "decimal128" /\ x.go = "int64"
    BY <1>1, <1>3 DEF Stored, GoType
  <2>2. Adapted(x, "decimal128") =
          Got(Go("decimal128", (IF x.v < 0 THEN -1 ELSE 0) * TwoTo(WordBits) + Bits(x.v, WordBits)))
    BY <1>1, <2>1 DEF Adapted
  <2>3. v \in Int /\ InBits(v, WordBits)
    BY <1>3 DEF Ranged, Words, Width
  <2>4. (IF v < 0 THEN -1 ELSE 0) * TwoTo(WordBits) + Bits(v, WordBits) = v
    BY <2>3, WordKept
  <2>5. HeldAs(kind, v) = Go("decimal128", v)
    BY <1>3, <2>1 DEF HeldAs
  <2> QED
    BY <1>1, <2>1, <2>2, <2>4, <2>5 DEF x
<1>4. CASE kind \notin {"timestamptz", "decimal"}
  <2>1. Stored(kind) = GoType(kind)
    BY <1>4 DEF Stored
  <2>2. Adapted(x, Stored(kind)) = Got(x)
    BY <1>1, <2>1 DEF Adapted
  <2>3. HeldAs(kind, v) = Go(GoType(kind), v)
    BY <1>4, <2>1 DEF HeldAs
  <2> QED
    BY <2>2, <2>3 DEF x
<1> QED
  BY <1>2, <1>3, <1>4

\* A whole number is read as what was written, unless a double rounds it.
LEMMA WholeMeant ==
    ASSUME NEW door, NEW w, Wired(w), FromDoor(door, w), From(door, w).why = "none",
           Integer(From(door, w).x).why = "none",
           ~(w.is = "number" /\ ~ParsesAsInt(w.t) /\ DoubleOf(w.t) # UnitsOf(w.t))
    PROVE  Integer(From(door, w).x) = Got(Exact(w) \div Unit) /\ w.is # "string"
<1> DEFINE r == From(door, w).x
<1>1. /\ Unit \in Nat \ {0} /\ w.t \in Numerals /\ w.t.n \in Int
      /\ UnitsOf(w.t) \in Int /\ (ParsesAsInt(w.t) => UnitsOf(w.t) = w.t.n * Unit)
  BY UnitIs DEF Wired
<1>2. \A t : Digits(t).go = "Number" /\ Digits(t).t = t
  BY DEF Digits
<1>3. \A go, v : Plain(go, v).go = go /\ Plain(go, v).v = v
  BY DEF Plain
<1>9. Integer(r) # No("range")
  BY Outcomes
<1>4. r.go \in {"float64", "Number"}
  <2>1. ASSUME r.go # "float64", r.go # "Number" PROVE Integer(r) = No("type")
    BY <2>1 DEF Integer
  <2> QED
    BY <2>1, Outcomes
<1>5. CASE w.is = "number"
  <2>1. door = "json"
    BY <1>5 DEF FromDoor, CBORTypes
  <2>2. From(door, w) = Got(Digits(w.t))
    BY <1>5, <2>1 DEF From, FromJSON
  <2>3. r = Digits(w.t)
    BY <2>2, Outcomes
  <2>4. r.go = "Number" /\ r.t = w.t /\ Exact(w) = UnitsOf(w.t)
    BY <1>2, <1>5, <2>3 DEF Exact
  <2>5. CASE ParsesAsInt(w.t)
    <3>1. Integer(r) = IF InBits(w.t.n, WordBits) THEN Got(w.t.n) ELSE No("range")
      BY <2>4, <2>5 DEF Integer
    <3>2. Integer(r) = Got(w.t.n)
      BY <1>9, <3>1, Zenon
    <3>3. Exact(w) \div Unit = w.t.n
      BY <1>1, <2>4, <2>5, Divided
    <3> QED
      BY <1>5, <3>2, <3>3
  <2>6. CASE ~ParsesAsInt(w.t)
    <3>1. Integer(r) = IF ~Finite(DoubleOf(w.t)) THEN No("range") ELSE IntegralFloat(DoubleOf(w.t))
      BY <2>4, <2>6 DEF Integer
    <3>2. DoubleOf(w.t) = UnitsOf(w.t)
      BY <1>5, <2>6
    <3>3. Integer(r) = IntegralFloat(UnitsOf(w.t))
      BY <1>9, <3>1, <3>2, Zenon
    <3>4. Integer(r) = Got(UnitsOf(w.t) \div Unit)
      BY <1>1, <3>3, IntegralIs
    <3> QED
      BY <1>5, <2>4, <3>4
  <2> QED
    BY <2>5, <2>6
<1>6. CASE w.is = "integer"
  <2>1. door # "json"
    BY <1>6 DEF FromDoor, JSONTypes
  <2>2. From(door, w) = CBORInteger(w.t.n)
    BY <1>6, <2>1 DEF From, FromCBOR
  <2>3. From(door, w) = Got(Digits(Numeral(w.t.n, 0, FALSE)))
    <3>1. No("type").why # "none"
      BY Outcomes
    <3> QED
      BY <2>2, <3>1, Zenon DEF CBORInteger
  <2>4. r.go = "Number" /\ r.t = Numeral(w.t.n, 0, FALSE)
    <3>1. r = Digits(Numeral(w.t.n, 0, FALSE))
      BY <2>3, Outcomes, Zenon
    <3> QED
      BY <1>2, <3>1, Zenon
  <2>5. ParsesAsInt(r.t) /\ r.t.n = w.t.n
    BY <2>4 DEF ParsesAsInt, Numeral
  <2>6. Integer(r) = IF InBits(w.t.n, WordBits) THEN Got(w.t.n) ELSE No("range")
    BY <2>4, <2>5 DEF Integer
  <2>7. Integer(r) = Got(w.t.n)
    BY <1>9, <2>6, Zenon
  <2>8. Exact(w) = w.t.n * Unit
    BY <1>6 DEF Exact
  <2>9. Exact(w) \div Unit = w.t.n
    BY <1>1, <2>8, Divided
  <2> QED
    BY <1>6, <2>7, <2>9
<1>7. CASE w.is = "float64"
  <2>1. door # "json"
    BY <1>7 DEF FromDoor, JSONTypes
  <2>2. From(door, w) = Got(Plain("float64", w.t.n))
    BY <1>7, <2>1 DEF From, FromCBOR
  <2>3. r.go = "float64" /\ r.v = w.t.n
    BY <1>3, <2>2, Outcomes
  <2>4. Integer(r) = IntegralFloat(w.t.n)
    BY <2>3 DEF Integer
  <2>5. Integer(r) = Got(w.t.n \div Unit)
    BY <1>1, <2>4, IntegralIs
  <2>6. Exact(w) = w.t.n
    BY <1>7 DEF Exact
  <2> QED
    BY <1>7, <2>5, <2>6
<1>8. CASE w.is \notin {"number", "integer", "float64"}
  <2>1. From(door, w) \in {Got(Plain("nil", 0)), Got(Plain("string", Contents[w.t.n].replaced)),
                           Got(Plain("string", w.t.n)), Got(Plain(w.is, w.t.n)), No("malformed"), No("type")}
    BY <1>8 DEF From, FromJSON, FromCBOR
  <2>2. r.go \in {"nil", "string", w.is}
    BY <1>3, <2>1, Outcomes
  <2>3. w.is \notin {"float64", "Number"}
    BY <1>8 DEF FromDoor, JSONTypes, CBORTypes
  <2> QED
    BY <1>4, <2>2, <2>3
<1> QED
  BY <1>5, <1>6, <1>7, <1>8

\* The raw value of every spelling, by what it is.
AsSent(door, w, r) ==
    /\ w.is \in {"number", "integer"} => r.go = "Number"
    /\ w.is \in {"string", "bool", "bytes", "array", "float64"} => r.go = w.is
    /\ w.is = "null" => r.go = "nil"
    /\ w.is \in {"bool", "bytes", "array", "float64"} => r.v = w.t.n
    /\ w.is = "number" => r.t = w.t
    /\ w.is = "integer" => r.t = Numeral(w.t.n, 0, FALSE) /\ ~(w.t.n < -TwoTo(WordBits - 1))
    /\ w.is = "string" /\ door = "json" => r.v = Contents[w.t.n].replaced
    /\ w.is = "string" /\ door # "json" => r.v = w.t.n /\ Contents[w.t.n].utf8
    /\ w.is \in {"number", "integer", "string", "bool", "bytes", "array", "float64", "null"}
    /\ door # "json" => w.is # "array"

LEMMA RawIs ==
    ASSUME NEW door, NEW w, FromDoor(door, w), From(door, w).why = "none"
    PROVE  AsSent(door, w, From(door, w).x)
<1> DEFINE r == From(door, w).x
<1>1. \A t : Digits(t).go = "Number" /\ Digits(t).t = t
  BY DEF Digits
<1>2. \A go, v : Plain(go, v).go = go /\ Plain(go, v).v = v
  BY DEF Plain
<1>3. \A x : From(door, w) = Got(x) => r = x
  BY Outcomes, Zenon
<1>4. From(door, w) # No("type") /\ From(door, w) # No("malformed")
  BY Outcomes
<1>5. CASE door = "json"
  <2>1. From(door, w) = FromJSON(w) /\ w.is \in JSONTypes
    BY <1>5 DEF From, FromDoor
  <2>2. CASE w.is = "number"
    <3>1. r = Digits(w.t)
      BY <1>3, <2>1, <2>2 DEF FromJSON
    <3> QED
      BY <1>1, <2>2, <3>1 DEF AsSent
  <2>3. CASE w.is = "string"
    <3>1. r = Plain("string", Contents[w.t.n].replaced)
      BY <1>3, <2>1, <2>3 DEF FromJSON
    <3> QED
      BY <1>2, <1>5, <2>3, <3>1 DEF AsSent
  <2>4. CASE w.is = "null"
    <3>1. r = Plain("nil", 0)
      BY <1>3, <2>1, <2>4 DEF FromJSON
    <3> QED
      BY <1>2, <2>4, <3>1 DEF AsSent
  <2>5. CASE w.is \in {"bool", "array"}
    <3>1. r = Plain(w.is, w.t.n)
      BY <1>3, <2>1, <2>5 DEF FromJSON
    <3>2. r.go = w.is /\ r.v = w.t.n
      BY <1>2, <3>1
    <3> QED
      BY <1>5, <2>5, <3>2 DEF AsSent
  <2> QED
    BY <2>1, <2>2, <2>3, <2>4, <2>5 DEF JSONTypes
<1>6. CASE door # "json"
  <2>1. From(door, w) = FromCBOR(w) /\ w.is \in CBORTypes
    BY <1>6 DEF From, FromDoor
  <2>2. CASE w.is = "integer"
    <3>1. From(door, w) = CBORInteger(w.t.n)
      BY <2>1, <2>2 DEF FromCBOR
    <3>2. ~(w.t.n < -TwoTo(WordBits - 1)) /\ From(door, w) = Got(Digits(Numeral(w.t.n, 0, FALSE)))
      BY <1>4, <3>1, Zenon DEF CBORInteger
    <3>3. r = Digits(Numeral(w.t.n, 0, FALSE))
      BY <1>3, <3>2
    <3> QED
      BY <1>1, <2>2, <3>2, <3>3 DEF AsSent
  <2>3. CASE w.is = "string"
    <3>1. From(door, w) = IF Contents[w.t.n].utf8 THEN Got(Plain("string", w.t.n)) ELSE No("malformed")
      BY <2>1, <2>3 DEF FromCBOR
    <3>2. Contents[w.t.n].utf8 /\ From(door, w) = Got(Plain("string", w.t.n))
      BY <1>4, <3>1, Zenon
    <3>3. r = Plain("string", w.t.n)
      BY <1>3, <3>2
    <3> QED
      BY <1>2, <1>6, <2>3, <3>2, <3>3 DEF AsSent
  <2>4. CASE w.is = "null"
    <3>1. r = Plain("nil", 0)
      BY <1>3, <2>1, <2>4 DEF FromCBOR
    <3> QED
      BY <1>2, <2>4, <3>1 DEF AsSent
  <2>5. CASE w.is \in {"bool", "float64", "bytes"}
    <3>1. r = Plain(w.is, w.t.n)
      BY <1>3, <2>1, <2>5 DEF FromCBOR
    <3>2. r.go = w.is /\ r.v = w.t.n
      BY <1>2, <3>1
    <3> QED
      BY <1>6, <2>5, <3>2 DEF AsSent
  <2>6. CASE w.is \in {"array", "tag", "undefined"}
    <3>1. From(door, w) = No("type")
      BY <2>1, <2>6 DEF FromCBOR
    <3> QED
      BY <1>4, <3>1
  <2> QED
    BY <2>1, <2>2, <2>3, <2>4, <2>5, <2>6 DEF CBORTypes
<1> QED
  BY <1>5, <1>6

\* Contents that read as something are the contents that were written.
LEMMA TextIs ==
    ASSUME NEW door, NEW w, Wired(w), FromDoor(door, w), From(door, w).why = "none", w.is = "string",
           Reads(From(door, w).x.v)
    PROVE  From(door, w).x.v = w.t.n
<1>1. w.t.n \in DOMAIN Contents
  BY DEF Wired, Sendable
<1>2. IF door = "json" THEN From(door, w).x.v = Contents[w.t.n].replaced ELSE From(door, w).x.v = w.t.n
  BY RawIs DEF AsSent
<1>3. IF Contents[w.t.n].utf8 THEN Contents[w.t.n].replaced = w.t.n ELSE ~Reads(Contents[w.t.n].replaced)
  BY <1>1, ContentsAssumption
<1> QED
  BY <1>2, <1>3

\* What a door reads for a column is what the producer meant.
LEMMA MeantIs ==
    ASSUME NEW column \in Column, NEW door \in {"json", "cbor"}, NEW w, Wired(w), FromDoor(door, w),
           From(door, w).why = "none", w.is # "null", ~Loses(door, column, w),
           NEW v, ReadAs(column, From(door, w).x) = Got(v), Ranged(column.kind, v)
    PROVE  HeldAs(column.kind, v) = Meant(door, column, w)
<1> DEFINE k == column.kind
           r == From(door, w).x
<1>1. k \in Kinds /\ column.scale \in Nat /\ Raw(r)
  BY ColumnIs, FromIs
<1>9. AsSent(door, w, r)
  BY RawIs
<1>10. ReadAs(column, r) = Got(v)
  OBVIOUS
<1> HIDE DEF r
<1>2. k \notin {"float", "double"} /\ ~Rounds(column, w) /\ ~Overflows(column, w) /\ ~Replaced(door, column, w)
  BY DEF Loses
<1>3. ReadAs(column, r).why = "none" /\ ReadAs(column, r).x = v
  BY <1>10, Outcomes
<1>4. CASE k \in {"int", "long"}
  <2>1. Integer(r) = Got(v)
    BY <1>4, <1>10 DEF ReadAs
  <2>2. Integer(r) = Got(Exact(w) \div Unit)
    <3>1. ~(w.is = "number" /\ ~ParsesAsInt(w.t) /\ DoubleOf(w.t) # UnitsOf(w.t))
      BY <1>2, <1>4 DEF Rounds
    <3>2. Integer(r).why = "none"
      BY <2>1, Outcomes
    <3> QED
      BY <3>1, <3>2, WholeMeant DEF r
  <2>3. v = Exact(w) \div Unit
    BY <2>1, <2>2, Outcomes, Zenon
  <2>4. Meant(door, column, w) = Go(Stored(k), Exact(w) \div Unit)
    BY <1>4 DEF Meant
  <2> QED
    BY <1>4, <2>3, <2>4 DEF HeldAs
<1>5. CASE k = "decimal"
  <2>1. Decimal(r, column.scale) = Got(v)
    BY <1>5, <1>10 DEF ReadAs
  <2>2. Meant(door, column, w) = Go(Stored(k), (Exact(w) * TwoTo(column.scale)) \div Unit)
    BY <1>5 DEF Meant
  <2>3. PICK t \in Numerals :
            /\ \/ r.go = "Number" /\ t = r.t
               \/ r.go = "string" /\ Contents[r.v].number /\ t = Contents[r.v].t
            /\ Decimal(r, column.scale) = Scaled(t, column.scale)
    BY <1>1, <2>1, Outcomes, DecimalIs
  <2>4. Scaled(t, column.scale) = Got((UnitsOf(t) * TwoTo(column.scale)) \div Unit)
    <3>1. Scaled(t, column.scale).why = "none"
      <4>1. Scaled(t, column.scale) = Got(v)
        BY <2>1, <2>3
      <4> QED
        BY <4>1, Outcomes
    <3> QED
      BY <1>1, <3>1, ScaledIs
  <2>5. v = (UnitsOf(t) * TwoTo(column.scale)) \div Unit
    <3>1. Got(v) = Got((UnitsOf(t) * TwoTo(column.scale)) \div Unit)
      BY <2>1, <2>3, <2>4
    <3> QED
      BY <3>1, Outcomes, Zenon
  <2>6. Exact(w) = UnitsOf(t)
    <3>1. CASE r.go = "Number"
      <4>1. w.is \in {"number", "integer"} /\ t = r.t
        BY <2>3, <3>1, <1>9 DEF AsSent
      <4>2. CASE w.is = "number"
        BY <4>1, <4>2, <1>9 DEF AsSent, Exact
      <4>3. CASE w.is = "integer"
        <5>1. t = Numeral(w.t.n, 0, FALSE)
          BY <4>1, <4>3, <1>9 DEF AsSent
        <5>2. ParsesAsInt(t) /\ t.n = w.t.n
          BY <5>1 DEF ParsesAsInt, Numeral
        <5>3. UnitsOf(t) = w.t.n * Unit
          BY <5>2, UnitIs
        <5> QED
          BY <4>3, <5>3 DEF Exact
      <4> QED
        BY <4>1, <4>2, <4>3
    <3>2. CASE r.go = "string"
      <4>1. Contents[r.v].number /\ t = Contents[r.v].t
        BY <2>3, <3>2
      <4>2. w.is = "string"
        BY <3>2, <1>9 DEF AsSent
      <4>3. r.v = w.t.n
        BY <4>1, <4>2, TextIs DEF Reads, r
      <4> QED
        BY <4>1, <4>2, <4>3 DEF Exact
    <3> QED
      BY <2>3, <3>1, <3>2
  <2> QED
    BY <1>5, <2>2, <2>5, <2>6 DEF HeldAs
<1>6. CASE k = "timestamptz"
  <2>1. Timestamp(r) = Got(v)
    BY <1>6, <1>10 DEF ReadAs
  <2>2. Meant(door, column, w) = Go(Stored(k), Millis(w) * ClockScale)
    BY <1>6 DEF Meant
  <2>3. v = Millis(w)
    <3>1. CASE r.go # "string"
      <4>1. Integer(r) = Got(v)
        BY <2>1, <3>1 DEF Timestamp
      <4>2. Integer(r) = Got(Exact(w) \div Unit) /\ w.is # "string"
        <5>1. ~(w.is = "number" /\ ~ParsesAsInt(w.t) /\ DoubleOf(w.t) # UnitsOf(w.t))
          BY <1>2, <1>6 DEF Rounds
        <5>2. Integer(r).why = "none"
          BY <4>1, Outcomes
        <5> QED
          BY <5>1, <5>2, WholeMeant DEF r
      <4> QED
        BY <4>1, <4>2, Outcomes, Zenon DEF Millis
    <3>2. CASE r.go = "string"
      <4>1. Contents[r.v].instant /\ Timestamp(r) = Got(Contents[r.v].millis)
        BY <1>1, <2>1, <3>2, Outcomes, TimestampIs
      <4>2. w.is = "string"
        BY <3>2, <1>9 DEF AsSent
      <4>3. r.v = w.t.n
        BY <4>1, <4>2, TextIs DEF Reads, r
      <4>4. v = Contents[w.t.n].millis
        <5>1. Got(v) = Got(Contents[w.t.n].millis)
          BY <2>1, <4>1, <4>3
        <5> QED
          BY <5>1, Outcomes, Zenon
      <4> QED
        BY <4>2, <4>4 DEF Millis
    <3> QED
      BY <3>1, <3>2
  <2>4. v \in Int /\ ClockScale \in Nat
    BY <1>6, RecordsAssumption DEF Ranged, Words
  <2>5. InBits(v * ClockScale, WordBits) /\ v * ClockScale \in Int
    BY <1>2, <1>6, <2>3, <2>4 DEF Overflows
  <2>6. Wrapped(v * ClockScale) = v * ClockScale
    BY <2>5, WordKept
  <2> QED
    BY <1>6, <2>2, <2>3, <2>6 DEF HeldAs
<1>7. CASE k = "binary"
  <2>1. Binary(r) = Got(v)
    BY <1>7, <1>10 DEF ReadAs
  <2>2. Meant(door, column, w) = Go(Stored(k), IF w.is = "string" THEN Contents[w.t.n].base64 ELSE w.t.n)
    BY <1>7 DEF Meant
  <2>3. v = IF w.is = "string" THEN Contents[w.t.n].base64 ELSE w.t.n
    <3>1. \/ r.go = "string" /\ Contents[r.v].base64 # 0 /\ Binary(r) = Got(Contents[r.v].base64)
          \/ r.go = "bytes" /\ Binary(r) = Got(r.v)
      BY <1>1, <2>1, Outcomes, BinaryIs
    <3>2. CASE r.go = "string"
      <4>1. w.is = "string" /\ Contents[r.v].base64 # 0 /\ v = Contents[r.v].base64
        BY <2>1, <3>1, <3>2, <1>9, Outcomes DEF AsSent
      <4>2. r.v = w.t.n
        BY <4>1, TextIs DEF Reads, r
      <4> QED
        BY <4>1, <4>2
    <3>3. CASE r.go = "bytes"
      BY <2>1, <3>1, <3>3, <1>9, Outcomes DEF AsSent
    <3> QED
      BY <3>1, <3>2, <3>3
  <2> QED
    BY <1>7, <2>2, <2>3 DEF HeldAs
<1>8. CASE k \in {"boolean", "string"}
  <2>1. Exactly(GoType(k), r) = Got(v)
    BY <1>8, <1>10 DEF ReadAs
  <2>2. r.go = GoType(k) /\ v = r.v
    BY <2>1, Outcomes, ExactlyIs
  <2>3. Meant(door, column, w) = Go(Stored(k), w.t.n)
    BY <1>8 DEF Meant
  <2>4. v = w.t.n
    <3>1. CASE k = "boolean"
      BY <2>2, <3>1, <1>9 DEF AsSent, GoType
    <3>2. CASE k = "string"
      <4>1. w.is = "string"
        BY <2>2, <3>2, <1>9 DEF AsSent, GoType
      <4>2. w.t.n \in DOMAIN Contents
        BY <4>1 DEF Wired, Sendable
      <4>3. CASE door = "json"
        <5>1. Contents[w.t.n].utf8
          BY <1>2, <3>2, <4>1, <4>3 DEF Replaced
        <5> QED
          BY <2>2, <4>1, <4>2, <4>3, <5>1, <1>9, ContentsAssumption DEF AsSent
      <4>4. CASE door # "json"
        BY <2>2, <4>1, <4>4, <1>9 DEF AsSent
      <4> QED
        BY <4>3, <4>4
    <3> QED
      BY <1>8, <3>1, <3>2
  <2> QED
    BY <1>8, <2>3, <2>4 DEF HeldAs
<1> QED
  BY <1>1, <1>2, <1>4, <1>5, <1>6, <1>7, <1>8 DEF Kinds

-----------------------------------------------------------------------------
(***************************************************************************)
(* A row.                                                                  *)
(***************************************************************************)

LEMMA AllIs ==
    ASSUME NEW n \in Nat, NEW parts, DOMAIN parts = 1..n
    PROVE  /\ (\A i \in 1..n : parts[i].why = "none") => All(parts) = Got([i \in 1..n |-> parts[i].x])
           /\ All(parts).why = "none" => \A i \in 1..n : parts[i].why = "none"
           /\ All(parts).why # "none" => \E i \in 1..n : All(parts).why = parts[i].why
<1> DEFINE bad == {i \in DOMAIN parts : parts[i].why # "none"}
           first == CHOOSE i \in bad : \A j \in bad : i <= j
<1>1. All(parts) = IF bad = {} THEN Got([i \in DOMAIN parts |-> parts[i].x]) ELSE No(parts[first].why)
  BY DEF All
<1>2. CASE bad = {}
  <2>1. All(parts) = Got([i \in 1..n |-> parts[i].x])
    BY <1>1, <1>2
  <2>2. \A i \in 1..n : parts[i].why = "none"
    BY <1>2
  <2> HIDE DEF bad
  <2> QED
    BY <2>1, <2>2, Outcomes
<1>3. CASE bad # {}
  <2>1. bad \subseteq Nat
    OBVIOUS
  <2>2. \E i \in bad : \A j \in bad : i <= j
    BY <1>3, <2>1, LeastOf
  <2>3. first \in bad
    BY <2>2
  <2>4. first \in 1..n /\ parts[first].why # "none"
    BY <2>3
  <2>5. All(parts) = No(parts[first].why)
    BY <1>1, <1>3
  <2> HIDE DEF bad, first
  <2> QED
    BY <2>4, <2>5, Outcomes
<1> QED
  BY <1>2, <1>3

LEMMA ShapeIs ==
    ASSUME NEW s \in Shapes
    PROVE  /\ Len(s) \in Nat \ {0} /\ DOMAIN s = 1..Len(s)
           /\ \A j \in DOMAIN s : s[j] \in Column
           /\ \A i, j \in DOMAIN s : i # j => s[i].id # s[j].id /\ s[i].name # s[j].name
<1>1. s \in Seq(Column) /\ s # <<>>
  BY ShapesAssumption
<1>2. Len(s) \in Nat /\ DOMAIN s = 1..Len(s) /\ \A j \in DOMAIN s : s[j] \in Column
  BY <1>1
<1>3. Len(s) # 0
  BY <1>1, <1>2, EmptySeq
<1> QED
  BY <1>2, <1>3, ShapesAssumption

\* A value of a column, a row of a shape, and what was sent for a column.
Fit(column, value) ==
    \/ value = Nil
    \/ \E v : value = Go(GoType(column.kind), v) /\ Ranged(column.kind, v)
Row(s, row) ==
    /\ row = [j \in DOMAIN s |-> row[j]]
    /\ \A j \in DOMAIN s : /\ Fit(s[j], row[j]) /\ Poison(s[j], row[j]) = "none"
                           /\ s[j].required => row[j] # Nil
SentFor(o, s, i) ==
    IF o.door = "typed" THEN o.fields[i]
    ELSE IF \E n \in DOMAIN o.names : o.names[n] = s[i].name
    THEN o.fields[CHOOSE n \in DOMAIN o.names : o.names[n] = s[i].name]
    ELSE Wire("null", 0)
Tells(column, door, w, value) ==
    IF w.is = "null" THEN value = Nil
    ELSE \E v : /\ value = Go(GoType(column.kind), v) /\ Ranged(column.kind, v)
                /\ ~Loses(door, column, w) => HeldAs(column.kind, v) = Meant(door, column, w)

LEMMA OfferIs ==
    ASSUME NEW s \in Openings, NEW o \in Sent(s)
    PROVE  /\ s \in Shapes /\ o.door \in {"typed", "json", "cbor"}
           /\ Len(o.fields) \in Nat /\ DOMAIN o.fields = 1..Len(o.fields)
           /\ \A i \in DOMAIN o.fields : Wired(o.fields[i])
           /\ o.door = "typed" => DOMAIN o.fields = DOMAIN s /\ \A i \in DOMAIN s : OfColumn(s[i], o.fields[i])
           /\ o.door # "typed" =>
                /\ DOMAIN o.names = DOMAIN o.fields /\ \A i \in DOMAIN o.fields : FromDoor(o.door, o.fields[i])
                /\ \A i, j \in DOMAIN o.names : i # j => o.names[i] # o.names[j]
<1>1. s \in Shapes
  BY RecordsAssumption
<1>2. /\ o \in [door : {"typed", "json", "cbor"}, body : STRING, names : Seq(STRING),
                fields : Seq([is : STRING, t : Numerals])]
      /\ \A i \in DOMAIN o.fields : Sendable(o.fields[i])
  BY SentAssumption
<1>3. o.door \in {"typed", "json", "cbor"} /\ o.names \in Seq(STRING) /\ o.fields \in Seq([is : STRING, t : Numerals])
  BY <1>2
<1>4. /\ Len(o.fields) \in Nat /\ DOMAIN o.fields = 1..Len(o.fields) /\ DOMAIN o.names = 1..Len(o.names)
      /\ \A i \in DOMAIN o.fields : o.fields[i].t \in Numerals
  <2> DEFINE W == [is : STRING, t : Numerals]
             f == o.fields
             g == o.names
  <2>1. f \in Seq(W) /\ g \in Seq(STRING)
    BY <1>3
  <2>2. \A w \in W : w.t \in Numerals
    OBVIOUS
  <2> HIDE DEF W, f, g
  <2>3. Len(f) \in Nat /\ DOMAIN f = 1..Len(f) /\ DOMAIN g = 1..Len(g) /\ \A i \in DOMAIN f : f[i] \in W
    BY <2>1
  <2> QED
    BY <2>2, <2>3 DEF f, g
<1>5. \A i \in DOMAIN o.fields : Wired(o.fields[i])
  BY <1>2, <1>4 DEF Wired
<1>6. DOMAIN s = 1..Len(s)
  BY <1>1, ShapeIs
<1>7. IF o.door = "typed" THEN Len(o.fields) = Len(s) /\ \A i \in DOMAIN s : OfColumn(s[i], o.fields[i])
      ELSE /\ Len(o.fields) = Len(o.names) /\ \A i \in DOMAIN o.fields : FromDoor(o.door, o.fields[i])
           /\ \A i, j \in DOMAIN o.names : i # j => o.names[i] # o.names[j]
  BY SentAssumption
<1> QED
  BY <1>1, <1>3, <1>4, <1>5, <1>6, <1>7

\* A struct's row.
LEMMA StructRowIs ==
    ASSUME NEW s \in Openings, NEW o \in Sent(s), o.door = "typed"
    PROVE  \E row : /\ StructRow(o.fields) = Got(row) /\ row = [j \in DOMAIN s |-> row[j]]
                    /\ \A j \in DOMAIN s : Fit(s[j], row[j]) /\ Tells(s[j], o.door, SentFor(o, s, j), row[j])
<1> DEFINE row == [j \in DOMAIN s |-> IF o.fields[j].is = "null" THEN Nil ELSE Go(o.fields[j].is, o.fields[j].t.n)]
<1>1. s \in Shapes /\ DOMAIN o.fields = DOMAIN s
  BY OfferIs
<1>2. StructRow(o.fields) = Got(row)
  BY <1>1 DEF StructRow
<1>3. ASSUME NEW j \in DOMAIN s
      PROVE  Fit(s[j], row[j]) /\ Tells(s[j], o.door, SentFor(o, s, j), row[j])
  <2> DEFINE w == o.fields[j]
             k == s[j].kind
             v == w.t.n
  <2>1. Wired(w) /\ OfColumn(s[j], w) /\ SentFor(o, s, j) = w
    BY <1>1, OfferIs DEF SentFor
  <2>2. k \in Kinds /\ s[j] \in Column
    BY <1>1, ShapeIs, ColumnIs
  <2>3. row[j] = IF w.is = "null" THEN Nil ELSE Go(w.is, v)
    OBVIOUS
  <2>4. w.is = "null" \/ w.is = GoType(k)
    BY <2>1 DEF OfColumn
  <2>5. v \in Int
    BY <2>1, UnitIs DEF Wired
  <2> HIDE DEF row, w, v
  <2>6. CASE w.is = "null"
    BY <2>1, <2>3, <2>6 DEF Fit, Tells
  <2>7. CASE w.is # "null"
    <3>1. row[j] = Go(GoType(k), v) /\ w.is = GoType(k)
      BY <2>3, <2>4, <2>7
    <3>2. Ranged(k, v)
      <4>1. k \in Words => InBits(v, Width(k))
        BY <2>1, <2>2 DEF OfColumn, Words, GoType, v
      <4>2. k \in {"string", "binary"} => v \in DOMAIN Contents
        BY <2>1, <3>1 DEF Wired, Sendable, GoType, v
      <4> QED
        BY <2>5, <4>1, <4>2 DEF Ranged
    <3>3. ASSUME ~Loses("typed", s[j], w) PROVE HeldAs(k, v) = Meant("typed", s[j], w)
      <4>1. ~Overflows(s[j], w) /\ k \notin {"float", "double"}
        BY <3>3 DEF Loses
      <4>2. ASSUME k \in {"int", "long", "timestamptz"} PROVE Exact(w) \div Unit = v
        <5>1. w.is \in {"int32", "int64"}
          BY <3>1, <4>2 DEF GoType
        <5>2. Exact(w) = v * Unit
          BY <5>1 DEF Exact, v
        <5> QED
          BY <2>5, <5>2, UnitIs, Divided
      <4>3. CASE k \in {"int", "long"}
        BY <2>7, <4>2, <4>3 DEF HeldAs, Meant
      <4>4. CASE k = "decimal"
        BY <2>7, <4>4 DEF HeldAs, Meant, v
      <4>5. CASE k = "timestamptz"
        <5>1. Millis(w) = v
          BY <3>1, <4>2, <4>5 DEF Millis, GoType
        <5>2. v * ClockScale \in Int
          BY <2>5, RecordsAssumption
        <5>3. InBits(v * ClockScale, WordBits)
          BY <2>7, <4>1, <4>5, <5>1 DEF Overflows
        <5>4. Wrapped(v * ClockScale) = v * ClockScale
          BY <5>2, <5>3, WordKept
        <5> QED
          BY <2>7, <4>5, <5>1, <5>4 DEF HeldAs, Meant
      <4>6. CASE k \in {"boolean", "string", "binary"}
        BY <2>7, <3>1, <4>6 DEF HeldAs, Meant, GoType, v
      <4> QED
        BY <2>2, <4>1, <4>3, <4>4, <4>5, <4>6 DEF Kinds
    <3>4. Fit(s[j], row[j])
      BY <3>1, <3>2 DEF Fit
    <3>5. Tells(s[j], "typed", w, row[j])
      BY <2>7, <3>1, <3>2, <3>3 DEF Tells
    <3> QED
      BY <2>1, <3>4, <3>5
  <2> QED
    BY <2>6, <2>7
<1> HIDE DEF row
<1>4. row = [j \in DOMAIN s |-> row[j]]
  BY DEF row
<1> QED
  BY <1>2, <1>3, <1>4

\* The row of a record from a document or an item.
LEMMA BoundIs ==
    ASSUME NEW s \in Openings, NEW o \in Sent(s), o.door # "typed",
           NEW raws, Decoded(o) = Got(raws), NEW row, Bound(o.names, raws, s) = Got(row)
    PROVE  /\ row = [j \in DOMAIN s |-> row[j]]
           /\ \A j \in DOMAIN s : Fit(s[j], row[j]) /\ Tells(s[j], o.door, SentFor(o, s, j), row[j])
<1> DEFINE n == Len(o.fields)
           f == [i \in DOMAIN o.fields |-> IF o.door = "json" THEN FromJSON(o.fields[i]) ELSE FromCBOR(o.fields[i])]
           IsNamed(j) == \E i \in DOMAIN o.names : o.names[i] = s[j].name
           Given(j) == \E i \in DOMAIN o.names : o.names[i] = s[j].name /\ raws[i].go # "nil"
           at(j) == CHOOSE i \in DOMAIN o.names : o.names[i] = s[j].name
           g == [j \in DOMAIN s |->
                    IF Given(j) THEN Coerced(s[j], raws[at(j)])
                    ELSE IF ~s[j].required THEN Got(Nil)
                    ELSE No(IF IsNamed(j) THEN "null" ELSE "missing")]
<1>1. /\ s \in Shapes /\ o.door \in {"json", "cbor"}
      /\ n \in Nat /\ DOMAIN o.fields = 1..n /\ DOMAIN o.names = 1..n
      /\ \A i \in 1..n : Wired(o.fields[i]) /\ FromDoor(o.door, o.fields[i])
      /\ \A i, k \in 1..n : o.names[i] = o.names[k] => i = k
  BY OfferIs
<1>2. Len(s) \in Nat /\ DOMAIN s = 1..Len(s) /\ \A j \in DOMAIN s : s[j] \in Column
  BY <1>1, ShapeIs
<1>3. \A i \in 1..n : f[i] = From(o.door, o.fields[i])
  BY <1>1 DEF From
<1>4. \A i \in 1..n : f[i].why = "none" /\ raws[i] = f[i].x
  <2>1. Decoded(o) = All(f)
    <3>1. Decoded(o) = IF o.body # "map" THEN No("malformed") ELSE All(f)
      BY DEF Decoded
    <3> HIDE DEF f
    <3>2. No("malformed").why # "none" /\ Decoded(o).why = "none"
      BY Outcomes
    <3> QED
      BY <3>1, <3>2
  <2>2. DOMAIN f = 1..n
    BY <1>1
  <2> HIDE DEF f
  <2>3. All(f).why = "none"
    BY <2>1, Outcomes
  <2>4. (\A i \in 1..n : f[i].why = "none") /\ All(f) = Got([i \in 1..n |-> f[i].x])
    BY <1>1, <2>2, <2>3, AllIs
  <2>5. raws = [i \in 1..n |-> f[i].x]
    BY <2>1, <2>4, Outcomes
  <2> QED
    BY <2>4, <2>5
<1>5. /\ \A j \in DOMAIN s : g[j].why = "none" /\ row[j] = g[j].x
      /\ row = [j \in DOMAIN s |-> row[j]]
  <2>1. Bound(o.names, raws, s) = All(g)
    <3>1. Bound(o.names, raws, s) =
            IF \E i \in DOMAIN o.names : \A j \in DOMAIN s : s[j].name # o.names[i] THEN No("unknown") ELSE All(g)
      BY DEF Bound
    <3> HIDE DEF g
    <3>2. No("unknown").why # "none" /\ Bound(o.names, raws, s).why = "none"
      BY Outcomes
    <3> QED
      BY <3>1, <3>2
  <2>2. DOMAIN g = 1..Len(s)
    BY <1>2
  <2> HIDE DEF g
  <2>3. All(g).why = "none"
    BY <2>1, Outcomes
  <2>4. (\A j \in 1..Len(s) : g[j].why = "none") /\ All(g) = Got([j \in 1..Len(s) |-> g[j].x])
    BY <1>2, <2>2, <2>3, AllIs
  <2>5. row = [j \in 1..Len(s) |-> g[j].x]
    BY <2>1, <2>4, Outcomes
  <2> QED
    BY <1>2, <2>4, <2>5
<1>6. ASSUME NEW j \in DOMAIN s
      PROVE  Fit(s[j], row[j]) /\ Tells(s[j], o.door, SentFor(o, s, j), row[j])
  <2>1. row[j] = g[j].x /\ g[j].why = "none" /\ s[j] \in Column
    BY <1>2, <1>5
  <2>2. g[j] = IF Given(j) THEN Coerced(s[j], raws[at(j)])
               ELSE IF ~s[j].required THEN Got(Nil)
               ELSE No(IF IsNamed(j) THEN "null" ELSE "missing")
    OBVIOUS
  <2>3. IsNamed(j) => at(j) \in 1..n /\ o.names[at(j)] = s[j].name /\ SentFor(o, s, j) = o.fields[at(j)]
    BY <1>1 DEF SentFor
  <2>4. ~IsNamed(j) => SentFor(o, s, j) = Wire("null", 0)
    BY DEF SentFor
  <2> HIDE DEF g, f
  <2> DEFINE w == o.fields[at(j)]
  <2>5. CASE Given(j)
    <3>1. IsNamed(j) /\ at(j) \in 1..n /\ SentFor(o, s, j) = w
      BY <2>3, <2>5
    <3>2. raws[at(j)].go # "nil"
      BY <1>1, <2>3, <2>5
    <3>3. Wired(w) /\ FromDoor(o.door, w) /\ From(o.door, w).why = "none" /\ raws[at(j)] = From(o.door, w).x
      BY <1>1, <1>3, <1>4, <3>1
    <3> HIDE DEF at, w
    <3>4. AsSent(o.door, w, From(o.door, w).x) /\ Raw(From(o.door, w).x)
      BY <3>3, RawIs, FromIs
    <3>5. w.is # "null"
      BY <3>2, <3>3, <3>4 DEF AsSent
    <3> DEFINE r == From(o.door, w).x
    <3>6. Coerced(s[j], r).why = "none" /\ row[j] = Coerced(s[j], r).x
      BY <2>1, <2>2, <2>5, <3>3
    <3>7. PICK v : /\ Coerced(s[j], r) = Got(Go(GoType(s[j].kind), v))
                   /\ Ranged(s[j].kind, v)
                   /\ s[j].kind # "float" => ReadAs(s[j], r) = Got(v)
      BY <2>1, <3>4, <3>6, CoercedIs
    <3>8. row[j] = Go(GoType(s[j].kind), v)
      BY <3>6, <3>7, Outcomes
    <3>9. ASSUME ~Loses(o.door, s[j], w) PROVE HeldAs(s[j].kind, v) = Meant(o.door, s[j], w)
      <4>1. s[j].kind # "float"
        BY <3>9 DEF Loses
      <4>2. ReadAs(s[j], From(o.door, w).x) = Got(v)
        BY <3>7, <4>1
      <4> QED
        BY <1>1, <2>1, <3>3, <3>5, <3>7, <3>9, <4>2, MeantIs
    <3>10. Fit(s[j], row[j])
      BY <3>7, <3>8 DEF Fit
    <3>11. Tells(s[j], o.door, w, row[j])
      BY <3>5, <3>7, <3>8, <3>9 DEF Tells
    <3> QED
      BY <3>1, <3>10, <3>11
  <2>6. CASE ~Given(j)
    <3>1. row[j] = Nil
      BY <2>1, <2>2, <2>6, Outcomes
    <3>2. CASE ~IsNamed(j)
      <4>1. SentFor(o, s, j).is = "null"
        BY <2>4, <3>2 DEF Wire
      <4> QED
        BY <3>1, <4>1 DEF Fit, Tells
    <3>3. CASE IsNamed(j)
      <4>1. at(j) \in 1..n /\ SentFor(o, s, j) = w /\ o.names[at(j)] = s[j].name
        BY <2>3, <3>3
      <4>2. raws[at(j)].go = "nil"
        BY <1>1, <2>6, <4>1
      <4>3. Wired(w) /\ FromDoor(o.door, w) /\ From(o.door, w).why = "none" /\ raws[at(j)] = From(o.door, w).x
        BY <1>1, <1>3, <1>4, <4>1
      <4> HIDE DEF at, w
      <4>4. AsSent(o.door, w, From(o.door, w).x)
        BY <4>3, RawIs
      <4>5. w.is = "null"
        BY <4>2, <4>3, <4>4 DEF AsSent
      <4> QED
        BY <3>1, <4>1, <4>5 DEF Fit, Tells
    <3> QED
      BY <3>2, <3>3
  <2> QED
    BY <2>5, <2>6
<1> QED
  BY <1>5, <1>6

\* What a door accepts is the encoding of a row that tells what was sent.
LEMMA VerdictIs ==
    ASSUME NEW s \in Openings, NEW o \in Sent(s), Verdict(o, s).why = "none"
    PROVE  \E row : /\ Row(s, row) /\ Encoded(s, row) = Verdict(o, s)
                    /\ \A j \in DOMAIN s : Tells(s[j], o.door, SentFor(o, s, j), row[j])
<1> DEFINE bind(fields) == Bound(o.names, fields, s)
           b == IF o.door = "typed" THEN StructRow(o.fields)
                ELSE IF Decoded(o).why # "none" THEN Decoded(o) ELSE Bound(o.names, Decoded(o).x, s)
           c == IF b.why # "none" THEN b ELSE Unpoisoned(b.x, s)
<1>1. Verdict(o, s) = IF c.why # "none" THEN c ELSE Encoded(s, c.x)
  BY DEF Verdict, Then
<1>2. c.why = "none" /\ Verdict(o, s) = Encoded(s, c.x)
  <2> HIDE DEF c
  <2> QED
    BY <1>1, Zenon
<1>3. b.why = "none" /\ c = Unpoisoned(b.x, s)
  <2> HIDE DEF b
  <2> QED
    BY <1>2, Zenon
<1>4. s \in Shapes /\ Len(s) \in Nat /\ DOMAIN s = 1..Len(s)
  BY OfferIs, ShapeIs
<1>5. \E row : /\ b = Got(row) /\ row = [j \in DOMAIN s |-> row[j]]
               /\ \A j \in DOMAIN s : Fit(s[j], row[j]) /\ Tells(s[j], o.door, SentFor(o, s, j), row[j])
  <2>1. CASE o.door = "typed"
    BY <2>1, StructRowIs
  <2>2. CASE o.door # "typed"
    <3>1. Decoded(o).why = "none" /\ b = Bound(o.names, Decoded(o).x, s)
      BY <1>3, <2>2
    <3> HIDE DEF b
    <3>2. \A i \in DOMAIN o.fields : TRUE
      OBVIOUS
    <3> DEFINE f == [i \in DOMAIN o.fields |-> IF o.door = "json" THEN FromJSON(o.fields[i]) ELSE FromCBOR(o.fields[i])]
    <3>3. Decoded(o) = All(f) /\ DOMAIN f = 1..Len(o.fields) /\ Len(o.fields) \in Nat
      <4>1. Decoded(o) = IF o.body # "map" THEN No("malformed") ELSE All(f)
        BY DEF Decoded
      <4>2. DOMAIN f = 1..Len(o.fields) /\ Len(o.fields) \in Nat
        BY OfferIs
      <4> HIDE DEF f
      <4>3. No("malformed").why # "none"
        BY Outcomes
      <4> QED
        BY <3>1, <4>1, <4>2, <4>3
    <3> HIDE DEF f
    <3>4. \E raws : Decoded(o) = Got(raws)
      BY <3>1, <3>3, AllIs
    <3>5. PICK raws : Decoded(o) = Got(raws)
      BY <3>4
    <3>6. b = Bound(o.names, raws, s)
      BY <3>1, <3>5, Outcomes
    <3>7. \E row : Bound(o.names, raws, s) = Got(row)
      <4> DEFINE IsNamed(j) == \E i \in DOMAIN o.names : o.names[i] = s[j].name
                 Given(j) == \E i \in DOMAIN o.names : o.names[i] = s[j].name /\ raws[i].go # "nil"
                 at(j) == CHOOSE i \in DOMAIN o.names : o.names[i] = s[j].name
                 g == [j \in DOMAIN s |->
                        IF Given(j) THEN Coerced(s[j], raws[at(j)])
                        ELSE IF ~s[j].required THEN Got(Nil)
                        ELSE No(IF IsNamed(j) THEN "null" ELSE "missing")]
      <4>1. Bound(o.names, raws, s) =
              IF \E i \in DOMAIN o.names : \A j \in DOMAIN s : s[j].name # o.names[i] THEN No("unknown") ELSE All(g)
        BY DEF Bound
      <4>2. DOMAIN g = 1..Len(s)
        BY <1>4
      <4> HIDE DEF g
      <4>3. No("unknown").why # "none"
        BY Outcomes
      <4>4. Bound(o.names, raws, s) = All(g) /\ All(g).why = "none"
        BY <1>3, <3>6, <4>1, <4>3
      <4> QED
        BY <1>4, <4>2, <4>4, AllIs
    <3>8. PICK row : Bound(o.names, raws, s) = Got(row)
      BY <3>7
    <3> QED
      BY <2>2, <3>5, <3>6, <3>8, BoundIs
  <2> QED
    BY <2>1, <2>2
<1> HIDE DEF b, c
<1>6. PICK row : /\ b = Got(row) /\ row = [j \in DOMAIN s |-> row[j]]
                 /\ \A j \in DOMAIN s : Fit(s[j], row[j]) /\ Tells(s[j], o.door, SentFor(o, s, j), row[j])
  BY <1>5
<1>7. c = Got(row) /\ \A j \in DOMAIN s : Poison(s[j], row[j]) = "none"
  <2> DEFINE p == [j \in DOMAIN s |-> IF Poison(s[j], row[j]) = "none" THEN Got(row[j]) ELSE No(Poison(s[j], row[j]))]
  <2>1. c = All(p)
    BY <1>3, <1>6, Outcomes DEF Unpoisoned
  <2>2. DOMAIN p = 1..Len(s)
    BY <1>4
  <2>3. \A j \in DOMAIN s : p[j] = IF Poison(s[j], row[j]) = "none" THEN Got(row[j]) ELSE No(Poison(s[j], row[j]))
    OBVIOUS
  <2> HIDE DEF p
  <2>4. (\A j \in 1..Len(s) : p[j].why = "none") /\ All(p) = Got([j \in 1..Len(s) |-> p[j].x])
    BY <1>2, <1>4, <2>1, <2>2, AllIs
  <2>5. \A j \in DOMAIN s : Poison(s[j], row[j]) = "none"
    BY <1>4, <2>3, <2>4, Outcomes
  <2>6. \A j \in DOMAIN s : p[j].x = row[j]
    BY <2>3, <2>5, Outcomes
  <2>7. [j \in 1..Len(s) |-> p[j].x] = row
    BY <1>4, <1>6, <2>6
  <2> QED
    BY <2>1, <2>4, <2>5, <2>7
<1>8. Verdict(o, s) = Encoded(s, row)
  BY <1>2, <1>7, Outcomes
<1>9. \A j \in DOMAIN s : s[j].required => row[j] # Nil
  <2> SUFFICES ASSUME NEW j \in DOMAIN s, s[j].required, row[j] = Nil PROVE FALSE
    OBVIOUS
  <2>1. Encoded(s, row) = No("encode")
    BY DEF Encoded
  <2> QED
    BY <1>8, <2>1, Outcomes
<1> QED
  BY <1>6, <1>7, <1>8, <1>9 DEF Row

-----------------------------------------------------------------------------
(***************************************************************************)
(* The canonical payload is decoded to the row it was encoded from.        *)
(***************************************************************************)

\* The parts of a sequence lie in it one after the other.
Laying(T, n, E, r, L) ==
    /\ r \in Seq(T) /\ L \in [0..n -> Nat] /\ FlattenSeq(E) = r /\ L[0] = 0 /\ L[n] = Len(r)
    /\ \A i \in 1..n : /\ L[i] = L[i - 1] + Len(E[i]) /\ L[i] <= Len(r)
                       /\ \A k \in 1..Len(E[i]) : r[L[i - 1] + k] = E[i][k]

LEMMA Laid ==
    ASSUME NEW T, NEW n \in Nat \ {0}, NEW E \in [1..n -> Seq(T)]
    PROVE  \E r, L : Laying(T, n, E, r, L)
<1>0. Strung(T, n, E)
  BY Flattened
<1>1. PICK F \in [1..n -> Seq(T)] :
          F[1] = E[1] /\ FlattenSeq(E) = F[n] /\ \A i \in 2..n : F[i] = F[i - 1] \o E[i]
  BY <1>0 DEF Strung
<1> DEFINE r == F[n]
           L == [i \in 0..n |-> IF i = 0 THEN 0 ELSE Len(F[i])]
<1>2. \A i \in 1..n : Len(F[i]) \in Nat /\ Len(E[i]) \in Nat /\ F[i] \in Seq(T) /\ E[i] \in Seq(T)
  BY LenProperties
<1>3. ASSUME NEW i \in 1..n
      PROVE  /\ L[i] = L[i - 1] + Len(E[i])
             /\ \A k \in 1..Len(E[i]) : F[i][L[i - 1] + k] = E[i][k]
             /\ i # 1 => \A k \in 1..Len(F[i - 1]) : F[i][k] = F[i - 1][k]
             /\ i # 1 => i - 1 \in 1..n /\ Len(F[i - 1]) <= Len(F[i])
  <2>1. L[i] = Len(F[i]) /\ L[i - 1] = IF i = 1 THEN 0 ELSE Len(F[i - 1])
    OBVIOUS
  <2> HIDE DEF L
  <2>2. CASE i = 1
    BY <1>1, <1>2, <2>1, <2>2
  <2>3. CASE i # 1
    <3>1. i \in 2..n /\ i - 1 \in 1..n
      BY <2>3
    <3> DEFINE a == F[i - 1]
               b == E[i]
    <3>2. a \in Seq(T) /\ b \in Seq(T) /\ F[i] = a \o b /\ L[i - 1] = Len(a)
      BY <1>1, <1>2, <2>1, <2>3, <3>1
    <3> HIDE DEF a, b
    <3>3. Len(a) \in Nat /\ Len(b) \in Nat /\ Len(a \o b) = Len(a) + Len(b)
      BY <3>2, ConcatProperties, LenProperties
    <3>4. \A k \in 1..Len(a) + Len(b) : (a \o b)[k] = IF k <= Len(a) THEN a[k] ELSE b[k - Len(a)]
      BY <3>2, ConcatProperties
    <3>5. \A k \in 1..Len(b) : (a \o b)[Len(a) + k] = b[k]
      <4> TAKE k \in 1..Len(b)
      <4>1. Len(a) + k \in 1..Len(a) + Len(b) /\ ~(Len(a) + k <= Len(a)) /\ (Len(a) + k) - Len(a) = k
        BY <3>3
      <4> QED
        BY <3>4, <4>1
    <3>6. \A k \in 1..Len(a) : (a \o b)[k] = a[k]
      BY <3>3, <3>4
    <3>7. Len(F[i]) = Len(a) + Len(b)
      BY <3>2, <3>3
    <3>8. \A k \in 1..Len(b) : F[i][L[i - 1] + k] = b[k]
      BY <3>2, <3>5
    <3>9. \A k \in 1..Len(a) : F[i][k] = a[k]
      BY <3>2, <3>6
    <3>10. L[i] = L[i - 1] + Len(b) /\ Len(a) <= Len(F[i])
      <4>1. L[i] = Len(F[i]) /\ L[i - 1] = Len(a)
        BY <2>1, <3>2
      <4> QED
        BY <3>3, <3>7, <4>1
    <3> QED
      BY <3>1, <3>8, <3>9, <3>10 DEF a, b
  <2> QED
    BY <2>2, <2>3
<1> DEFINE P == {m \in 0..n - 1 : Len(F[n - m]) <= Len(r) /\ \A k \in 1..Len(F[n - m]) : r[k] = F[n - m][k]}
<1>4. 0 \in P
  <2>1. n - 0 = n /\ 0 \in 0..n - 1
    OBVIOUS
  <2> QED
    BY <1>2, <2>1
<1>5. ASSUME NEW m \in 1..n - 1, m - 1 \in P PROVE m \in P
  <2> DEFINE i == n - (m - 1)
  <2>1. i \in 1..n /\ i # 1 /\ i - 1 = n - m /\ n - m \in 1..n /\ m \in 0..n - 1
    OBVIOUS
  <2>2. Len(F[i]) <= Len(r) /\ \A k \in 1..Len(F[i]) : r[k] = F[i][k]
    BY <1>5
  <2> HIDE DEF i
  <2>3. /\ \A k \in 1..Len(F[i - 1]) : F[i][k] = F[i - 1][k]
        /\ Len(F[i - 1]) <= Len(F[i])
    BY <1>3, <2>1
  <2>4. Len(F[n - m]) <= Len(r) /\ \A k \in 1..Len(F[n - m]) : r[k] = F[n - m][k]
    <3>1. Len(F[i - 1]) \in Nat /\ Len(F[i]) \in Nat /\ Len(r) \in Nat
      BY <1>2, <2>1
    <3>2. \A k \in 1..Len(F[i - 1]) : k \in 1..Len(F[i])
      BY <2>3, <3>1
    <3> HIDE DEF r
    <3>3. \A k \in 1..Len(F[i - 1]) : r[k] = F[i - 1][k]
      BY <2>2, <2>3, <3>2
    <3>4. Len(F[i - 1]) <= Len(r)
      BY <2>2, <2>3, <3>1
    <3> QED
      BY <2>1, <3>3, <3>4
  <2> QED
    BY <2>1, <2>4
<1> HIDE DEF P
<1>6. \A m \in 0..n - 1 : m \in P
  <2>1. n - 1 \in Nat
    OBVIOUS
  <2> QED
    BY <1>4, <1>5, <2>1, Climbing
<1>7. ASSUME NEW i \in 1..n PROVE Len(F[i]) <= Len(r) /\ \A k \in 1..Len(F[i]) : r[k] = F[i][k]
  <2>1. n - i \in 0..n - 1 /\ n - (n - i) = i
    OBVIOUS
  <2>2. n - i \in P
    BY <1>6, <2>1
  <2> QED
    BY <2>1, <2>2 DEF P
<1>8. L \in [0..n -> Nat] /\ L[0] = 0 /\ L[n] = Len(r)
  BY <1>2
<1>9. ASSUME NEW i \in 1..n, NEW k \in 1..Len(E[i]) PROVE r[L[i - 1] + k] = E[i][k]
  <2>1. L[i] = Len(F[i]) /\ L[i - 1] \in Nat
    BY <1>8
  <2> HIDE DEF L, r
  <2>2. L[i - 1] + k \in 1..Len(F[i])
    <3>1. Len(F[i]) = L[i - 1] + Len(E[i]) /\ Len(E[i]) \in Nat
      BY <1>2, <1>3, <2>1
    <3> QED
      BY <2>1, <3>1
  <2> QED
    BY <1>3, <1>7, <2>2
<1>10. \A i \in 1..n : L[i] = Len(F[i])
  OBVIOUS
<1>11. r \in Seq(T) /\ FlattenSeq(E) = r
  BY <1>1, <1>2
<1> HIDE DEF L, r
<1> QED
  <2>1. \A i \in 1..n : L[i] = L[i - 1] + Len(E[i]) /\ L[i] <= Len(r)
    BY <1>3, <1>7, <1>10
  <2>2. Laying(T, n, E, r, L)
    BY <1>8, <1>9, <1>11, <2>1 DEF Laying
  <2> QED
    BY <2>2

\* One column's part of the payload.
PartOf(column, value) ==
    IF value = Nil THEN <<Token("presence", 0, 0)>>
    ELSE (IF column.required THEN <<>> ELSE <<Token("presence", 0, 1)>>) \o Value(column, value)

LEMMA PartIs ==
    ASSUME NEW column \in Column, NEW value, value # Nil
    PROVE  LET bits == IF column.kind \in {"boolean", "float", "double"} THEN value.v
                       ELSE Bits(value.v, Width(column.kind))
               o == IF column.required THEN 0 ELSE 1
               part == PartOf(column, value)
           IN /\ ~column.required => part[1] = Token("presence", 0, 1)
              /\ Width(column.kind) # 0 => Len(part) = o + 1 /\ part[o + 1] = Token("value", Width(column.kind), bits)
              /\ Width(column.kind) = 0 =>
                    /\ Len(part) = o + 2 /\ part[o + 1] = Token("length", 0, Contents[value.v].len)
                    /\ part[o + 2] = Token("value", Contents[value.v].len, value.v)
<1> DEFINE bits == IF column.kind \in {"boolean", "float", "double"} THEN value.v
                   ELSE Bits(value.v, Width(column.kind))
           present == Token("presence", 0, 1)
           one == Token("value", Width(column.kind), bits)
           long == Token("length", 0, Contents[value.v].len)
           text == Token("value", Contents[value.v].len, value.v)
           fixed == Width(column.kind) # 0
           o == IF column.required THEN 0 ELSE 1
           head == IF column.required THEN <<>> ELSE <<present>>
           body == IF fixed THEN <<one>> ELSE <<long, text>>
           S == {present, one, long, text}
<1>1. PartOf(column, value) = head \o body
  BY DEF Value, PartOf
<1> HIDE DEF present, one, long, text, fixed
<1>2. head \in Seq(S) /\ Len(head) = o /\ (~column.required => head[1] = present)
  <2>1. CASE column.required
    <3>1. head = <<>>
      BY <2>1
    <3> HIDE DEF head
    <3> QED
      BY <2>1, <3>1, EmptySeq
  <2>2. CASE ~column.required
    <3>1. head = <<present>>
      BY <2>2
    <3> HIDE DEF head
    <3> QED
      BY <2>2, <3>1
  <2> QED
    BY <2>1, <2>2
<1>3. body \in Seq(S) /\ (IF fixed THEN Len(body) = 1 /\ body[1] = one ELSE Len(body) = 2 /\ body[1] = long /\ body[2] = text)
  <2>1. CASE fixed
    <3>1. body = <<one>>
      BY <2>1
    <3> HIDE DEF body
    <3> QED
      BY <2>1, <3>1
  <2>2. CASE ~fixed
    <3>1. body = <<long, text>>
      BY <2>2
    <3> HIDE DEF body
    <3> QED
      BY <2>2, <3>1
  <2> QED
    BY <2>1, <2>2
<1> HIDE DEF head, body, S
<1>4. o \in 0..1
  OBVIOUS
<1> DEFINE part == head \o body
<1>5. Len(part) = o + Len(body) /\ \A i \in 1..o + Len(body) : part[i] = IF i <= o THEN head[i] ELSE body[i - o]
  BY <1>2, <1>3, ConcatProperties
<1> HIDE DEF part
<1>6. ~column.required => part[1] = present
  BY <1>2, <1>3, <1>5
<1>7. fixed => Len(part) = o + 1 /\ part[o + 1] = one
  <2>1. fixed => o + 1 \in 1..o + Len(body) /\ ~(o + 1 <= o) /\ (o + 1) - o = 1
    BY <1>3, <1>4
  <2> QED
    BY <1>3, <1>5, <2>1
<1>8. ~fixed => Len(part) = o + 2 /\ part[o + 1] = long /\ part[o + 2] = text
  <2>1. ~fixed => /\ o + 1 \in 1..o + Len(body) /\ ~(o + 1 <= o) /\ (o + 1) - o = 1
                  /\ o + 2 \in 1..o + Len(body) /\ ~(o + 2 <= o) /\ (o + 2) - o = 2
    BY <1>3, <1>4
  <2> QED
    BY <1>3, <1>5, <2>1
<1> QED
  BY <1>1, <1>6, <1>7, <1>8 DEF present, one, long, text, fixed, part

\* The tokens of a part that lies at a position.
LiesAt(part, tokens, at) ==
    /\ at + Len(part) - 1 <= Len(tokens)
    /\ \A k \in 1..Len(part) : tokens[at - 1 + k] = part[k]

LEMMA ValueRead ==
    ASSUME NEW column \in Column, NEW v, Ranged(column.kind, v), NEW tokens, NEW at \in Nat \ {0},
           LET bits == IF column.kind \in {"boolean", "float", "double"} THEN v ELSE Bits(v, Width(column.kind))
           IN IF Width(column.kind) # 0 THEN tokens[at] = Token("value", Width(column.kind), bits)
              ELSE tokens[at] = Token("length", 0, Contents[v].len) /\ tokens[at + 1] = Token("value", Contents[v].len, v)
    PROVE  ReadValue(column, tokens, at) =
              [at |-> at + (IF Width(column.kind) # 0 THEN 1 ELSE 2), ok |-> TRUE, x |-> Go(GoType(column.kind), v)]
<1> DEFINE k == column.kind
           fixed == Width(k) # 0
           i == IF fixed THEN at ELSE at + 1
           width == IF fixed THEN Width(k) ELSE tokens[at].bits
           raw == tokens[i].bits
           bits == IF k \in {"boolean", "float", "double"} THEN v ELSE Bits(v, Width(k))
<1>1. k \in Kinds
  BY ColumnIs
<1>2. (k \in {"string", "binary"} <=> ~fixed) /\ (k \in Words => Width(k) \in Nat \ {0})
  BY <1>1, RecordsAssumption DEF Width, Kinds, Words
<1>3. \A what, wide, b : LET t == Token(what, wide, b) IN t.what = what /\ t.width = wide /\ t.bits = b
  BY DEF Token
<1>4. ReadValue(column, tokens, at) =
        [at |-> i + 1, ok |-> tokens[i].what = "value" /\ tokens[i].width = width,
         x |-> Go(GoType(k), IF k \in Words THEN FromBits(raw, width) ELSE raw)]
  BY DEF ReadValue, Words
<1>5. CASE fixed
  <2>1. tokens[at] = Token("value", Width(k), bits) /\ i = at /\ width = Width(k)
    BY <1>5
  <2> HIDE DEF bits, i, width
  <2>2. tokens[i].what = "value" /\ tokens[i].width = width /\ raw = bits
    BY <1>3, <2>1
  <2>3. (IF k \in Words THEN FromBits(raw, width) ELSE raw) = v
    <3>1. CASE k \in Words
      <4>1. bits = Bits(v, Width(k)) /\ v \in Int /\ InBits(v, Width(k))
        BY <3>1 DEF bits, Words, Ranged
      <4>2. FromBits(Bits(v, Width(k)), Width(k)) = v
        BY <1>2, <3>1, <4>1, BitsBack
      <4> QED
        BY <2>1, <2>2, <3>1, <4>1, <4>2
    <3>2. CASE k \notin Words
      <4>1. bits = v
        BY <1>1, <1>2, <1>5, <3>2 DEF bits, Words, Kinds
      <4> QED
        BY <2>2, <3>2, <4>1
    <3> QED
      BY <3>1, <3>2
  <2> QED
    BY <1>4, <1>5, <2>1, <2>2, <2>3
<1>6. CASE ~fixed
  <2>1. /\ tokens[at] = Token("length", 0, Contents[v].len) /\ tokens[at + 1] = Token("value", Contents[v].len, v)
        /\ i = at + 1 /\ width = tokens[at].bits /\ k \notin Words
    BY <1>2, <1>6 DEF Words
  <2> HIDE DEF i, width
  <2>2. tokens[i].what = "value" /\ tokens[i].width = width /\ raw = v
    BY <1>3, <2>1
  <2>3. i + 1 = at + 2
    BY <2>1
  <2> QED
    BY <1>4, <1>6, <2>1, <2>2, <2>3
<1> QED
  BY <1>5, <1>6

\* What has been read when all went well.
Read(at, row) == [at |-> at, ok |-> TRUE, row |-> row]

LEMMA ColumnRead ==
    ASSUME NEW column \in Column, NEW value, Fit(column, value), column.required => value # Nil,
           NEW tokens, Len(tokens) \in Nat, NEW at \in Nat \ {0}, NEW row,
           LiesAt(PartOf(column, value), tokens, at)
    PROVE  /\ Len(PartOf(column, value)) \in Nat
           /\ ReadColumn(Read(at, row), column, tokens) = Read(at + Len(PartOf(column, value)), Append(row, value))
<1> DEFINE acc == [at |-> at, ok |-> TRUE, row |-> row]
           part == PartOf(column, value)
           absent == Token("presence", 0, 0)
           present == Token("presence", 0, 1)
           o == IF column.required THEN 0 ELSE 1
<1>1. acc.at = at /\ acc.ok = TRUE /\ acc.row = row
  OBVIOUS
<1>2. present # absent
  BY DEF Token
<1>3. column.required \in BOOLEAN
  BY ColumnIs
<1>4. ReadColumn(acc, column, tokens) =
        IF at > Len(tokens) THEN [acc EXCEPT !.ok = FALSE]
        ELSE IF ~column.required /\ tokens[at] = absent
        THEN [acc EXCEPT !.at = at + 1, !.row = Append(row, Nil)]
        ELSE IF ~column.required /\ tokens[at] # present THEN [acc EXCEPT !.ok = FALSE]
        ELSE LET r == ReadValue(column, tokens, at + o)
             IN [at |-> r.at, ok |-> r.ok, row |-> Append(row, r.x)]
  <2> HIDE DEF acc, absent, present
  <2>1. CASE column.required
    <3>1. at + o = at
      BY <2>1
    <3> QED
      BY <1>1, <2>1, <3>1 DEF ReadColumn
  <2>2. CASE ~column.required
    BY <1>1, <2>2 DEF ReadColumn, absent, present
  <2> QED
    BY <2>1, <2>2
<1>5. CASE value = Nil
  <2>1. part = <<absent>> /\ ~column.required
    BY <1>5 DEF PartOf
  <2>2. Len(part) = 1 /\ part[1] = absent
    <3> HIDE DEF part, absent
    <3> QED
      BY <2>1
  <2> HIDE DEF part, absent, present
  <2>3. tokens[at] = absent /\ ~(at > Len(tokens))
    <3>1. at - 1 + 1 = at /\ 1 \in 1..1
      OBVIOUS
    <3> QED
      BY <2>2, <3>1 DEF LiesAt, part
  <2>4. ReadColumn(acc, column, tokens) = [acc EXCEPT !.at = at + 1, !.row = Append(row, Nil)]
    BY <1>4, <2>1, <2>3
  <2>5. [acc EXCEPT !.at = at + 1, !.row = Append(row, Nil)] = [at |-> at + 1, ok |-> TRUE, row |-> Append(row, Nil)]
    <3> DEFINE yes == TRUE
               more == Append(row, Nil)
    <3> HIDE DEF yes, more
    <3>1. [[at |-> at, ok |-> yes, row |-> row] EXCEPT !.at = at + 1] = [at |-> at + 1, ok |-> yes, row |-> row]
      OBVIOUS
    <3>2. [[at |-> at + 1, ok |-> yes, row |-> row] EXCEPT !.row = more] = [at |-> at + 1, ok |-> yes, row |-> more]
      OBVIOUS
    <3> QED
      BY <3>1, <3>2 DEF yes, more
  <2> QED
    BY <1>5, <2>2, <2>4, <2>5 DEF part, Read
<1>6. CASE value # Nil
  <2>1. PICK v : value = Go(GoType(column.kind), v) /\ Ranged(column.kind, v)
    BY <1>6 DEF Fit
  <2>2. value.v = v
    BY <2>1 DEF Go
  <2> DEFINE bits == IF column.kind \in {"boolean", "float", "double"} THEN v ELSE Bits(v, Width(column.kind))
             wide == IF Width(column.kind) # 0 THEN 1 ELSE 2
  <2>3. /\ ~column.required => part[1] = present
        /\ Width(column.kind) # 0 => Len(part) = o + 1 /\ part[o + 1] = Token("value", Width(column.kind), bits)
        /\ Width(column.kind) = 0 =>
              /\ Len(part) = o + 2 /\ part[o + 1] = Token("length", 0, Contents[v].len)
              /\ part[o + 2] = Token("value", Contents[v].len, v)
    BY <1>6, <2>2, PartIs
  <2> HIDE DEF part, present, absent, bits
  <2>4. Len(part) = o + wide /\ o \in 0..1 /\ wide \in 1..2
    <3>1. o \in 0..1 /\ wide \in 1..2
      OBVIOUS
    <3>2. Len(part) = o + wide
      <4> HIDE DEF o
      <4> QED
        BY <2>3
    <3> QED
      BY <3>1, <3>2
  <2>5. \A k \in 1..o + wide : tokens[at - 1 + k] = part[k]
    BY <2>4 DEF LiesAt, part
  <2>6. ~(at > Len(tokens))
    <3>1. at + Len(part) - 1 <= Len(tokens)
      BY DEF LiesAt, part
    <3> QED
      BY <2>4, <3>1
  <2>7. ~column.required => tokens[at] = present
    <3>1. 1 \in 1..o + wide /\ at - 1 + 1 = at
      BY <2>4
    <3>2. tokens[at - 1 + 1] = part[1]
      BY <2>5, <3>1
    <3> QED
      BY <2>3, <3>1, <3>2
  <2>8. tokens[at + o] = part[o + 1] /\ (Width(column.kind) = 0 => tokens[at + o + 1] = part[o + 2])
    <3>1. o + 1 \in 1..o + wide /\ at - 1 + (o + 1) = at + o
      BY <2>4
    <3>2. Width(column.kind) = 0 => o + 2 \in 1..o + wide /\ at - 1 + (o + 2) = at + o + 1
      BY <2>4
    <3> HIDE DEF o, wide
    <3>3. tokens[at - 1 + (o + 1)] = part[o + 1]
      BY <2>5, <3>1
    <3>4. Width(column.kind) = 0 => tokens[at - 1 + (o + 2)] = part[o + 2]
      BY <2>5, <3>2
    <3> QED
      BY <3>1, <3>2, <3>3, <3>4
  <2>9. at + o \in Nat \ {0}
    BY <2>4
  <2>10. ReadValue(column, tokens, at + o) = [at |-> at + o + wide, ok |-> TRUE, x |-> value]
    <3> DEFINE b == at + o
    <3>1. b \in Nat \ {0}
      BY <2>9
    <3>2. IF Width(column.kind) # 0 THEN tokens[b] = Token("value", Width(column.kind), bits)
          ELSE tokens[b] = Token("length", 0, Contents[v].len) /\ tokens[b + 1] = Token("value", Contents[v].len, v)
      BY <2>3, <2>8
    <3> HIDE DEF b
    <3>3. ReadValue(column, tokens, b) = [at |-> b + wide, ok |-> TRUE, x |-> Go(GoType(column.kind), v)]
      BY <2>1, <3>1, <3>2, ValueRead DEF bits
    <3> QED
      BY <2>1, <3>3 DEF b
  <2>11. ReadColumn(acc, column, tokens) = [at |-> at + o + wide, ok |-> TRUE, row |-> Append(row, value)]
    <3> DEFINE r == ReadValue(column, tokens, at + o)
    <3>1. ReadColumn(acc, column, tokens) = [at |-> r.at, ok |-> r.ok, row |-> Append(row, r.x)]
      BY <1>2, <1>4, <2>6, <2>7
    <3>2. r.at = at + o + wide /\ r.ok = TRUE /\ r.x = value
      BY <2>10
    <3> QED
      BY <3>1, <3>2
  <2>12. at + o + wide = at + Len(part) /\ Len(part) \in Nat
    BY <2>4
  <2> QED
    BY <2>11, <2>12 DEF part, Read
<1> QED
  BY <1>5, <1>6

LEMMA Appended ==
    ASSUME NEW V, NEW n \in Nat, NEW f \in [1..n + 1 -> V]
    PROVE  Append([i \in 1..n |-> f[i]], f[n + 1]) = f
<1> DEFINE a == [i \in 1..n |-> f[i]]
           x == f[n + 1]
<1>1. a \in Seq(V) /\ Len(a) = n /\ x \in V /\ \A i \in 1..n : a[i] = f[i]
  OBVIOUS
<1>2. f = [i \in 1..n + 1 |-> f[i]]
  OBVIOUS
<1> HIDE DEF a, x
<1> DEFINE b == Append(a, x)
<1>3. b \in Seq(V) /\ Len(b) = n + 1 /\ (\A i \in 1..n : b[i] = f[i]) /\ b[n + 1] = x
  BY <1>1, AppendProperties
<1> HIDE DEF b
<1>4. DOMAIN b = 1..n + 1 /\ b = [i \in 1..n + 1 |-> b[i]]
  BY <1>3, LenProperties
<1>5. \A i \in 1..n + 1 : b[i] = f[i]
  <2>1. \A i \in 1..n + 1 : i \in 1..n \/ i = n + 1
    OBVIOUS
  <2> QED
    BY <1>3, <2>1 DEF x
<1> QED
  BY <1>2, <1>4, <1>5 DEF a, b, x

LEMMA PartSeq ==
    ASSUME NEW column \in Column, NEW value, NEW e, e = PartOf(column, value)
    PROVE  DOMAIN e = 1..Len(e) /\ Len(e) \in Nat /\ e = [k \in 1..Len(e) |-> e[k]]
<1> DEFINE absent == <<Token("presence", 0, 0)>>
           head == IF column.required THEN <<>> ELSE <<Token("presence", 0, 1)>>
           body == Value(column, value)
<1>1. CASE value = Nil
  BY <1>1 DEF PartOf
<1>2. CASE value # Nil
  <2> DEFINE long == Token("length", 0, Contents[value.v].len)
             text == Token("value", Contents[value.v].len, value.v)
             raw == Token("value", Width(column.kind), value.v)
             word == Token("value", Width(column.kind), Bits(value.v, Width(column.kind)))
             present == Token("presence", 0, 1)
             S == {long, text, raw, word, present}
  <2>1. body \in {<<long, text>>, <<raw>>, <<word>>}
    BY DEF Value
  <2>2. head \in {<<>>, <<present>>}
    OBVIOUS
  <2> HIDE DEF body, head, long, text, raw, word, present
  <2>3. head \in Seq(S) /\ body \in Seq(S)
    <3>1. <<>> \in Seq(S) /\ <<present>> \in Seq(S) /\ <<raw>> \in Seq(S)
      OBVIOUS
    <3>2. <<word>> \in Seq(S) /\ <<long, text>> \in Seq(S)
      OBVIOUS
    <3> HIDE DEF S
    <3> QED
      BY <2>1, <2>2, <3>1, <3>2, Zenon
  <2> HIDE DEF S
  <2>4. head \o body \in Seq(S)
    BY <2>3, ConcatProperties
  <2>5. e = head \o body
    BY <1>2 DEF PartOf, head, body, present
  <2>6. e \in Seq(S)
    BY <2>4, <2>5
  <2> QED
    BY <2>6
<1> QED
  BY <1>1, <1>2

\* Decode's steps are what they are said to be.
LEMMA DecodedIs ==
    ASSUME NEW n \in Nat, NEW cols, Len(cols) = n, NEW tokens, NEW g,
           g = [j \in 0..n |-> g[j]],
           g[0] = [at |-> 2, ok |-> tokens[1] = Version, row |-> <<>>],
           \A j \in 1..n : g[j] = ReadColumn(g[j - 1], cols[j], tokens)
    PROVE  Decode(cols, tokens) =
             IF g[n].ok /\ g[n].at = Len(tokens) + 1 THEN Got(g[n].row) ELSE No("payload")
<1> DEFINE Start == [at |-> 2, ok |-> tokens[1] = Version, row |-> <<>>]
           Body(f) == [j \in 0..n |-> IF j = 0 THEN Start ELSE ReadColumn(f[j - 1], cols[j], tokens)]
           F == CHOOSE f : f = Body(f)
<1> HIDE DEF Start
<1>1. g = Body(g)
  <2>1. \A j \in 0..n : g[j] = IF j = 0 THEN Start ELSE ReadColumn(g[j - 1], cols[j], tokens)
    <3>1. \A j \in 0..n : j = 0 \/ j \in 1..n
      OBVIOUS
    <3> QED
      BY <3>1 DEF Start
  <2> QED
    BY <2>1
<1>2. F = Body(F)
  BY <1>1
<1>3. Decode(cols, tokens) = IF F[n].ok /\ F[n].at = Len(tokens) + 1 THEN Got(F[n].row) ELSE No("payload")
  BY DEF Decode, Start
<1> HIDE DEF F
<1>4. \A j \in 0..n : F[j] = IF j = 0 THEN Start ELSE ReadColumn(F[j - 1], cols[j], tokens)
  <2>1. \A j \in 0..n : F[j] = Body(F)[j]
    BY <1>2
  <2> QED
    BY <2>1
<1> DEFINE Same == {j \in 0..n : F[j] = g[j]}
<1>5. 0 \in Same
  BY <1>4 DEF Start
<1>6. ASSUME NEW j \in 1..n, j - 1 \in Same PROVE j \in Same
  <2>1. j \in 0..n /\ j # 0
    OBVIOUS
  <2>2. F[j] = ReadColumn(F[j - 1], cols[j], tokens)
    BY <1>4, <2>1
  <2>3. F[j - 1] = g[j - 1] /\ g[j] = ReadColumn(g[j - 1], cols[j], tokens)
    BY <1>6
  <2> QED
    BY <2>1, <2>2, <2>3
<1> HIDE DEF Same
<1>7. \A j \in 0..n : j \in Same
  BY <1>5, <1>6, Climbing
<1>8. F[n] = g[n]
  BY <1>7 DEF Same
<1> QED
  BY <1>3, <1>8

LEMMA RoundTrip ==
    ASSUME NEW s \in Shapes, NEW row, row = [j \in DOMAIN s |-> row[j]],
           \A j \in DOMAIN s : Fit(s[j], row[j]) /\ (s[j].required => row[j] # Nil)
    PROVE  \E tokens : Encoded(s, row) = Got(tokens) /\ Decode(s, tokens) = Got(row)
<1> DEFINE n == Len(s)
           E == [j \in 1..n |-> PartOf(s[j], row[j])]
           Tokens(j) == {E[j][k] : k \in 1..Len(E[j])}
           U == UNION {Tokens(j) : j \in 1..n}
           T == U \union {Version}
           V == {row[j] : j \in 1..n}
<1>1. n \in Nat \ {0} /\ DOMAIN s = 1..n /\ \A j \in 1..n : s[j] \in Column
  BY ShapeIs
<1> HIDE DEF n
<1>2. Encoded(s, row) = Got(<<Version>> \o FlattenSeq(E))
  <2>1. ~\E j \in DOMAIN s : row[j] = Nil /\ s[j].required
    OBVIOUS
  <2>2. [j \in DOMAIN s |-> IF row[j] = Nil THEN <<Token("presence", 0, 0)>>
                   ELSE (IF s[j].required THEN <<>> ELSE <<Token("presence", 0, 1)>>)
                        \o Value(s[j], row[j])] = E
    BY <1>1 DEF PartOf
  <2> QED
    BY <2>1, <2>2 DEF Encoded
<1>3. \A j \in 1..n : E[j] = PartOf(s[j], row[j])
  OBVIOUS
<1>4. E \in [1..n -> Seq(T)]
  <2>1. \A j \in 1..n : E[j] \in Seq(T)
    <3> TAKE j \in 1..n
    <3> DEFINE e == E[j]
    <3>1. DOMAIN e = 1..Len(e) /\ Len(e) \in Nat /\ e = [k \in 1..Len(e) |-> e[k]]
      <4>1. e = PartOf(s[j], row[j]) /\ s[j] \in Column
        BY <1>1
      <4> HIDE DEF e
      <4> QED
        BY <4>1, PartSeq
    <3>2. \A k \in 1..Len(e) : e[k] \in Tokens(j)
      OBVIOUS
    <3> HIDE DEF e, Tokens
    <3>4. Tokens(j) \subseteq T
      OBVIOUS
    <3> HIDE DEF T
    <3>5. \A k \in 1..Len(e) : e[k] \in T
      BY <3>2, <3>4
    <3>3. e \in Seq(T)
      BY <3>1, <3>5
    <3> QED
      BY <3>3 DEF e
  <2> HIDE DEF T
  <2> QED
    BY <2>1
<1> HIDE DEF E
<1> HIDE DEF U
<1>5. Version \in T
  OBVIOUS
<1> HIDE DEF T
<1>15. PICK r, L : Laying(T, n, E, r, L)
  BY <1>1, <1>4, Laid
<1>6. /\ r \in Seq(T) /\ L \in [0..n -> Nat] /\ FlattenSeq(E) = r /\ L[0] = 0 /\ L[n] = Len(r)
      /\ \A i \in 1..n : /\ L[i] = L[i - 1] + Len(E[i]) /\ L[i] <= Len(r)
                         /\ \A k \in 1..Len(E[i]) : r[L[i - 1] + k] = E[i][k]
  BY <1>15 DEF Laying
<1> DEFINE tokens == <<Version>> \o r
<1>7. Len(tokens) = Len(r) + 1 /\ Len(r) \in Nat /\ tokens[1] = Version /\ \A i \in 1..Len(r) : tokens[i + 1] = r[i]
  <2> DEFINE v == <<Version>>
  <2>1. v \in Seq(T) /\ Len(v) = 1 /\ v[1] = Version
    BY <1>5
  <2> HIDE DEF v
  <2>2. Len(r) \in Nat /\ Len(v \o r) = 1 + Len(r)
        /\ \A i \in 1..1 + Len(r) : (v \o r)[i] = IF i <= 1 THEN v[i] ELSE r[i - 1]
    <3>1. r \in Seq(T) /\ Len(r) \in Nat
      BY <1>6, LenProperties
    <3>2. Len(v \o r) = Len(v) + Len(r)
          /\ \A i \in 1..Len(v) + Len(r) : (v \o r)[i] = IF i <= Len(v) THEN v[i] ELSE r[i - Len(v)]
      BY <2>1, <3>1, ConcatProperties
    <3> QED
      BY <2>1, <3>1, <3>2
  <2>3. \A i \in 1..Len(r) : i + 1 \in 1..1 + Len(r) /\ ~(i + 1 <= 1) /\ (i + 1) - 1 = i
    BY <2>2
  <2>4. 1 \in 1..1 + Len(r)
    BY <2>2
  <2> QED
    BY <2>1, <2>2, <2>3, <2>4 DEF v
<1> HIDE DEF tokens
<1> DEFINE g == [j \in 0..n |-> Read(L[j] + 2, [i \in 1..j |-> row[i]])]
<1>8. g[0] = [at |-> 2, ok |-> tokens[1] = Version, row |-> <<>>]
  <2>1. [i \in 1..0 |-> row[i]] = <<>>
    OBVIOUS
  <2>2. L[0] + 2 = 2 /\ (tokens[1] = Version) = TRUE
    BY <1>6, <1>7
  <2>3. 0 \in 0..n
    BY <1>1
  <2>4. g[0] = Read(L[0] + 2, [i \in 1..0 |-> row[i]])
    BY <2>3
  <2> HIDE DEF g
  <2> QED
    BY <2>1, <2>2, <2>4 DEF Read
<1>9. ASSUME NEW j \in 1..n PROVE g[j] = ReadColumn(g[j - 1], s[j], tokens)
  <2> DEFINE before == [i \in 1..j - 1 |-> row[i]]
             part == PartOf(s[j], row[j])
             at == L[j - 1] + 2
  <2>1. j - 1 \in 0..n /\ j \in 0..n
    BY <1>1
  <2>2. g[j - 1] = Read(at, before)
    BY <2>1
  <2>3. g[j] = Read(L[j] + 2, [i \in 1..j |-> row[i]])
    BY <2>1
  <2> HIDE DEF g
  <2>4. L[j - 1] \in Nat /\ at \in Nat \ {0} /\ at - 1 = L[j - 1] + 1
    BY <1>6, <2>1
  <2>5. s[j] \in Column /\ Fit(s[j], row[j]) /\ (s[j].required => row[j] # Nil)
    BY <1>1
  <2>6. part = E[j] /\ Len(part) \in Nat
    BY <1>3, <1>4, LenProperties
  <2> HIDE DEF part, at
  <2>7. L[j] = L[j - 1] + Len(part) /\ L[j] <= Len(r) /\ \A k \in 1..Len(part) : r[L[j - 1] + k] = part[k]
    BY <1>6, <2>6
  <2>8. LiesAt(part, tokens, at)
    <3>1. at + Len(part) - 1 <= Len(tokens)
      BY <1>7, <2>4, <2>6, <2>7
    <3>2. ASSUME NEW k \in 1..Len(part) PROVE tokens[at - 1 + k] = part[k]
      <4>1. L[j - 1] + k \in 1..Len(r) /\ at - 1 + k = (L[j - 1] + k) + 1
        <5>1. L[j - 1] + k \in 1..Len(r)
          <6>1. L[j - 1] + Len(part) <= Len(r)
            BY <2>7
          <6>2. L[j - 1] \in Nat /\ Len(part) \in Nat /\ Len(r) \in Nat
            BY <1>7, <2>4, <2>6
          <6> QED
            BY <6>1, <6>2
        <5>2. at - 1 + k = (L[j - 1] + k) + 1
          BY <2>4, <2>6
        <5> QED
          BY <5>1, <5>2
      <4> QED
        BY <1>7, <2>7, <4>1
    <3> QED
      BY <3>1, <3>2 DEF LiesAt
  <2>9. Len(tokens) \in Nat
    BY <1>7
  <2>10. ReadColumn(Read(at, before), s[j], tokens) =
           Read(at + Len(part), Append(before, row[j]))
    <3> HIDE DEF before
    <3> QED
      BY <2>4, <2>5, <2>8, <2>9, ColumnRead DEF part
  <2>11. Append(before, row[j]) = [i \in 1..j |-> row[i]]
    <3> DEFINE f == [i \in 1..(j - 1) + 1 |-> row[i]]
    <3>1. j - 1 \in Nat /\ (j - 1) + 1 = j /\ f \in [1..(j - 1) + 1 -> V] /\ f[(j - 1) + 1] = row[j]
      BY <1>1
    <3>2. [i \in 1..j - 1 |-> f[i]] = before
      BY <1>1
    <3>3. f = [i \in 1..j |-> row[i]]
      BY <3>1
    <3> HIDE DEF f, before, V
    <3>4. Append([i \in 1..j - 1 |-> f[i]], f[(j - 1) + 1]) = f
      BY <3>1, Appended
    <3> QED
      BY <3>1, <3>2, <3>3, <3>4
  <2>12. at + Len(part) = L[j] + 2
    BY <2>4, <2>6, <2>7 DEF at
  <2> QED
    BY <2>2, <2>3, <2>10, <2>11, <2>12
<1>10. /\ g = [j \in 0..n |-> g[j]] /\ n \in 0..n
       /\ g[n] = Read(L[n] + 2, [i \in 1..n |-> row[i]])
  <2>1. n \in 0..n
    BY <1>1
  <2>2. g[n] = Read(L[n] + 2, [i \in 1..n |-> row[i]])
    BY <2>1
  <2>3. g = [j \in 0..n |-> g[j]]
    OBVIOUS
  <2> QED
    BY <2>1, <2>2, <2>3
<1> HIDE DEF g
<1>11. g[n].ok = TRUE /\ g[n].at = L[n] + 2 /\ g[n].row = row
  BY <1>1, <1>10 DEF Read
<1>12. g[n].at = Len(tokens) + 1
  BY <1>6, <1>7, <1>11
<1>13. Decode(s, tokens) = IF g[n].ok /\ g[n].at = Len(tokens) + 1 THEN Got(g[n].row) ELSE No("payload")
  <2>1. n \in Nat /\ Len(s) = n
    BY <1>1 DEF n
  <2>2. \A j \in 1..n : g[j] = ReadColumn(g[j - 1], s[j], tokens)
    BY <1>9
  <2> HIDE DEF n
  <2>3. g = [j \in 0..n |-> g[j]]
    BY <1>10
  <2> QED
    BY <1>8, <2>1, <2>2, <2>3, DecodedIs
<1>14. Encoded(s, row) = Got(tokens)
  BY <1>2, <1>6 DEF tokens
<1> QED
  BY <1>11, <1>12, <1>13, <1>14

-----------------------------------------------------------------------------
(***************************************************************************)
(* A row moved to another shape, and built into a file.                    *)
(***************************************************************************)

LEMMA IdAt ==
    ASSUME NEW s \in Shapes
    PROVE  /\ \A id \in Ids(s) : Position(s, id) \in DOMAIN s /\ s[Position(s, id)].id = id
           /\ \A j \in DOMAIN s : s[j].id \in Ids(s) /\ Position(s, s[j].id) = j
<1>1. \A id \in Ids(s) : \E i \in DOMAIN s : s[i].id = id
  BY DEF Ids
<1>2. \A id \in Ids(s) : Position(s, id) \in DOMAIN s /\ s[Position(s, id)].id = id
  BY <1>1 DEF Position
<1>3. \A j \in DOMAIN s : s[j].id \in Ids(s)
  BY DEF Ids
<1>4. \A i, j \in DOMAIN s : s[i].id = s[j].id => i = j
  BY ShapeIs
<1> QED
  BY <1>2, <1>3, <1>4

LEMMA TypeMoves ==
    ASSUME NEW a, NEW b, SameType(a, b), NEW value
    PROVE  (Fit(a, value) => Fit(b, value)) /\ Poison(a, value) = Poison(b, value)
<1>1. a.kind = b.kind /\ a.precision = b.precision
  BY DEF SameType
<1> QED
  BY <1>1 DEF Fit, Poison

\* What a row is under a later shape: the same values under the same ids.
MovedRow(from, to, row) ==
    [j \in DOMAIN to |-> IF to[j].id \in Ids(from) THEN row[Position(from, to[j].id)] ELSE Nil]
Follows(from, to) ==
    /\ Ids(from) \subseteq Ids(to)
    /\ \A j \in DOMAIN to : to[j].id \in Ids(from) => SameType(from[Position(from, to[j].id)], to[j])

LEMMA FollowsOn ==
    ASSUME NEW a \in Shapes, NEW b \in Shapes, NEW c \in Shapes, Follows(a, b), Compatible(b, c), NEW row
    PROVE  Follows(a, c) /\ MovedRow(b, c, MovedRow(a, b, row)) = MovedRow(a, c, row)
<1>1. Ids(a) \subseteq Ids(b) /\ Ids(b) \subseteq Ids(c)
  BY DEF Follows, Compatible
<1>2. ASSUME NEW j \in DOMAIN c, c[j].id \in Ids(b)
      PROVE  LET i == Position(b, c[j].id)
             IN i \in DOMAIN b /\ b[i].id = c[j].id /\ SameType(b[i], c[j])
  BY <1>2, IdAt DEF Compatible
<1>3. ASSUME NEW j \in DOMAIN c, c[j].id \in Ids(a) PROVE SameType(a[Position(a, c[j].id)], c[j])
  <2> DEFINE i == Position(b, c[j].id)
  <2>1. i \in DOMAIN b /\ b[i].id = c[j].id /\ SameType(b[i], c[j])
    BY <1>1, <1>2, <1>3
  <2>2. SameType(a[Position(a, b[i].id)], b[i])
    BY <1>3, <2>1 DEF Follows
  <2> QED
    BY <2>1, <2>2 DEF SameType
<1>4. ASSUME NEW j \in DOMAIN c
      PROVE  MovedRow(b, c, MovedRow(a, b, row))[j] = MovedRow(a, c, row)[j]
  <2> DEFINE i == Position(b, c[j].id)
  <2>1. CASE c[j].id \in Ids(b)
    <3>1. i \in DOMAIN b /\ b[i].id = c[j].id
      BY <1>2, <2>1
    <3> QED
      BY <2>1, <3>1 DEF MovedRow
  <2>2. CASE c[j].id \notin Ids(b)
    BY <1>1, <2>2 DEF MovedRow
  <2> QED
    BY <2>1, <2>2
<1>5. MovedRow(b, c, MovedRow(a, b, row)) = MovedRow(a, c, row)
  <2> DEFINE f == MovedRow(b, c, MovedRow(a, b, row))
             g == MovedRow(a, c, row)
  <2>1. f = [j \in DOMAIN c |-> f[j]] /\ g = [j \in DOMAIN c |-> g[j]]
    BY DEF MovedRow
  <2> QED
    BY <1>4, <2>1
<1> QED
  BY <1>1, <1>3, <1>5 DEF Follows

LEMMA TranscodedIs ==
    ASSUME NEW from \in Shapes, NEW to \in Shapes, Compatible(from, to),
           NEW row, Row(from, row), NEW tokens, Encoded(from, row) = Got(tokens)
    PROVE  LET moved == Transcoded(from, to, tokens)
           IN \/ moved.why = "required"
              \/ Row(to, MovedRow(from, to, row)) /\ \E t : moved = Got(t) /\ Encoded(to, MovedRow(from, to, row)) = Got(t)
<1> DEFINE m == MovedRow(from, to, row)
           parts == [j \in DOMAIN to |->
                IF to[j].id \notin Ids(from) THEN Got(Nil)
                ELSE IF Carried(from, to, row, j) = Nil /\ to[j].required THEN No("required")
                ELSE Got(Carried(from, to, row, j))]
           r == Remapped(from, to, row)
<1>1. Len(to) \in Nat /\ DOMAIN to = 1..Len(to)
  BY ShapeIs
<1>2. Decode(from, tokens) = Got(row)
  <2>1. PICK t : Encoded(from, row) = Got(t) /\ Decode(from, t) = Got(row)
    BY RoundTrip DEF Row
  <2>2. t = tokens
    BY <2>1, Outcomes
  <2> QED
    BY <2>1, <2>2
<1>3. Transcoded(from, to, tokens) = IF r.why # "none" THEN r ELSE Encoded(to, r.x)
  <2>1. Got(row).why = "none" /\ Got(row).x = row
    BY Outcomes
  <2>2. Transcoded(from, to, tokens) =
          IF Got(row).why # "none" THEN Got(row)
          ELSE IF Remapped(from, to, Got(row).x).why # "none" THEN Remapped(from, to, Got(row).x)
          ELSE Encoded(to, Remapped(from, to, Got(row).x).x)
    BY <1>2 DEF Transcoded, Then
  <2> QED
    BY <2>1, <2>2
<1>4. r = All(parts) /\ DOMAIN parts = 1..Len(to)
  BY <1>1 DEF Remapped
<1>5. ASSUME NEW j \in DOMAIN to
      PROVE  \/ parts[j] = Got(m[j])
             \/ parts[j] = No("required") /\ to[j].required /\ m[j] = Nil
  BY DEF MovedRow, Carried
<1>6. m = [j \in DOMAIN to |-> m[j]]
  BY DEF MovedRow
<1>7. ASSUME NEW j \in DOMAIN to PROVE Fit(to[j], m[j]) /\ Poison(to[j], m[j]) = "none"
  <2>1. CASE to[j].id \in Ids(from)
    <3> DEFINE i == Position(from, to[j].id)
    <3>1. i \in DOMAIN from /\ SameType(from[i], to[j]) /\ m[j] = row[i]
      BY <2>1, IdAt DEF Compatible, MovedRow
    <3>2. Fit(from[i], row[i]) /\ Poison(from[i], row[i]) = "none"
      BY <3>1 DEF Row
    <3> HIDE DEF i, m
    <3> QED
      BY <3>1, <3>2, TypeMoves
  <2>2. CASE to[j].id \notin Ids(from)
    <3>1. m[j] = Nil
      BY <2>2 DEF MovedRow
    <3> QED
      BY <3>1 DEF Fit, Poison
  <2> QED
    BY <2>1, <2>2
<1> HIDE DEF parts, m
<1>8. CASE r.why # "none"
  <2>1. PICK j \in DOMAIN to : r.why = parts[j].why
    <3>1. All(parts).why # "none" => \E i \in 1..Len(to) : All(parts).why = parts[i].why
      BY <1>1, <1>4, AllIs
    <3> QED
      BY <1>1, <1>4, <1>8, <3>1
  <2>2. parts[j] # Got(m[j])
    BY <1>8, <2>1, Outcomes
  <2>3. parts[j].why = "required"
    BY <1>5, <2>2, Outcomes
  <2>4. Transcoded(from, to, tokens) = r
    BY <1>3, <1>8
  <2> QED
    BY <2>1, <2>3, <2>4
<1>9. CASE r.why = "none"
  <2>1. (\A j \in 1..Len(to) : parts[j].why = "none") /\ r = Got([j \in 1..Len(to) |-> parts[j].x])
    BY <1>1, <1>4, <1>9, AllIs
  <2>2. \A j \in DOMAIN to : parts[j] = Got(m[j])
    BY <1>1, <1>5, <2>1, Outcomes
  <2>3. [j \in 1..Len(to) |-> parts[j].x] = m
    BY <1>1, <1>6, <2>2, Outcomes
  <2>4. Transcoded(from, to, tokens) = Encoded(to, m)
    BY <1>3, <1>9, <2>1, <2>3, Outcomes
  <2>5. \A j \in DOMAIN to : to[j].required => m[j] # Nil
    <3> SUFFICES ASSUME NEW j \in DOMAIN to, to[j].required, m[j] = Nil PROVE FALSE
      OBVIOUS
    <3>1. parts[j] = No("required")
      <4>1. CASE to[j].id \in Ids(from)
        <5>1. Carried(from, to, row, j) = Nil
          BY <4>1 DEF Carried, MovedRow, m
        <5> QED
          BY <4>1, <5>1 DEF parts
      <4>2. CASE to[j].id \notin Ids(from)
        <5>1. FALSE
          BY <4>2 DEF Compatible
        <5> QED
          BY <5>1
      <4> QED
        BY <4>1, <4>2
    <3> QED
      BY <2>2, <3>1, Outcomes
  <2>6. Row(to, m)
    BY <1>6, <1>7, <2>5 DEF Row
  <2>7. \E t : Encoded(to, m) = Got(t)
    <3> HIDE DEF Row
    <3>1. \A j \in DOMAIN to : Fit(to[j], m[j]) /\ (to[j].required => m[j] # Nil)
      BY <1>7, <2>5
    <3> QED
      BY <1>6, <3>1, RoundTrip
  <2> QED
    BY <2>4, <2>6, <2>7 DEF m
<1> QED
  BY <1>8, <1>9

HeldOf(column, value) == IF value = Nil THEN Nil ELSE HeldAs(column.kind, value.v)
InFile(s, row) == [j \in DOMAIN s |-> HeldOf(s[j], row[j])]

LEMMA BuiltIs ==
    ASSUME NEW s \in Shapes, NEW row, Row(s, row)
    PROVE  StructValues(s, row) = Got(row) /\ ColumnValues(s, row) = Got(row) /\ Built(s, row) = Got(InFile(s, row))
<1>1. Len(s) \in Nat /\ DOMAIN s = 1..Len(s)
  BY ShapeIs
<1>2. ASSUME NEW j \in DOMAIN s
      PROVE  /\ Typed(s, row, j) = Got(row[j])
             /\ ~(row[j] = Nil /\ s[j].required)
             /\ Adapted(row[j], Stored(s[j].kind)) = Got(HeldOf(s[j], row[j]))
  <2>1. Fit(s[j], row[j]) /\ (s[j].required => row[j] # Nil) /\ s[j].kind \in Kinds
    BY ShapeIs, ColumnIs DEF Row
  <2>2. CASE row[j] = Nil
    BY <2>1, <2>2 DEF Typed, Adapted, HeldOf
  <2>3. CASE row[j] # Nil
    <3>1. PICK v : row[j] = Go(GoType(s[j].kind), v) /\ Ranged(s[j].kind, v)
      BY <2>1, <2>3 DEF Fit
    <3>2. row[j].go = GoType(s[j].kind) /\ row[j].v = v
      BY <3>1 DEF Go
    <3>3. Adapted(row[j], Stored(s[j].kind)) = Got(HeldAs(s[j].kind, v))
      BY <2>1, <3>1, AdaptedIs
    <3> QED
      BY <2>3, <3>2, <3>3 DEF Typed, HeldOf
  <2> QED
    BY <2>2, <2>3
<1>3. \A x : Got(x).why = "none" /\ Got(x).x = x
  BY Outcomes
<1>4. row = [j \in 1..Len(s) |-> row[j]]
  BY <1>1 DEF Row
<1>5. ASSUME NEW parts, DOMAIN parts = 1..Len(s), NEW out, \A j \in 1..Len(s) : parts[j] = Got(out[j])
      PROVE  All(parts) = Got([j \in 1..Len(s) |-> out[j]])
  <2>1. \A j \in 1..Len(s) : parts[j].why = "none" /\ parts[j].x = out[j]
    BY <1>3, <1>5
  <2>2. [j \in 1..Len(s) |-> parts[j].x] = [j \in 1..Len(s) |-> out[j]]
    BY <2>1
  <2> QED
    BY <1>1, <1>5, <2>1, <2>2, AllIs
<1>6. StructValues(s, row) = Got(row)
  <2> DEFINE p == [j \in DOMAIN s |-> IF row[j] = Nil /\ s[j].required THEN No("value") ELSE Typed(s, row, j)]
  <2>1. StructValues(s, row) = All(p) /\ DOMAIN p = 1..Len(s) /\ \A j \in 1..Len(s) : p[j] = Got(row[j])
    BY <1>1, <1>2 DEF StructValues
  <2> HIDE DEF p
  <2> QED
    BY <1>4, <1>5, <2>1
<1>7. ColumnValues(s, row) = Got(row)
  <2> DEFINE p == [j \in DOMAIN s |-> Typed(s, row, j)]
  <2>1. ColumnValues(s, row) = All(p) /\ DOMAIN p = 1..Len(s) /\ \A j \in 1..Len(s) : p[j] = Got(row[j])
    BY <1>1, <1>2 DEF ColumnValues
  <2> HIDE DEF p
  <2> QED
    BY <1>4, <1>5, <2>1
<1>8. Built(s, row) = Got(InFile(s, row))
  <2> DEFINE p == [j \in DOMAIN s |-> Adapted(row[j], Stored(s[j].kind))]
             f == InFile(s, row)
  <2>1. Built(s, row) = All(p) /\ DOMAIN p = 1..Len(s)
    BY <1>1 DEF Built
  <2>2. f = [j \in 1..Len(s) |-> f[j]] /\ \A j \in 1..Len(s) : f[j] = HeldOf(s[j], row[j])
    BY <1>1 DEF InFile
  <2>3. \A j \in 1..Len(s) : p[j] = Got(f[j])
    BY <1>1, <1>2, <2>2
  <2> HIDE DEF p, f
  <2>4. All(p) = Got(f)
    BY <1>5, <2>1, <2>2, <2>3
  <2> QED
    BY <2>1, <2>4 DEF f
<1> QED
  BY <1>6, <1>7, <1>8
-----------------------------------------------------------------------------
(***************************************************************************)
(* A record's life.                                                        *)
(***************************************************************************)

\* The row a record was bound to, wherever it is now.
BoundRow(row) ==
    /\ Row(opened, row) /\ Verdict(offer, opened).why = "none"
    /\ Encoded(opened, row) = Verdict(offer, opened)
    /\ \A i \in DOMAIN opened : Tells(opened[i], offer.door, SentFor(offer, opened, i), row[i])
    /\ Follows(opened, shape)
    /\ Row(shape, MovedRow(opened, shape, row))
    /\ Encoded(shape, MovedRow(opened, shape, row)) = Got(payload)
    /\ stage = "built" => file = InFile(shape, MovedRow(opened, shape, row))

RecordInv ==
    /\ opened \in Openings /\ shape \in Shapes /\ opened \in Shapes
    /\ stage \in {"none", "staged", "built", "refused", "failed"}
    /\ stage = "none" => shape = opened /\ offer = NoOffer
    /\ stage # "none" => offer \in Sent(opened)
    /\ stage = "refused" => shape = opened /\ Verdict(offer, opened).why # "none"
    /\ stage = "failed" => why = "required"
    /\ stage \in {"staged", "built"} => \E row : BoundRow(row)

LEMMA FollowsSelf ==
    ASSUME NEW s \in Shapes, NEW row, Row(s, row)
    PROVE  Follows(s, s) /\ MovedRow(s, s, row) = row
<1>1. Follows(s, s)
  BY IdAt DEF Follows, SameType
<1>2. MovedRow(s, s, row) = row
  <2>1. \A j \in DOMAIN s : (IF s[j].id \in Ids(s) THEN row[Position(s, s[j].id)] ELSE Nil) = row[j]
    BY IdAt
  <2>2. MovedRow(s, s, row) = [j \in DOMAIN s |-> row[j]]
    BY <2>1 DEF MovedRow
  <2> QED
    BY <2>2 DEF Row
<1> QED
  BY <1>1, <1>2

LEMMA RecordOffer ==
    ASSUME RecordInv, Offer
    PROVE  RecordInv'
<1>1. stage = "none" /\ shape = opened /\ opened \in Openings /\ opened \in Shapes
  BY DEF Offer, RecordInv
<1>2. PICK o \in Sent(opened) :
        /\ offer' = o
        /\ IF Verdict(o, shape).why # "none"
           THEN stage' = "refused" /\ why' = Verdict(o, shape).why /\ UNCHANGED payload
           ELSE stage' = "staged" /\ payload' = Verdict(o, shape).x /\ UNCHANGED why
  BY DEF Offer
<1>3. opened' = opened /\ shape' = shape /\ file' = file
  BY DEF Offer
<1>4. CASE Verdict(o, opened).why # "none"
  <2>1. stage' = "refused"
    BY <1>1, <1>2, <1>4
  <2>2. Verdict(offer, opened)' = Verdict(o, opened)
    BY <1>2, <1>3
  <2> QED
    BY <1>1, <1>2, <1>3, <1>4, <2>1, <2>2 DEF RecordInv
<1>5. CASE Verdict(o, opened).why = "none"
  <2>1. stage' = "staged" /\ payload' = Verdict(o, opened).x
    BY <1>1, <1>2, <1>5
  <2>2. PICK row : /\ Row(opened, row) /\ Encoded(opened, row) = Verdict(o, opened)
                   /\ \A j \in DOMAIN opened : Tells(opened[j], o.door, SentFor(o, opened, j), row[j])
    BY <1>1, <1>5, VerdictIs
  <2>3. Follows(opened, opened) /\ MovedRow(opened, opened, row) = row
    BY <1>1, <2>2, FollowsSelf
  <2>4. PICK t : Encoded(opened, row) = Got(t)
    BY <1>1, <2>2, RoundTrip DEF Row
  <2>5. Encoded(opened, row) = Got(Verdict(o, opened).x)
    BY <2>2, <2>4, Outcomes
  <2>6. BoundRow(row)'
    BY <1>1, <1>2, <1>3, <1>5, <2>1, <2>2, <2>3, <2>5 DEF BoundRow
  <2>7. \E r : BoundRow(r)'
    BY <2>6
  <2> QED
    BY <1>1, <1>2, <1>3, <2>1, <2>7 DEF RecordInv
<1> QED
  BY <1>4, <1>5

\* The payload is decoded to the row it was bound to, moved.
LEMMA DecodedBack ==
    ASSUME NEW s \in Shapes, NEW row, Row(s, row), NEW tokens, Encoded(s, row) = Got(tokens)
    PROVE  Decode(s, tokens) = Got(row)
<1>1. PICK t : Encoded(s, row) = Got(t) /\ Decode(s, t) = Got(row)
  BY RoundTrip DEF Row
<1>2. t = tokens
  BY <1>1, Outcomes
<1> QED
  BY <1>1, <1>2

LEMMA RecordRecode ==
    ASSUME RecordInv, Recode
    PROVE  RecordInv'
<1>1. stage = "staged" /\ shape \in Shapes /\ opened \in Openings /\ opened \in Shapes /\ offer \in Sent(opened)
  BY DEF Recode, RecordInv
<1>2. PICK row : BoundRow(row)
  BY <1>1 DEF RecordInv
<1>3. opened' = opened /\ offer' = offer /\ file' = file
  BY DEF Recode
<1>4. PICK to \in Shapes :
        /\ Compatible(shape, to)
        /\ LET moved == Transcoded(shape, to, payload) IN
           IF moved.why # "none" THEN stage' = "failed" /\ why' = moved.why /\ UNCHANGED <<shape, payload>>
           ELSE shape' = to /\ payload' = moved.x /\ UNCHANGED <<stage, why>>
  BY DEF Recode
<1> DEFINE here == MovedRow(opened, shape, row)
           there == MovedRow(opened, to, row)
           moved == Transcoded(shape, to, payload)
<1>5. Follows(opened, shape) /\ Row(shape, here) /\ Encoded(shape, here) = Got(payload)
  BY <1>2 DEF BoundRow
<1>6. Follows(opened, to) /\ MovedRow(shape, to, here) = there
  BY <1>1, <1>4, <1>5, FollowsOn
<1>7. \/ moved.why = "required"
      \/ Row(to, there) /\ \E t : moved = Got(t) /\ Encoded(to, there) = Got(t)
  <2> HIDE DEF here, there
  <2>1. \/ moved.why = "required"
        \/ Row(to, MovedRow(shape, to, here))
           /\ \E t : moved = Got(t) /\ Encoded(to, MovedRow(shape, to, here)) = Got(t)
    BY <1>1, <1>4, <1>5, TranscodedIs
  <2> QED
    BY <1>6, <2>1
<1> HIDE DEF moved, there, here
<1>8. IF moved.why # "none" THEN stage' = "failed" /\ why' = moved.why /\ UNCHANGED <<shape, payload>>
      ELSE shape' = to /\ payload' = moved.x /\ UNCHANGED <<stage, why>>
  BY <1>4 DEF moved
<1>9. CASE moved.why = "required"
  <2>1. stage' = "failed" /\ why' = "required" /\ shape' = shape
    BY <1>8, <1>9
  <2> QED
    BY <1>1, <1>3, <2>1 DEF RecordInv
<1>10. CASE moved.why # "required"
  <2>1. PICK t : moved = Got(t) /\ Encoded(to, there) = Got(t) /\ Row(to, there)
    BY <1>7, <1>10
  <2>2. moved.why = "none" /\ moved.x = t
    BY <2>1, Outcomes
  <2>3. shape' = to /\ payload' = t /\ stage' = "staged"
    BY <1>1, <1>8, <2>2
  <2>4. BoundRow(row)'
    BY <1>2, <1>3, <1>6, <2>1, <2>3 DEF BoundRow, there
  <2>5. \E r : BoundRow(r)'
    BY <2>4
  <2> QED
    BY <1>1, <1>3, <2>3, <2>5 DEF RecordInv
<1> QED
  BY <1>9, <1>10

LEMMA RecordBuild ==
    ASSUME RecordInv, Build
    PROVE  RecordInv'
<1>1. stage = "staged" /\ shape \in Shapes /\ opened \in Openings /\ opened \in Shapes /\ offer \in Sent(opened)
  BY DEF Build, RecordInv
<1>2. PICK row : BoundRow(row)
  BY <1>1 DEF RecordInv
<1>3. opened' = opened /\ offer' = offer /\ shape' = shape /\ payload' = payload
  BY DEF Build
<1> DEFINE here == MovedRow(opened, shape, row)
           Fields(x) == StructValues(shape, x)
           Columns(x) == ColumnValues(shape, x)
           Cells(values) == Built(shape, values)
           byStruct == Then(Then(Decode(shape, payload), Fields), Cells)
           byColumn == Then(Then(Decode(shape, payload), Columns), Cells)
<1>4. Row(shape, here) /\ Encoded(shape, here) = Got(payload)
  BY <1>2 DEF BoundRow
<1>5. PICK built \in {byStruct, byColumn} :
        IF built.why # "none" THEN stage' = "failed" /\ why' = built.why /\ UNCHANGED file
        ELSE stage' = "built" /\ file' = built.x /\ UNCHANGED why
  BY DEF Build
<1> HIDE DEF here
<1>6. Decode(shape, payload) = Got(here)
  BY <1>1, <1>4, DecodedBack
<1>7. /\ StructValues(shape, here) = Got(here) /\ ColumnValues(shape, here) = Got(here)
      /\ Built(shape, here) = Got(InFile(shape, here))
  BY <1>1, <1>4, BuiltIs
<1>8. Got(here).why = "none" /\ Got(here).x = here
  BY Outcomes
<1>9. byStruct = Built(shape, here) /\ byColumn = Built(shape, here)
  BY <1>6, <1>7, <1>8 DEF Then
<1> HIDE DEF byStruct, byColumn
<1>10. built.why = "none" /\ built.x = InFile(shape, here)
  <2>1. built = Got(InFile(shape, here))
    BY <1>5, <1>7, <1>9
  <2> QED
    BY <2>1, Outcomes
<1>11. stage' = "built" /\ file' = InFile(shape, here)
  BY <1>5, <1>10
<1>12. BoundRow(row)'
  BY <1>2, <1>3, <1>11 DEF BoundRow, here
<1>13. \E r : BoundRow(r)'
  BY <1>12
<1> QED
  BY <1>1, <1>3, <1>11, <1>13 DEF RecordInv

\* A record that was accepted (Insert, InsertJSON, InsertCBOR) is, through every
\* re-encoding (Transcode) and in the file it is built into, the row it was bound
\* to at the door, moved by field id and encoded in the shape it is in.
THEOREM RecordInvariant == RecordSpec => []RecordInv
<1>1. RecordInit => RecordInv
  BY RecordsAssumption DEF RecordInit, RecordInv
<1>2. RecordInv /\ [RecordNext]_record => RecordInv'
  <2> SUFFICES ASSUME RecordInv, [RecordNext]_record PROVE RecordInv'
    OBVIOUS
  <2>1. CASE Offer
    BY <2>1, RecordOffer
  <2>2. CASE Recode
    BY <2>2, RecordRecode
  <2>3. CASE Build
    BY <2>3, RecordBuild
  <2>4. CASE UNCHANGED record
    <3>1. opened' = opened /\ offer' = offer /\ stage' = stage /\ why' = why /\ shape' = shape
          /\ payload' = payload /\ file' = file
      BY <2>4 DEF record
    <3>2. ASSUME NEW row, BoundRow(row) PROVE BoundRow(row)'
      BY <3>1, <3>2 DEF BoundRow
    <3> QED
      BY <3>1, <3>2 DEF RecordInv
  <2> QED
    BY <2>1, <2>2, <2>3, <2>4 DEF RecordNext
<1> QED
  BY <1>1, <1>2, PTL DEF RecordSpec

LEMMA StoredIs ==
    ASSUME RecordInv
    PROVE  AcceptedIsStored
<1>1. stage = "failed" => why = "required"
  BY DEF RecordInv
<1>2. ASSUME stage = "built"
      PROVE  /\ \A j \in DOMAIN shape : file[j] # Nil =>
                  /\ shape[j].kind = "decimal" => Abs(file[j].v) < TwoTo(shape[j].precision)
                  /\ shape[j].kind = "string" => Contents[file[j].v].utf8
                  /\ shape[j].kind \in {"string", "binary"} => Contents[file[j].v].len <= MaxValueLen
             /\ \A i \in DOMAIN opened :
                  ~Loses(offer.door, opened[i], Sender(i)) => FoundAt(i) = Meant(offer.door, opened[i], Sender(i))
             /\ \A j \in DOMAIN shape : shape[j].id \notin Ids(opened) => file[j] = Nil
  <2>1. shape \in Shapes /\ opened \in Shapes
    BY DEF RecordInv
  <2>2. PICK row : BoundRow(row)
    BY <1>2 DEF RecordInv
  <2> DEFINE here == MovedRow(opened, shape, row)
  <2>3. Row(shape, here) /\ file = InFile(shape, here) /\ Follows(opened, shape)
    BY <1>2, <2>2 DEF BoundRow
  <2>4. \A j \in DOMAIN shape :
          here[j] = IF shape[j].id \in Ids(opened) THEN row[Position(opened, shape[j].id)] ELSE Nil
    BY DEF MovedRow
  <2> HIDE DEF here
  <2>5. \A j \in DOMAIN shape : file[j] = HeldOf(shape[j], here[j])
    BY <2>3 DEF InFile
  <2>6. \A go, x : Go(go, x).go = go /\ Go(go, x).v = x
    BY DEF Go
  <2>7. \A column \in Column : \A v : Go(GoType(column.kind), v) # Nil
    BY DEF Go, Nil, GoType
  <2>8. ASSUME NEW j \in DOMAIN shape, file[j] # Nil
        PROVE  /\ shape[j].kind = "decimal" => Abs(file[j].v) < TwoTo(shape[j].precision)
               /\ shape[j].kind = "string" => Contents[file[j].v].utf8
               /\ shape[j].kind \in {"string", "binary"} => Contents[file[j].v].len <= MaxValueLen
    <3> DEFINE k == shape[j].kind
    <3>1. Fit(shape[j], here[j]) /\ Poison(shape[j], here[j]) = "none"
      BY <2>3 DEF Row
    <3>2. here[j] # Nil
      BY <2>5, <2>8 DEF HeldOf
    <3>3. PICK v : here[j] = Go(GoType(k), v) /\ Ranged(k, v)
      BY <3>1, <3>2 DEF Fit
    <3>4. here[j].v = v /\ file[j] = HeldAs(k, v)
      BY <2>5, <2>6, <3>2, <3>3 DEF HeldOf
    <3>5. k # "timestamptz" => file[j].v = v
      BY <2>6, <3>4 DEF HeldAs
    <3>6. /\ k = "string" => Contents[v].utf8
          /\ k \in {"string", "binary"} => ~(Contents[v].len > MaxValueLen)
          /\ k = "decimal" => ~(Abs(v) >= TwoTo(shape[j].precision))
      <4>1. k = "string" => Contents[v].utf8
        BY <3>1, <3>2, <3>4 DEF Poison
      <4>2. k \in {"string", "binary"} => ~(Contents[v].len > MaxValueLen)
        BY <3>1, <3>2, <3>4 DEF Poison
      <4>3. k = "decimal" => ~(Abs(v) >= TwoTo(shape[j].precision))
        BY <3>1, <3>2, <3>4 DEF Poison
      <4> QED
        BY <4>1, <4>2, <4>3
    <3>7. k = "decimal" => Abs(v) \in Nat /\ TwoTo(shape[j].precision) \in Nat
      <4>1. k = "decimal" => v \in Int
        BY <3>3 DEF Ranged, Words
      <4>2. shape[j].precision \in Nat
        BY <2>1, ShapeIs, ColumnIs
      <4> QED
        BY <4>1, <4>2, Doubling DEF Abs
    <3>8. k \in {"string", "binary"} => Contents[v].len \in Nat /\ MaxValueLen \in Nat
      BY <3>3, ContentsAssumption, RecordsAssumption DEF Ranged
    <3> QED
      BY <3>5, <3>6, <3>7, <3>8
  <2>9. ASSUME NEW i \in DOMAIN opened, ~Loses(offer.door, opened[i], Sender(i))
        PROVE  FoundAt(i) = Meant(offer.door, opened[i], Sender(i))
    <3> DEFINE p == Position(shape, opened[i].id)
               w == Sender(i)
    <3>1. w = SentFor(offer, opened, i)
      BY DEF Sender, SentFor
    <3>2. opened[i].id \in Ids(opened) /\ opened[i].id \in Ids(shape) /\ Position(opened, opened[i].id) = i
      BY <2>1, <2>3, IdAt DEF Follows
    <3>3. p \in DOMAIN shape /\ shape[p].id = opened[i].id
      BY <2>1, <3>2, IdAt
    <3> HIDE DEF p, w
    <3>4. here[p] = row[i]
      BY <2>4, <3>2, <3>3
    <3>5. shape[p].kind = opened[i].kind
      BY <2>3, <3>2, <3>3 DEF Follows, SameType
    <3>6. FoundAt(i) = HeldOf(opened[i], row[i])
      BY <2>5, <3>3, <3>4, <3>5 DEF FoundAt, p, HeldOf
    <3>7. Tells(opened[i], offer.door, w, row[i])
      BY <2>2, <3>1 DEF BoundRow
    <3>8. CASE w.is = "null"
      BY <3>6, <3>7, <3>8 DEF Tells, HeldOf, Meant, w
    <3>9. CASE w.is # "null"
      <4>1. PICK v : /\ row[i] = Go(GoType(opened[i].kind), v)
                     /\ HeldAs(opened[i].kind, v) = Meant(offer.door, opened[i], w)
        BY <2>9, <3>7, <3>9 DEF Tells, w
      <4>2. row[i] # Nil /\ row[i].v = v
        BY <2>1, <2>6, <2>7, <4>1, ShapeIs
      <4> QED
        BY <3>6, <4>1, <4>2 DEF HeldOf, w
    <3> QED
      BY <3>8, <3>9
  <2>10. ASSUME NEW j \in DOMAIN shape, shape[j].id \notin Ids(opened) PROVE file[j] = Nil
    BY <2>4, <2>5, <2>10 DEF HeldOf
  <2> QED
    BY <2>8, <2>9, <2>10
<1>3. AcceptedIsStorable
  BY <1>1, <1>2 DEF AcceptedIsStorable
<1>4. StoredAsWritten
  BY <1>2 DEF StoredAsWritten
<1> QED
  BY <1>3, <1>4 DEF AcceptedIsStored

\* checkPoison and the coercion table, the whole path from Bind to AdaptColumn: a
\* record that a door accepts is never one that a later step refuses, but for a
\* null where a newer shape requires a value, and what is in the file under each
\* column's id is what the producer wrote for it, but for what Loses names.
THEOREM AcceptedStored == RecordSpec => []AcceptedIsStored
<1>1. RecordInv => AcceptedIsStored
  BY StoredIs
<1> QED
  BY <1>1, RecordInvariant, PTL

-----------------------------------------------------------------------------
(***************************************************************************)
(* The same record through another door.                                   *)
(***************************************************************************)

\* What becomes of one column's value at a door.
Out(door, column, w) ==
    LET r == From(door, w)
    IN IF r.why # "none" THEN r
       ELSE IF r.x.go # "nil" THEN Coerced(column, r.x)
       ELSE IF ~column.required THEN Got(Nil) ELSE No("null")
Alike(a, b) == a = b \/ (a.why # "none" /\ b.why # "none")

LEMMA CoercedBy ==
    ASSUME NEW column \in Column, NEW a, NEW b
    PROVE  /\ ReadAs(column, a) = ReadAs(column, b) => Coerced(column, a) = Coerced(column, b)
           /\ ReadAs(column, a).why # "none" => Coerced(column, a).why # "none"
<1> DEFINE Fitted(n) == IF column.kind = "int" /\ ~InBits(n, IntBits) THEN No("range")
                      ELSE Got(Go(GoType(column.kind), IF column.kind = "float" THEN Narrowed(n) ELSE n))
<1>1. ASSUME NEW r
      PROVE  Coerced(column, r) = IF ReadAs(column, r).why # "none" THEN ReadAs(column, r) ELSE Fitted(ReadAs(column, r).x)
  BY DEF Coerced, ReadAs, Then
<1> HIDE DEF Fitted
<1> QED
  BY <1>1

LEMMA TwinIs ==
    ASSUME NEW column \in Column, NEW w, Wired(w), FromDoor("cbor", w), NEW f \in Twins(column, w)
    PROVE  Alike(Out("cbor", column, w), Out("json", column, f))
<1> DEFINE k == column.kind
           n == w.t.n
           c == From("cbor", w)
           j == From("json", f)
<1>1. k \in Kinds /\ column.scale \in Nat /\ w.is \in CBORTypes /\ w.t \in Numerals /\ n \in Int
  BY ColumnIs, UnitIs DEF FromDoor, Wired
<1>2. c = FromCBOR(w) /\ j = FromJSON(f)
  BY DEF From
<1>4. \A t : Digits(t).go = "Number" /\ Digits(t).t = t
  BY DEF Digits
<1>5. \A go, v : Plain(go, v).go = go /\ Plain(go, v).v = v
  BY DEF Plain
<1>6. /\ \A x : Got(x).why = "none" /\ Got(x).x = x
      /\ \A x : No(x).why = x
  BY Outcomes
<1>7. \A a, b : Got(a) = Got(b) => a = b
  BY Outcomes
\* Equal raw values, or raw values that are read alike.
<1>8. ASSUME c = j PROVE Alike(Out("cbor", column, w), Out("json", column, f))
  BY <1>8 DEF Alike, Out
<1>9. ASSUME NEW a, NEW b, c = Got(a), j = Got(b), a.go # "nil", b.go # "nil", ReadAs(column, a) = ReadAs(column, b)
      PROVE  Alike(Out("cbor", column, w), Out("json", column, f))
  <2>1. Out("cbor", column, w) = Coerced(column, a) /\ Out("json", column, f) = Coerced(column, b)
    BY <1>6, <1>9 DEF Out
  <2> QED
    BY <1>9, <2>1, CoercedBy DEF Alike
<1>10. ASSUME NEW b, c.why # "none", j = Got(b), b.go # "nil", ReadAs(column, b).why # "none"
       PROVE  Alike(Out("cbor", column, w), Out("json", column, f))
  <2>1. Out("cbor", column, w) = c /\ Out("json", column, f) = Coerced(column, b)
    BY <1>6, <1>10 DEF Out
  <2> QED
    BY <1>10, <2>1, CoercedBy DEF Alike
<1>11. CASE w.is = "integer"
  <2> DEFINE t == Numeral(n, 0, FALSE)
  <2>1. f = Written(t) /\ ~(n < -TwoTo(WordBits - 1) /\ k \in {"float", "double"})
    BY <1>11 DEF Twins
  <2>2. j = Got(Digits(t))
    BY <1>2, <2>1 DEF FromJSON, Written
  <2>3. t.n = n /\ t.frac = 0 /\ ~t.exp /\ ParsesAsInt(t)
    BY DEF Numeral, ParsesAsInt
  <2>4. c = IF n < -TwoTo(WordBits - 1) THEN No("type") ELSE Got(Digits(t))
    BY <1>2, <1>11 DEF FromCBOR, CBORInteger
  <2> HIDE DEF t
  <2>5. CASE ~(n < -TwoTo(WordBits - 1))
    BY <1>8, <2>2, <2>4, <2>5
  <2>6. CASE n < -TwoTo(WordBits - 1)
    <3> DEFINE b == Digits(t)
    <3>1. c.why # "none" /\ k \notin {"float", "double"}
      BY <1>6, <2>1, <2>4, <2>6
    <3>2. b.go = "Number" /\ b.t = t
      BY <1>4
    <3> HIDE DEF b
    <3>3. Integer(b) = No("range")
      <4>1. ~InBits(n, WordBits)
        BY <1>1, <2>6, RecordsAssumption, Doubling DEF InBits
      <4> QED
        BY <2>3, <3>2, <4>1 DEF Integer
    <3>4. Decimal(b, column.scale) = No("range")
      <4>1. Decimal(b, column.scale) = Scaled(t, column.scale)
        BY <3>2 DEF Decimal
      <4> DEFINE u == t.n * TwoTo(column.scale - t.frac)
                 h == TwoTo(WordBits - 1)
                 m == TwoTo(column.scale)
      <4>2. h \in Nat \ {0} /\ m \in Nat \ {0} /\ u = n * m
        <5>1. WordBits - 1 \in Nat
          BY RecordsAssumption
        <5>2. column.scale - t.frac = column.scale
          BY <1>1, <2>3
        <5> QED
          BY <1>1, <2>3, <5>1, <5>2, Doubling
      <4>3. n < -h
        BY <2>6
      <4> HIDE DEF u, h, m
      <4>4. n * m <= n
        BY <1>1, <4>2, <4>3
      <4>5. ~(Abs(u) < h)
        BY <1>1, <4>2, <4>3, <4>4 DEF Abs
      <4>6. Scaled(t, column.scale) = No("range")
        BY <1>1, <2>3, <4>5 DEF Scaled, u, h
      <4> QED
        BY <4>1, <4>6
    <3>5. Timestamp(b) = No("range")
      BY <3>2, <3>3 DEF Timestamp
    <3>6. Exactly("string", b) = No("type") /\ Exactly("bool", b) = No("type") /\ Binary(b) = No("type")
      BY <3>2 DEF Exactly, Binary
    <3>7. ReadAs(column, b) \in {No("range"), No("type")}
      BY <1>1, <3>1, <3>3, <3>4, <3>5, <3>6 DEF ReadAs, Kinds, GoType
    <3>8. ReadAs(column, b).why # "none" /\ b.go # "nil"
      BY <1>6, <3>2, <3>7
    <3> QED
      BY <1>10, <2>2, <3>1, <3>8 DEF b
  <2> QED
    BY <2>5, <2>6
<1>12. CASE w.is = "float64"
  <2> DEFINE t == Numeral(n, MaxFrac, FALSE)
             a == Plain("float64", n)
             b == Digits(t)
  <2>1. f = Written(t) /\ Finite(n) /\ k # "decimal"
    BY <1>12 DEF Twins
  <2>2. j = Got(b)
    BY <1>2, <2>1 DEF FromJSON, Written
  <2>3. c = Got(a)
    BY <1>2, <1>12 DEF FromCBOR
  <2>4. ~ParsesAsInt(t) /\ UnitsOf(t) = n
    <3>1. t.n = n /\ t.frac = MaxFrac
      BY DEF Numeral
    <3>2. MaxFrac # 0 /\ MaxFrac - MaxFrac = 0
      BY RecordsAssumption
    <3>3. TwoTo(MaxFrac - t.frac) = 1
      BY <3>1, <3>2, Doubling
    <3>4. UnitsOf(t) = n * 1
      BY <3>1, <3>3 DEF UnitsOf
    <3>5. ~ParsesAsInt(t)
      BY <3>1, <3>2 DEF ParsesAsInt
    <3>6. \A m \in Int : m * 1 = m
      OBVIOUS
    <3>7. UnitsOf(t) = n
      BY <1>1, <3>4, <3>6, Zenon
    <3> QED
      BY <3>5, <3>7
  <2>5. Rounded(n, MantissaBits) = n
    BY <1>12, <2>1 DEF FromDoor
  <2>6. DoubleOf(t) = n
    BY <2>4, <2>5 DEF DoubleOf
  <2>7. a.go = "float64" /\ a.v = n /\ b.go = "Number" /\ b.t = t
    BY <1>4, <1>5
  <2> HIDE DEF a, b, t
  <2>8. Integer(a) = Integer(b)
    BY <2>1, <2>4, <2>6, <2>7 DEF Integer
  <2>9. Float(a) = Float(b)
    BY <2>1, <2>6, <2>7 DEF Float
  <2>10. Timestamp(a) = Timestamp(b)
    BY <2>7, <2>8 DEF Timestamp
  <2>11. /\ Exactly("string", a) = Exactly("string", b) /\ Exactly("bool", a) = Exactly("bool", b)
         /\ Binary(a) = Binary(b)
    BY <2>7 DEF Exactly, Binary
  <2>12. ReadAs(column, a) = ReadAs(column, b)
    BY <1>1, <2>1, <2>8, <2>9, <2>10, <2>11 DEF ReadAs, Kinds, GoType
  <2> QED
    BY <1>9, <2>2, <2>3, <2>7, <2>12
<1>13. CASE w.is = "bytes"
  <2>1. k = "binary" /\ \E x \in DOMAIN Contents : Contents[x].base64 = n /\ f = Wire("string", x)
    BY <1>13 DEF Twins
  <2>2. PICK x \in DOMAIN Contents : Contents[x].base64 = n /\ f = Wire("string", x)
    BY <2>1
  <2>3. n \in DOMAIN Contents
    BY <1>13 DEF Wired, Sendable
  <2>4. n # 0
    BY <2>2, <2>3, ContentsAssumption
  <2>5. Contents[x].replaced = x
    BY <2>2, <2>4, ContentsAssumption DEF Reads
  <2> DEFINE a == Plain("bytes", n)
             b == Plain("string", x)
  <2>6. j = Got(b)
    <3>1. f.is = "string" /\ f.t.n = x
      BY <2>2 DEF Wire, Numeral
    <3> QED
      BY <1>2, <2>5, <3>1 DEF FromJSON
  <2>7. c = Got(a)
    BY <1>2, <1>13 DEF FromCBOR
  <2>8. a.go = "bytes" /\ a.v = n /\ b.go = "string" /\ b.v = x
    BY <1>5
  <2> HIDE DEF a, b
  <2>9. Binary(a) = Got(n) /\ Binary(b) = Got(n)
    BY <2>2, <2>4, <2>8 DEF Binary, Exactly
  <2>10. ReadAs(column, a) = ReadAs(column, b)
    BY <2>1, <2>9 DEF ReadAs
  <2> QED
    BY <1>9, <2>6, <2>7, <2>8, <2>10
<1>14. CASE w.is = "string"
  <2>1. f = w /\ Contents[n].utf8 /\ n \in DOMAIN Contents
    BY <1>14 DEF Twins, Wired, Sendable
  <2>2. Contents[n].replaced = n
    BY <2>1, ContentsAssumption
  <2>3. c = Got(Plain("string", n)) /\ j = Got(Plain("string", n))
    BY <1>2, <1>14, <2>1, <2>2 DEF FromCBOR, FromJSON
  <2> QED
    BY <1>8, <2>3
<1>15. CASE w.is \in {"null", "bool"}
  <2>1. f = w
    BY <1>15 DEF Twins
  <2>2. c = j
    BY <1>2, <1>15, <2>1 DEF FromCBOR, FromJSON
  <2> QED
    BY <1>8, <2>2
<1>16. CASE w.is = "array"
  <2> DEFINE b == Plain("array", n)
  <2>1. f = w
    BY <1>16 DEF Twins
  <2>2. c = No("type") /\ j = Got(b)
    BY <1>2, <1>16, <2>1 DEF FromCBOR, FromJSON
  <2>3. b.go = "array"
    BY <1>5
  <2> HIDE DEF b
  <2>4. Integer(b) = No("type") /\ Float(b) = No("type") /\ Decimal(b, column.scale) = No("type")
    BY <2>3 DEF Integer, Float, Decimal
  <2>5. Timestamp(b) = No("type") /\ Binary(b) = No("type")
    BY <2>3, <2>4 DEF Timestamp, Binary, Exactly
  <2>6. Exactly("string", b) = No("type") /\ Exactly("bool", b) = No("type")
    BY <2>3 DEF Exactly
  <2>7. ReadAs(column, b) = No("type")
    BY <1>1, <2>4, <2>5, <2>6 DEF ReadAs, Kinds, GoType
  <2>8. c.why # "none" /\ ReadAs(column, b).why # "none"
    BY <1>6, <2>2, <2>7
  <2> QED
    BY <1>10, <2>2, <2>3, <2>8
<1>17. CASE w.is \in {"tag", "undefined"}
  BY <1>17 DEF Twins
<1> QED
  BY <1>1, <1>11, <1>12, <1>13, <1>14, <1>15, <1>16, <1>17 DEF CBORTypes

\* A record with a field for every column, in the columns' order: what becomes
\* of it is what becomes of each.
Turns(s, o, out) ==
    LET Encode(row) == Encoded(s, row)
    IN /\ o.body # "map" => Verdict(o, s).why # "none"
       /\ (\E j \in DOMAIN s : out[j].why # "none") => Verdict(o, s).why # "none"
       /\ (o.body = "map" /\ \A j \in DOMAIN s : out[j].why = "none")
             => Verdict(o, s) = Then(Unpoisoned([j \in DOMAIN s |-> out[j].x], s), Encode)

LEMMA VerdictBy ==
    ASSUME NEW s \in Shapes, NEW o, o.door \in {"json", "cbor"},
           DOMAIN o.fields = DOMAIN s, DOMAIN o.names = DOMAIN s, \A i \in DOMAIN s : o.names[i] = s[i].name
    PROVE  Turns(s, o, [j \in DOMAIN s |-> Out(o.door, s[j], o.fields[j])])
<1> DEFINE out == [j \in DOMAIN s |-> Out(o.door, s[j], o.fields[j])]
           Bind(fields) == Bound(o.names, fields, s)
           Check(row) == Unpoisoned(row, s)
           Encode(row) == Encoded(s, row)
           d == Decoded(o)
           b == Then(d, Bind)
           f == [i \in DOMAIN o.fields |-> IF o.door = "json" THEN FromJSON(o.fields[i]) ELSE FromCBOR(o.fields[i])]
<1>1. Len(s) \in Nat /\ DOMAIN s = 1..Len(s)
  BY ShapeIs
<1>2. /\ Verdict(o, s) = Then(Then(b, Check), Encode)
      /\ b = IF d.why # "none" THEN d ELSE Bound(o.names, d.x, s)
  BY DEF Verdict, Then
<1>3. d = IF o.body # "map" THEN No("malformed") ELSE All(f)
  BY DEF Decoded
<1>4. DOMAIN f = 1..Len(s) /\ \A j \in DOMAIN s : f[j] = From(o.door, o.fields[j])
  BY <1>1 DEF From
<1>5. \A j \in DOMAIN s : out[j] = Out(o.door, s[j], o.fields[j])
  OBVIOUS
<1> HIDE DEF out, d, b, f
<1>6. b.why # "none" => Verdict(o, s).why # "none"
  BY <1>2 DEF Then
<1>7. o.body # "map" => d.why # "none"
  BY <1>3, Outcomes
<1>8. d.why # "none" => b = d
  BY <1>2
<1>9. ASSUME o.body = "map", NEW j \in DOMAIN s, f[j].why # "none" PROVE d.why # "none"
  <2>1. All(f).why # "none"
    BY <1>1, <1>4, <1>9, AllIs
  <2> QED
    BY <1>3, <1>9, <2>1
<1>10. ASSUME o.body = "map", \A j \in DOMAIN s : f[j].why = "none"
       PROVE  b = All(out)
  <2> DEFINE raws == [j \in 1..Len(s) |-> f[j].x]
             g == [j \in DOMAIN s |->
                    IF \E i \in DOMAIN o.names : o.names[i] = s[j].name /\ raws[i].go # "nil"
                    THEN Coerced(s[j], raws[CHOOSE i \in DOMAIN o.names : o.names[i] = s[j].name])
                    ELSE IF ~s[j].required THEN Got(Nil)
                    ELSE No(IF \E i \in DOMAIN o.names : o.names[i] = s[j].name THEN "null" ELSE "missing")]
  <2>1. d = Got(raws)
    <3>1. All(f) = Got(raws)
      BY <1>1, <1>4, <1>10, AllIs
    <3> QED
      BY <1>3, <1>10, <3>1
  <2>2. b = Bound(o.names, raws, s)
    <3>1. d.why = "none" /\ d.x = raws
      BY <2>1, Outcomes
    <3> QED
      BY <1>2, <3>1
  <2>3. \A j \in DOMAIN s : raws[j] = f[j].x
    BY <1>1
  <2> HIDE DEF raws
  <2>4. Bound(o.names, raws, s) = All(g)
    <3>1. ~\E i \in DOMAIN o.names : \A j \in DOMAIN s : s[j].name # o.names[i]
      OBVIOUS
    <3>2. Bound(o.names, raws, s) =
            IF \E i \in DOMAIN o.names : \A j \in DOMAIN s : s[j].name # o.names[i] THEN No("unknown") ELSE All(g)
      BY DEF Bound
    <3> HIDE DEF g
    <3> QED
      BY <3>1, <3>2
  <2>5. ASSUME NEW j \in DOMAIN s PROVE g[j] = out[j]
    <3>1. \A i \in DOMAIN o.names : o.names[i] = s[j].name <=> i = j
      BY ShapeIs
    <3>2. (CHOOSE i \in DOMAIN o.names : o.names[i] = s[j].name) = j
      BY <3>1
    <3>3. (\E i \in DOMAIN o.names : o.names[i] = s[j].name /\ raws[i].go # "nil") <=> raws[j].go # "nil"
      BY <3>1
    <3>4. \E i \in DOMAIN o.names : o.names[i] = s[j].name
      BY <3>1
    <3>5. g[j] = IF raws[j].go # "nil" THEN Coerced(s[j], raws[j])
                 ELSE IF ~s[j].required THEN Got(Nil) ELSE No("null")
      BY <3>2, <3>3, <3>4
    <3>6. out[j] = Out(o.door, s[j], o.fields[j]) /\ From(o.door, o.fields[j]).why = "none"
          /\ raws[j] = From(o.door, o.fields[j]).x
      BY <1>4, <1>5, <1>10, <2>3
    <3> HIDE DEF g
    <3> QED
      BY <3>5, <3>6 DEF Out
  <2>6. g = [j \in DOMAIN s |-> g[j]] /\ out = [j \in DOMAIN s |-> out[j]]
    BY DEF out
  <2> HIDE DEF g
  <2>7. g = out
    BY <2>5, <2>6
  <2> QED
    BY <2>2, <2>4, <2>7
<1>11. DOMAIN out = 1..Len(s)
  BY <1>1 DEF out
<1>12. ASSUME NEW j \in DOMAIN s, f[j].why # "none" PROVE out[j].why # "none"
  BY <1>4, <1>5, <1>12 DEF Out
<1>13. o.body # "map" => Verdict(o, s).why # "none"
  BY <1>6, <1>7, <1>8
<1>14. ASSUME NEW j \in DOMAIN s, out[j].why # "none" PROVE Verdict(o, s).why # "none"
  <2>1. CASE o.body # "map"
    BY <1>13, <2>1
  <2>2. CASE o.body = "map" /\ \E i \in DOMAIN s : f[i].why # "none"
    BY <1>6, <1>8, <1>9, <2>2
  <2>3. CASE o.body = "map" /\ \A i \in DOMAIN s : f[i].why = "none"
    <3>1. b = All(out)
      BY <1>10, <2>3
    <3>2. All(out).why # "none"
      <4>1. All(out).why = "none" => \A i \in 1..Len(s) : out[i].why = "none"
        BY <1>1, <1>11, AllIs
      <4> QED
        BY <1>1, <1>14, <4>1
    <3> QED
      BY <1>6, <3>1, <3>2
  <2> QED
    BY <2>1, <2>2, <2>3
<1>15. ASSUME o.body = "map", \A j \in DOMAIN s : out[j].why = "none"
       PROVE  Verdict(o, s) = Then(Unpoisoned([j \in DOMAIN s |-> out[j].x], s), Encode)
  <2>1. b = All(out)
    BY <1>10, <1>12, <1>15
  <2>2. All(out) = Got([j \in DOMAIN s |-> out[j].x])
    BY <1>1, <1>11, <1>15, AllIs
  <2>3. b.why = "none" /\ b.x = [j \in DOMAIN s |-> out[j].x]
    BY <2>1, <2>2, Outcomes
  <2>4. Then(b, Check) = Unpoisoned([j \in DOMAIN s |-> out[j].x], s)
    BY <2>3 DEF Then
  <2> QED
    BY <1>2, <2>4
<1> QED
  BY <1>13, <1>14, <1>15 DEF out, Turns

LEMMA DoorsIs ==
    ASSUME RecordInv
    PROVE  DoorsAgree
<1> SUFFICES ASSUME offer.door = "cbor", stage \in {"refused", "staged"}, shape = opened,
                    Len(offer.names) = Len(opened), \A i \in DOMAIN opened : offer.names[i] = opened[i].name,
                    NEW fields \in Spellings
             PROVE  LET twin == Verdict([offer EXCEPT !.door = "json", !.fields = fields], opened)
                    IN IF stage = "refused" THEN twin.why # "none" ELSE twin = Got(payload)
  BY DEF DoorsAgree
<1> DEFINE s == opened
           t == [offer EXCEPT !.door = "json", !.fields = fields]
<1>1. s \in Openings /\ s \in Shapes /\ offer \in Sent(s)
  BY DEF RecordInv
<1>2. Len(s) \in Nat /\ DOMAIN s = 1..Len(s) /\ \A j \in DOMAIN s : s[j] \in Column
  BY <1>1, ShapeIs
<1>3. /\ DOMAIN offer.names = DOMAIN offer.fields /\ \A i \in DOMAIN offer.fields : FromDoor("cbor", offer.fields[i])
      /\ \A i \in DOMAIN offer.fields : Wired(offer.fields[i])
      /\ DOMAIN offer.fields = 1..Len(offer.fields) /\ offer.names \in Seq(STRING)
      /\ offer \in [door : {"typed", "json", "cbor"}, body : STRING, names : Seq(STRING),
                    fields : Seq([is : STRING, t : Numerals])]
  <2>1. /\ DOMAIN offer.names = DOMAIN offer.fields /\ \A i \in DOMAIN offer.fields : FromDoor(offer.door, offer.fields[i])
        /\ \A i \in DOMAIN offer.fields : Wired(offer.fields[i])
        /\ DOMAIN offer.fields = 1..Len(offer.fields)
    BY <1>1, OfferIs
  <2>2. offer \in [door : {"typed", "json", "cbor"}, body : STRING, names : Seq(STRING),
                    fields : Seq([is : STRING, t : Numerals])]
    BY <1>1, SentAssumption
  <2> QED
    BY <2>1, <2>2
<1>4. DOMAIN offer.names = DOMAIN s
  <2> DEFINE names == offer.names
  <2>1. names \in Seq(STRING) /\ Len(names) = Len(s)
    BY <1>3
  <2> HIDE DEF names
  <2>2. DOMAIN names = 1..Len(names)
    BY <2>1
  <2> QED
    BY <1>2, <2>1, <2>2 DEF names
<1>5. t.door = "json" /\ t.fields = fields /\ t.names = offer.names /\ t.body = offer.body
  BY <1>3
<1>6. DOMAIN fields = DOMAIN s /\ \A i \in DOMAIN s : fields[i] \in Twins(s[i], offer.fields[i])
  BY DEF Spellings
<1>7. ASSUME NEW j \in DOMAIN s
      PROVE  Alike(Out("cbor", s[j], offer.fields[j]), Out("json", s[j], fields[j]))
  <2>1. s[j] \in Column /\ Wired(offer.fields[j]) /\ FromDoor("cbor", offer.fields[j])
        /\ fields[j] \in Twins(s[j], offer.fields[j])
    BY <1>2, <1>3, <1>4, <1>6
  <2> QED
    BY <2>1, TwinIs
<1> HIDE DEF t, s
<1> DEFINE a == [j \in DOMAIN s |-> Out("cbor", s[j], offer.fields[j])]
           b == [j \in DOMAIN s |-> Out("json", s[j], fields[j])]
           Encode(row) == Encoded(s, row)
           Rest(out) == Then(Unpoisoned([j \in DOMAIN s |-> out[j].x], s), Encode)
<1>8. /\ offer.body # "map" => Verdict(offer, s).why # "none"
      /\ (\E j \in DOMAIN s : a[j].why # "none") => Verdict(offer, s).why # "none"
      /\ (offer.body = "map" /\ \A j \in DOMAIN s : a[j].why = "none") => Verdict(offer, s) = Rest(a)
  <2>1. Turns(s, offer, [j \in DOMAIN s |-> Out(offer.door, s[j], offer.fields[j])])
    BY <1>1, <1>3, <1>4, VerdictBy DEF s
  <2>2. [j \in DOMAIN s |-> Out(offer.door, s[j], offer.fields[j])] = a
    OBVIOUS
  <2> QED
    BY <2>1, <2>2 DEF Turns
<1>9. /\ offer.body # "map" => Verdict(t, s).why # "none"
      /\ (\E j \in DOMAIN s : b[j].why # "none") => Verdict(t, s).why # "none"
      /\ (offer.body = "map" /\ \A j \in DOMAIN s : b[j].why = "none") => Verdict(t, s) = Rest(b)
  <2>1. Turns(s, t, [j \in DOMAIN s |-> Out(t.door, s[j], t.fields[j])])
    BY <1>1, <1>4, <1>5, <1>6, VerdictBy DEF s
  <2>2. [j \in DOMAIN s |-> Out(t.door, s[j], t.fields[j])] = b
    BY <1>5
  <2>3. t.body = offer.body
    BY <1>5
  <2> HIDE DEF b
  <2> QED
    BY <2>1, <2>2, <2>3 DEF Turns
<1>10. \A j \in DOMAIN s : a[j] = b[j] \/ (a[j].why # "none" /\ b[j].why # "none")
  BY <1>7 DEF Alike
<1>11. a = [j \in DOMAIN s |-> a[j]] /\ b = [j \in DOMAIN s |-> b[j]]
  OBVIOUS
<1> HIDE DEF a, b
<1>12. \/ Verdict(offer, s).why # "none" /\ Verdict(t, s).why # "none"
       \/ Verdict(offer, s) = Verdict(t, s)
  <2>1. CASE offer.body # "map"
    BY <1>8, <1>9, <2>1
  <2>2. CASE \E j \in DOMAIN s : a[j].why # "none"
    BY <1>8, <1>9, <1>10, <2>2
  <2>3. CASE offer.body = "map" /\ \A j \in DOMAIN s : a[j].why = "none"
    <3>1. \A j \in DOMAIN s : a[j] = b[j]
      BY <1>10, <2>3
    <3>2. a = b
      BY <1>11, <3>1
    <3> QED
      BY <1>8, <1>9, <2>3, <3>2
  <2> QED
    BY <2>1, <2>2, <2>3
<1>13. CASE stage = "refused"
  <2>1. Verdict(offer, s).why # "none"
    BY <1>13 DEF RecordInv, s
  <2>2. Verdict(t, s).why # "none"
    BY <1>12, <2>1
  <2> QED
    BY <1>13, <2>2 DEF s, t
<1>14. CASE stage = "staged"
  <2>1. PICK row : BoundRow(row)
    BY <1>14 DEF RecordInv
  <2>2. /\ Row(s, row) /\ Verdict(offer, s).why = "none" /\ Encoded(s, row) = Verdict(offer, s)
        /\ Encoded(s, MovedRow(s, s, row)) = Got(payload)
    BY <2>1 DEF BoundRow, s
  <2>3. MovedRow(s, s, row) = row
    BY <1>1, <2>2, FollowsSelf
  <2>4. Verdict(t, s) = Got(payload)
    BY <1>12, <2>2, <2>3
  <2> QED
    BY <1>14, <2>4 DEF s, t
<1> QED
  BY <1>13, <1>14

\* cborValue: a record sent in CBOR, and in any JSON spelling of the same values,
\* is refused by both doors or stored as one payload by both.
THEOREM DoorsAreTheSame == RecordSpec => []DoorsAgree
<1>1. RecordInv => DoorsAgree
  BY DoorsIs
<1> QED
  BY <1>1, RecordInvariant, PTL
=============================================================================
